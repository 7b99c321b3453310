------------------------- MODULE MCCapacityPipeline -------------------------
(* Instances of CapacityPipeline for TLC. *)
EXTENDS CapacityPipeline

\* No smoothing: load 0 is idle, load 1 may be idle or over, for want of precision.
MCScale   == 3
MCDecay   == 100
MCLoads   == {0, 1}
MCPeriod  == 2
MCWord    == 4
MCWeights == {0}
MCCounts  == {0}

\* A hint may be overtaken by one that closes the window, and by one more.
MCInterval == 1
MCDelay    == 1
MCHorizon  == 4

MCGarbage  == {0, 3, 4}

MCFrequencies == {1500}
MCScaled == [m \in MCFrequencies |-> [g \in 0 .. 100 |-> (g * m) \div 100]]
MCLimiterWord == 65536
MCMachines == {TRUE, FALSE}
=============================================================================
