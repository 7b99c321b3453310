---------------------- MODULE MCDeviceServiceProvider ----------------------
(* Instances of DeviceServiceProvider for TLC. *)
EXTENDS DeviceServiceProvider, TLC

\* No Capacity, below and above all of them, and one that throttles.
MCGarbage == {-1, 1, 4}

\* Windows that end at 2 and 4 at the earliest, and the ticks around them.
MCInterval == 1
MCTimes    == 0 .. 4
MCWide     == 16
MCNarrow   == 4

MCReceivers == Permutations(Receivers)

MCServices == {"disabled", "frequency", "qos"}

MCOneProcess   == {1}
MCTwoProcesses == {1, 2}
=============================================================================
