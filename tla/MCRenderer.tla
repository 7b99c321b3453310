----------------------------- MODULE MCRenderer -----------------------------
(* Instances for TLC of what a renderer process does for the device service: *)
(* its threads tell their load ("capacity"), ThreadLoadTracker reports it    *)
(* ("tracker"), and its pages hear of changes ("client").  They share no     *)
(* state here, so one run moves one of them, chosen at the start, and leaves *)
(* the others as they began.                                                 *)
EXTENDS DeviceCapacity, ThreadLoadTracker, DeviceServiceClient

\* The weights and thresholds of the code in percent, three loads.
MCScale == 100
MCDecay == 15
MCLoads == {0, 20, 100}

\* Only "the same tick or another" matters to one DeviceCapacity.
MCTicks == 2

\* A NaN, two loads, and garbage that is no load.
MCWeights   == {NaN, 0, 100, 500}
MCCounts    == {0, 1, 7}
MCShort     == 4
MCShortWord == 8

\* Two whole windows and parts of two more.
MCMaxTime  == 8
MCInterval == 3

\* Enough changes for two of them to be on their way together.
MCMaxChanges == 3

VARIABLE part

\* What the chosen part may begin with varies, the others begin in one way.
MCInit ==
    /\ part \in {"capacity", "tracker", "client"}
    /\ Init /\ TrackerInit /\ ClientInit
    /\ part # "capacity" =>
         \A t \in Trackers :
             /\ now = 0 /\ high[t] = 0 /\ weighted[t] = 0 /\ idle_count[t] = 0
             /\ previous_tick[t] = 0 /\ same_thread[t]
    /\ smoothed = 0
    /\ part # "client" => current = kCPUComputeCapacity

\* Pages go away, and the service need not change for ever.
NothingComes == ~ENABLED ClientNext

MCNext ==
    /\ UNCHANGED part
    /\ \/ part = "capacity" /\ Next /\ UNCHANGED <<trackerVars, clientVars>>
       \/ part = "tracker" /\ TrackerNext /\ UNCHANGED <<vars, clientVars>>
       \/ part = "client" /\ ClientNext /\ UNCHANGED <<vars, trackerVars>>
       \/ part = "client" /\ NothingComes /\ UNCHANGED <<vars, trackerVars, clientVars>>

MCVars == <<part, vars, trackerVars, clientVars>>

MCFairness == \A o \in Objects : 
        /\ WF_MCVars(part = "client" /\ AddListenerAndGetCurrentService(o) /\ UNCHANGED <<part, vars, trackerVars>>)
        /\ WF_MCVars(part = "client" /\ ReceiveReply(o) /\ UNCHANGED <<part, vars, trackerVars>>)
        /\ WF_MCVars(part = "client" /\ ReceiveNotice(o) /\ UNCHANGED <<part, vars, trackerVars>>)

MCSpec == MCInit /\ [][MCNext]_MCVars /\ MCFairness
=============================================================================
