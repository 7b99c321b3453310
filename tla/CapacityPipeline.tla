-------------------------- MODULE CapacityPipeline --------------------------
(***************************************************************************)
(* The whole way from thread load to processor frequency, for the switch   *)
(* "frequency": each thread's DeviceCapacity sends hints through a message *)
(* pipe of its own to the one DeviceServiceProvider, which shifts the one  *)
(* frequencyLimiter.  A pipe keeps its order; between pipes there is none. *)
(*                                                                         *)
(* Only differences of tick counts matter to the code, so the current tick *)
(* is always Horizon, and a tick that passes makes everything one older;   *)
(* 0 stands for every older tick.  This keeps the state finite however     *)
(* long the system runs.                                                   *)
(***************************************************************************)
EXTENDS Integers, Sequences, SequencesExt

CONSTANTS
    Trackers, Loads, Scale, DecayPercent, IdlePeriod, Word, NaN,
    GarbageWeights, GarbageCounts,                  \* see DeviceCapacity
    UpdateInterval, GarbageCapacities,              \* see DeviceServiceProvider
    MaxFrequencies, Scaled, LimiterWord, Machines,  \* see FrequencyLimiter
    MaxDelay,       \* a hint is delivered within this many ticks
    Horizon

ASSUME PipelineAssumption ==
    /\ MaxDelay \in Nat /\ Horizon \in Nat /\ UpdateInterval \in Nat
    /\ Horizon > MaxDelay + UpdateInterval + 1

VARIABLES
    high, weighted, idle_count, previous_tick, same_thread,         \* DeviceCapacity
    pipe,                                                           \* hints on their way
    exists, receivers, listening, last_update, last_capacity, isEco, \* the provider
    alive, isHybrid, maxFrequency, gear, ac, dc, power,             \* the limiter
    closer          \* history: the thread whose hint closed the last window

DC == INSTANCE DeviceCapacity
        WITH now <- Horizon, TickModulus <- Horizon + 1,
             lastSent <- 0, silent <- 0, steady <- 0

DSP == INSTANCE DeviceServiceProvider
        WITH Receivers <- Trackers, Clients <- {}, clients <- {},
             Processes <- {1}, running <- {1}, throttled <- {},
             Services <- {"frequency"}, service <- "frequency", Times <- 0 .. Horizon, TickModulus <- Horizon + 1,
             window <- {}, call <- 0, decided <- {}, lastReal <- 0, rejected <- 0, sawUnder <- FALSE

\* Writes succeed, and the service's GearUp always goes to the top.  (TLC can
\* keep an expression unchanged, but no constant truth value.)
Never == alive /\ ~alive

FL == INSTANCE FrequencyLimiter
        WITH Word <- LimiterWord, DownCounts <- {10}, UpCounts <- {100},
             StoredLimits <- {0}, faulty <- Never, stepped <- Never

tracking == <<high, weighted, idle_count, previous_tick, same_thread>>
provider == <<exists, receivers, listening, last_update, last_capacity, isEco>>
limiter  == <<alive, isHybrid, maxFrequency, gear, ac, dc, power>>
vars     == <<tracking, pipe, provider, limiter, closer>>

NoThread == 0

Init ==
    /\ high = [t \in Trackers |-> Scale]
    /\ weighted \in [Trackers -> GarbageWeights]
    /\ idle_count \in [Trackers -> GarbageCounts]
    /\ previous_tick = [t \in Trackers |-> 0]
    /\ same_thread = [t \in Trackers |-> TRUE]
    /\ pipe = [t \in Trackers |-> <<>>]
    /\ exists = FALSE /\ receivers = {} /\ listening = FALSE
    /\ last_update = 0 /\ last_capacity = 0 /\ isEco = FALSE
    /\ FL!Init /\ isHybrid \in Machines
    /\ closer = NoThread

-----------------------------------------------------------------------------
\* The limiter is a static object: it exists before any message is handled.
StartBrowser ==
    /\ FL!Construct
    /\ UNCHANGED <<tracking, pipe, provider, closer>>

PutInFront(hints, hint) == <<hint>> \o hints                     \* mutant
Put(hints, hint) == Append(hints, hint)

\* A thread samples its load, which is the web page's affair; a hint goes into
\* its pipe.
Report(t) ==
    /\ alive
    /\ \E load \in Loads, hint \in DC!HintsAt(t, Horizon) :
         /\ DC!SetCapacity(t, load, Horizon, Horizon, hint)
         /\ pipe' = IF hint = DC!NoHint THEN pipe ELSE [pipe EXCEPT ![t] = Put(@, hint)]
    /\ UNCHANGED <<provider, limiter, closer>>

\* Provider() binds a pipe for its first hint.
Connect(t) ==
    /\ pipe[t] # <<>>
    /\ DSP!Bind(t)
    /\ UNCHANGED <<tracking, pipe, limiter, closer>>

\* What the provider calls, the limiter does within the same handler.
Actuate(actuation) ==
    CASE actuation.op = "GearUp"   -> FL!GearUp(100)
      [] actuation.op = "GearDown" -> FL!GearDown(10)
      [] OTHER -> UNCHANGED limiter

Deliver(t) ==
    /\ pipe[t] # <<>>
    /\ LET hint == Head(pipe[t])
       IN  \E actuation \in DSP!Call :
             /\ DSP!SubmitTaskCapacityHint(t, hint.tick, 1, hint.capacity, actuation)
             /\ Actuate(actuation)
    /\ pipe' = [pipe EXCEPT ![t] = Tail(@)]
    /\ closer' = IF last_update' = last_update THEN closer ELSE t
    /\ UNCHANGED <<tracking>>

Older(tick) == IF tick = 0 THEN 0 ELSE tick - 1

\* Time passes, unless a hint is as late as one may be.
PassTick ==
    /\ \A t \in Trackers : \A i \in DOMAIN pipe[t] : pipe[t][i].tick > Horizon - MaxDelay
    /\ pipe' = [t \in Trackers |->
                  [i \in DOMAIN pipe[t] |-> [pipe[t][i] EXCEPT !.tick = Older(@)]]]
    /\ previous_tick' = [t \in Trackers |-> 0]
    /\ last_update' = Older(last_update)
    /\ UNCHANGED <<high, weighted, idle_count, same_thread,
                   exists, receivers, listening, last_capacity, isEco, limiter, closer>>

Next ==
    \/ StartBrowser
    \/ PassTick
    \/ \E t \in Trackers : Report(t) \/ Connect(t) \/ Deliver(t)

\* Threads keep sampling (they run at least short tasks), messages arrive, and
\* the clock ticks.
Fairness ==
    /\ WF_vars(StartBrowser) /\ WF_vars(PassTick)
    /\ \A t \in Trackers :
         WF_vars(Report(t)) /\ WF_vars(Connect(t)) /\ WF_vars(Deliver(t))

Spec == Init /\ [][Next]_vars /\ Fairness
-----------------------------------------------------------------------------
\* A hint can only be rejected as past because another thread's newer hint has
\* overtaken it in another pipe: a thread never spoils its own hints.
RejectedOnlyOvertaken ==
    \A t \in Trackers :
        pipe[t] # <<>> /\ Head(pipe[t]).tick < last_update => closer # t

BandOf(t) == DC!Band(weighted[t])

\* If all threads stay idle from some time on, the machine ends up at the
\* floor: idle hints are rare, but they keep coming, and each window they close
\* shifts down one gear.
IdlenessReachesFloor ==
    <>[](\A t \in Trackers : BandOf(t) = DC!kCapacityIdle) => <>[](ac = FL!FLOOR)

\* If all threads stay over capacity from some time on, the machine ends up
\* without a limit.
OverloadReachesRelease ==
    <>[](\A t \in Trackers : BandOf(t) = DC!kCapacityOver) => <>[](alive /\ ac = 0)

\* A lasting load settles the machine, at either end: neither the rare idle
\* hints nor the hints of the other thread that overtake them keep the gear
\* from getting there.
LoadSettles == IdlenessReachesFloor /\ OverloadReachesRelease

\* Once the provider has accepted an overload, the limit will be lifted: some
\* later hint closes the window, whoever sends it.
AcceptedOverloadReleases == (last_capacity = DSP!kCapacityOver) ~> (ac = 0)

\* What threads, pipes, windows, remembered frequencies and the power scheme come
\* to is one regulator: it is shifted by the peak of all that was heard since the
\* last decision and by nothing else, at most once per window, to the limits that
\* belong to its level alone.  (Refinement of Governor.)
Promise == INSTANCE Governor
        WITH Top <- 100, Step <- 10, Floor <- 1000, Wait <- UpdateInterval,
             Late <- MaxDelay, Forever <- Horizon, Garbage <- GarbageCapacities,
             hybrid <- isHybrid, started <- alive, frequency <- maxFrequency,
             level <- IF alive THEN gear ELSE 100, applied <- power.applied,
             served <- exists, peak <- last_capacity, age <- Horizon - last_update
GovernsAsPromised == Promise!Spec
=============================================================================
