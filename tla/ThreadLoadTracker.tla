------------------------- MODULE ThreadLoadTracker -------------------------
(***************************************************************************)
(* The class ThreadLoadTracker of the Blink scheduler: told which periods  *)
(* a thread spent in tasks, it reports the load of every reporting         *)
(* interval to its callback, and feeds the load at every step of its loop  *)
(* to DeviceCapacity.                                                      *)
(*                                                                         *)
(* A call first queues what it has to advance to; Iterate is one turn of   *)
(* the loop in Advance.  The object is used by its own thread only: a new  *)
(* call starts when the last one has finished.                             *)
(***************************************************************************)
EXTENDS CapacityWeight, Sequences, FiniteSets

CONSTANTS
    MaxTime,            \* bound on the time line
    reporting_interval,
    deviceServiceFlag   \* is --device-service anything but "disabled"?

ASSUME TrackerAssumption ==
    /\ MaxTime \in Nat /\ reporting_interval \in Nat \ {0}
    /\ deviceServiceFlag \in BOOLEAN

VARIABLES
    time,                   \* time_
    next_reporting_time,
    thread_state,           \* "active" or "paused"
    last_state_change_time,
    run_time,               \* run_time_inside_window_
    smoothed,               \* of device_capacity_
    todo,                   \* the calls of Advance the current call still makes
    then,                   \* the state it sets afterwards, or "same"
    \* History, for the properties only.
    busy,                   \* the units [i, i+1) recorded as task time
    report                  \* what the callback was told last: [at, load]

trackerMembers == <<time, next_reporting_time, thread_state, last_state_change_time, run_time, smoothed>>
trackerVars == <<trackerMembers, todo, then, busy, report>>

Times == 0 .. MaxTime
NoReport == [at |-> -1, load |-> -1]

TrackerTypeOK ==
    /\ time \in Times
    /\ next_reporting_time \in 0 .. MaxTime + reporting_interval
    /\ thread_state \in {"active", "paused"} /\ then \in {"active", "paused", "same"}
    /\ last_state_change_time \in Times
    /\ run_time \in 0 .. reporting_interval
    /\ busy \subseteq Times

TrackerInit ==
    /\ time = 0 /\ next_reporting_time = reporting_interval
    /\ thread_state = "paused" /\ last_state_change_time = 0
    /\ run_time = 0
    /\ smoothed \in GarbageWeights
    /\ todo = <<>> /\ then = "same"
    /\ busy = {} /\ report = NoReport

-----------------------------------------------------------------------------
To(now, task) == [now |-> now, task |-> task]

Later(a, b)   == IF a > b THEN a ELSE b
Earlier(a, b) == IF a < b THEN a ELSE b

Call(advances, state) ==
    /\ todo = <<>> /\ then = "same"
    /\ todo' = advances /\ then' = state
    /\ UNCHANGED <<trackerMembers, report>>

\* Advance(now) demands that time does not go back.
Pause(now)      == now >= time /\ Call(<<To(now, FALSE)>>, "paused") /\ UNCHANGED busy
Resume(now)     == now >= time /\ Call(<<To(now, FALSE)>>, "active") /\ UNCHANGED busy
RecordIdle(now) == now >= time /\ Call(<<To(now, FALSE)>>, "same") /\ UNCHANGED busy

\* A task that began before the last change of state counts from there on.
NotClamped(t) == t                                               \* mutant
Clamped(t) == Later(last_state_change_time, t)

RecordTaskTime(start, end) ==
    /\ start <= end /\ Later(last_state_change_time, start) >= time
    /\ Call(<<To(Clamped(start), FALSE), To(Clamped(end), TRUE)>>, "same")
    /\ busy' = busy \cup (Later(last_state_change_time, start) .. Later(last_state_change_time, end) - 1)

\* A paused tracker only moves its time.
AdvancePaused ==
    /\ todo # <<>> /\ thread_state = "paused"
    /\ time' = Head(todo).now
    /\ todo' = Tail(todo)
    /\ UNCHANGED <<next_reporting_time, thread_state, last_state_change_time,
                   run_time, smoothed, then, busy, report>>

Intersection(left1, right1, left2, right2) ==
    LET left == Later(left1, left2)
        right == Earlier(right1, right2)
    IN  IF left <= right THEN right - left ELSE 0

\* One turn of the loop stops at the next report.
StepToNow(now) == now                                            \* mutant
NextTime(now) == Earlier(next_reporting_time, now)

RunTimeAfter(next, task) ==
    run_time + IF task
               THEN Intersection(next_reporting_time - reporting_interval,
                                 next_reporting_time, time, next)
               ELSE 0

Load(run) == (run * Scale) \div reporting_interval

\* SetCapacity smooths the load, unless it is called twice in one tick; then
\* the load that is reported is replaced by the smoothed one.
WeightedAfter(load) ==
    IF deviceServiceFlag THEN {smoothed} \cup Weighed(load, smoothed) ELSE {smoothed}

Reported(load) == IF deviceServiceFlag THEN smoothed' ELSE load

WindowKept(run) == run                                           \* mutant
WindowReset(run) == 0

Iterate ==
    /\ todo # <<>> /\ thread_state = "active"
    /\ time < Head(todo).now
    /\ LET next == NextTime(Head(todo).now)
           run  == RunTimeAfter(next, Head(todo).task)
       IN  /\ time' = next
           /\ smoothed' \in WeightedAfter(Load(run))
           /\ IF next = next_reporting_time
              THEN /\ report' = [at |-> next, load |-> Reported(Load(run))]
                   /\ next_reporting_time' = next_reporting_time + reporting_interval
                   /\ run_time' = WindowReset(run)
              ELSE /\ run_time' = run
                   /\ UNCHANGED <<report, next_reporting_time>>
    /\ UNCHANGED <<thread_state, last_state_change_time, todo, then, busy>>

LoopDone ==
    /\ todo # <<>> /\ thread_state = "active"
    /\ time >= Head(todo).now
    /\ todo' = Tail(todo)
    /\ UNCHANGED <<trackerMembers, then, busy, report>>

\* The window starts anew.
KeepNext(now) == next_reporting_time                             \* mutant
NextAfterReset(now) == now + reporting_interval

ResetTo(now) ==
    /\ last_state_change_time' = now
    /\ next_reporting_time' = NextAfterReset(now)
    /\ run_time' = 0
    /\ busy' = {}

\* Reset called from outside does not advance the time.
Reset(now) ==
    /\ now >= time /\ todo = <<>> /\ then = "same"
    /\ ResetTo(now)
    /\ UNCHANGED <<time, thread_state, smoothed, todo, then, report>>

\* The end of Pause and Resume.
SetStateAndReset ==
    /\ todo = <<>> /\ then # "same"
    /\ thread_state' = then /\ then' = "same"
    /\ ResetTo(time)
    /\ UNCHANGED <<time, smoothed, todo, report>>

TrackerNext ==
    \/ \E now \in Times : Pause(now) \/ Resume(now) \/ RecordIdle(now) \/ Reset(now)
    \/ \E start, end \in Times : RecordTaskTime(start, end)
    \/ AdvancePaused \/ Iterate \/ LoopDone \/ SetStateAndReset

TrackerSpec == TrackerInit /\ [][TrackerNext]_trackerVars
-----------------------------------------------------------------------------
Window == next_reporting_time - reporting_interval .. time - 1

\* While the tracker is active its run time is exactly the task time recorded
\* in the current window, however tasks, pauses and windows overlap.
RunTimeExact ==
    thread_state = "active" => run_time = Cardinality(busy \cap Window)

\* Advance is never asked to go back, and between two turns of its loop the
\* next report lies ahead, so that the loop makes progress and Intersection is
\* given no empty interval (their DCHECKs); the window that the report ends
\* does not begin later than the last reset.
AdvanceChecksHold ==
    /\ todo # <<>> => time <= Head(todo).now
    /\ thread_state = "active" =>
          /\ time < next_reporting_time
          /\ next_reporting_time - reporting_interval <= Later(time, last_state_change_time)

\* No interval is skipped or reported twice: reports are one interval apart,
\* or one interval after the tracker was resumed or reset.
ReportsEveryInterval ==
    [][ report' # report =>
          report'.at - reporting_interval \in {report.at, last_state_change_time} ]_trackerVars

\* "Every |reporting_interval_| time units, it reports the average thread load
\* level computed using a sliding window of width |reporting_interval_|."
ReportIsWindowAverage ==
    [][ report' # report =>
          report'.load =
            Load(Cardinality(busy \cap (report'.at - reporting_interval .. report'.at - 1))) ]_trackerVars
=============================================================================
