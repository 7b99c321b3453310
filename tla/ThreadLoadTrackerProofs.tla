---------------------- MODULE ThreadLoadTrackerProofs ----------------------
(***************************************************************************)
(* What TLC checks of ThreadLoadTracker on a short time line, for every    *)
(* reporting interval and every sequence of tasks, pauses and resets.      *)
(***************************************************************************)
EXTENDS ThreadLoadTracker, FiniteSetTheorems, TLAPS

(* What a call still has to advance to. *)
LEMMA OneCall ==
    ASSUME NEW x
    PROVE  <<x>> # <<>> /\ Head(<<x>>) = x /\ Tail(<<x>>) = <<>>
OBVIOUS

LEMMA TwoCalls ==
    ASSUME NEW x, NEW y
    PROVE  <<x, y>> # <<>> /\ Head(<<x, y>>) = x /\ Tail(<<x, y>>) = <<y>>
OBVIOUS

LEMMA ToFields ==
    ASSUME NEW a
    PROVE  /\ To(a, FALSE).now = a /\ To(a, TRUE).now = a
           /\ ~To(a, FALSE).task /\ To(a, TRUE).task
BY DEF To

LEMMA OneAdvance ==
    ASSUME NEW s, NEW a, NEW task \in BOOLEAN, s = <<To(a, task)>>
    PROVE  s # <<>> /\ Tail(s) = <<>> /\ Head(s).now = a /\ (Head(s).task <=> task)
<1>1. Head(s) = To(a, task) /\ Tail(s) = <<>> /\ s # <<>>
  BY OneCall, Zenon
<1>2. CASE task = TRUE
  BY <1>1, <1>2, ToFields
<1>3. CASE task = FALSE
  BY <1>1, <1>3, ToFields
<1> QED
  BY <1>2, <1>3

LEMMA TwoAdvances ==
    ASSUME NEW s, NEW a, NEW b, s = <<To(a, FALSE), To(b, TRUE)>>
    PROVE  s # <<>> /\ Tail(s) = <<To(b, TRUE)>> /\ Head(s).now = a /\ ~Head(s).task
<1>1. Head(s) = To(a, FALSE) /\ Tail(s) = <<To(b, TRUE)>> /\ s # <<>>
  BY TwoCalls, Zenon
<1> QED
  BY <1>1, ToFields

\* Of the time ahead, exactly S was recorded as task time.
Ahead(S) == thread_state = "active" => \A i \in Times : i >= time => (i \in busy <=> i \in S)

\* The calls of Advance that are left, and what they mean for the time ahead.
Nothing == todo = <<>> /\ Ahead({})
UpTo(a) == todo = <<To(a, FALSE)>> /\ Ahead({})
Task(b) == todo = <<To(b, TRUE)>> /\ Ahead(time .. b - 1)
TaskFrom(a, b) == todo = <<To(a, FALSE), To(b, TRUE)>> /\ Ahead(a .. b - 1)

CallInv ==
    \/ Nothing
    \/ \E a \in Times : a >= time /\ UpTo(a)
    \/ \E b \in Times : b >= time /\ Task(b)
    \/ \E a, b \in Times : time <= a /\ a <= b /\ TaskFrom(a, b)

ActiveInv ==
    thread_state = "active" =>
        /\ time < next_reporting_time
        /\ next_reporting_time - reporting_interval <= Later(time, last_state_change_time)
        /\ next_reporting_time - reporting_interval \in {report.at, last_state_change_time}
        /\ run_time = Cardinality(busy \cap Window)

Types ==
    /\ time \in Times
    /\ next_reporting_time \in 0 .. MaxTime + reporting_interval
    /\ thread_state \in {"active", "paused"} /\ then \in {"active", "paused", "same"}
    /\ last_state_change_time \in Times
    /\ run_time \in Nat /\ (thread_state = "paused" => run_time = 0)
    /\ busy \subseteq Times

TrackerInv == Types /\ CallInv /\ ActiveInv

\* What the loop of Advance finds first.
LEMMA HeadOfTodo ==
    ASSUME Types, CallInv, todo # <<>>
    PROVE  /\ Head(todo).now \in Times /\ Head(todo).now >= time
           /\ thread_state = "active" =>
                \A i \in Times : time <= i /\ i < Head(todo).now => (i \in busy <=> Head(todo).task)
<1>0. Times \subseteq Nat /\ time \in Times
  BY TrackerAssumption DEF Types, Times
<1>1. CASE \E a \in Times : a >= time /\ UpTo(a)
  <2>1. PICK a \in Times : a >= time /\ UpTo(a)
    BY <1>1
  <2>2. Head(todo).now = a /\ ~Head(todo).task /\ Ahead({})
    BY <2>1, OneAdvance DEF UpTo
  <2> QED
    BY <1>0, <2>1, <2>2 DEF Ahead
<1>2. CASE \E b \in Times : b >= time /\ Task(b)
  <2>1. PICK b \in Times : b >= time /\ Task(b)
    BY <1>2
  <2>2. Head(todo).now = b /\ Head(todo).task /\ Ahead(time .. b - 1)
    BY <2>1, OneAdvance DEF Task
  <2>3. \A i \in Times : time <= i /\ i < b => i \in time .. b - 1
    BY <1>0, <2>1
  <2> QED
    BY <1>0, <2>1, <2>2, <2>3 DEF Ahead
<1>3. CASE \E a, b \in Times : time <= a /\ a <= b /\ TaskFrom(a, b)
  <2>1. PICK a \in Times, b \in Times : time <= a /\ a <= b /\ TaskFrom(a, b)
    BY <1>3
  <2>2. Head(todo).now = a /\ ~Head(todo).task /\ Ahead(a .. b - 1)
    BY <2>1, TwoAdvances DEF TaskFrom
  <2>3. \A i \in Times : i < a => i \notin a .. b - 1
    BY <1>0, <2>1
  <2> QED
    BY <1>0, <2>1, <2>2, <2>3 DEF Ahead
<1> QED
  BY <1>1, <1>2, <1>3 DEF CallInv, Nothing

\* One turn of the loop adds to the run time what it adds to the window.
LEMMA WindowGrows ==
    ASSUME TrackerInv, todo # <<>>, thread_state = "active", time < Head(todo).now,
           NEW next, next = NextTime(Head(todo).now)
    PROVE  /\ next \in Times /\ time < next /\ next <= Head(todo).now
           /\ next <= next_reporting_time
           /\ RunTimeAfter(next, Head(todo).task) =
                Cardinality(busy \cap (next_reporting_time - reporting_interval .. next - 1))
<1> DEFINE left == next_reporting_time - reporting_interval
           from == Later(left, time)
           old  == busy \cap (left .. time - 1)
           new  == busy \cap (from .. next - 1)
<1>1. /\ time \in Int /\ next_reporting_time \in Int /\ reporting_interval \in Nat \ {0}
      /\ Head(todo).now \in Times /\ Head(todo).now \in Int
      /\ time < next_reporting_time
  BY HeadOfTodo, TrackerAssumption DEF TrackerInv, Types, ActiveInv, Times
<1>2. /\ next \in Int /\ time < next /\ next <= Head(todo).now /\ next <= next_reporting_time
      /\ next \in {next_reporting_time, Head(todo).now}
  BY <1>1 DEF NextTime, Earlier
<1>3. next \in Times
  <2>1. 0 <= time /\ Head(todo).now <= MaxTime /\ MaxTime \in Nat
    BY <1>1, TrackerAssumption DEF TrackerInv, Types, Times
  <2> QED
    BY <1>1, <1>2, <2>1 DEF Times
<1>4. left \in Int /\ from \in Int /\ from >= left /\ from >= time /\ from \in {left, time}
  BY <1>1 DEF Later
<1> HIDE DEF left, from
<1>5. run_time = Cardinality(old)
  BY DEF TrackerInv, ActiveInv, Window, left
<1>6. /\ busy \cap (left .. next - 1) = old \cup new
      /\ old \cap new = {}
  <2>1. \A i \in Int : /\ i \in left .. next - 1 <=> i \in left .. time - 1 \/ i \in from .. next - 1
                      /\ ~(i \in left .. time - 1 /\ i \in from .. next - 1)
    BY <1>1, <1>2, <1>4
  <2>2. left .. next - 1 \subseteq Int /\ left .. time - 1 \subseteq Int /\ from .. next - 1 \subseteq Int
    BY <1>1, <1>2, <1>4
  <2> QED
    BY <2>1, <2>2
<1>7. IsFiniteSet(old) /\ IsFiniteSet(new)
  <2>1. time - 1 \in Int /\ next - 1 \in Int
    BY <1>1, <1>2
  <2>2. IsFiniteSet(left .. time - 1) /\ IsFiniteSet(from .. next - 1)
    BY <1>4, <2>1, FS_Interval
  <2> QED
    BY <2>2, FS_Intersection
<1>8. Cardinality(old) \in Nat /\ Cardinality(new) \in Nat
  BY <1>7, FS_CardinalityType
<1> HIDE DEF old, new
<1>9. Cardinality(busy \cap (left .. next - 1)) = Cardinality(old) + Cardinality(new)
  <2>1. Cardinality(old \cup new) = Cardinality(old) + Cardinality(new) - Cardinality({})
    BY <1>6, <1>7, FS_Union
  <2>2. Cardinality({}) = 0
    BY FS_EmptySet
  <2>3. Cardinality(old \cup new) = Cardinality(old) + Cardinality(new)
    BY <1>8, <2>1, <2>2
  <2> QED
    BY <1>6, <2>3, Zenon
<1>10. from .. next - 1 \subseteq Times
  <2>1. 0 <= time /\ next <= MaxTime /\ MaxTime \in Nat
    BY <1>3, TrackerAssumption DEF TrackerInv, Types, Times
  <2> QED
    BY <1>1, <1>2, <1>4, <2>1 DEF Times
<1>11. \A i \in from .. next - 1 : i \in busy <=> Head(todo).task
  <2>1. \A i \in Times : time <= i /\ i < Head(todo).now => (i \in busy <=> Head(todo).task)
    BY HeadOfTodo DEF TrackerInv
  <2>2. \A i \in from .. next - 1 : time <= i /\ i < Head(todo).now
    BY <1>1, <1>2, <1>4
  <2> QED
    BY <1>10, <2>1, <2>2
<1>12. CASE Head(todo).task
  <2>1. new = from .. next - 1
    BY <1>11, <1>12 DEF new
  <2>2. Cardinality(new) = IF from > next - 1 THEN 0 ELSE next - 1 - from + 1
    <3>1. next - 1 \in Int
      BY <1>2
    <3> QED
      BY <1>4, <2>1, <3>1, FS_Interval, Zenon
  <2>3. Intersection(left, next_reporting_time, time, next) = Cardinality(new)
    BY <1>1, <1>2, <1>4, <2>2 DEF Intersection, Earlier, from
  <2> QED
    BY <1>2, <1>3, <1>5, <1>9, <1>12, <2>3 DEF RunTimeAfter, left
<1>13. CASE ~Head(todo).task
  <2>1. Cardinality(new) = 0
    BY <1>11, <1>13, FS_EmptySet DEF new
  <2> QED
    BY <1>2, <1>3, <1>5, <1>8, <1>9, <1>13, <2>1 DEF RunTimeAfter, left
<1> QED
  BY <1>12, <1>13
-----------------------------------------------------------------------------
(* Every step keeps the invariant. *)
LEMMA NothingLeft ==
    ASSUME CallInv, todo = <<>> PROVE Ahead({})
BY OneAdvance, TwoAdvances DEF CallInv, Nothing, UpTo, Task, TaskFrom

LEMMA TimeTypes ==
    /\ Times \subseteq Nat /\ reporting_interval \in Nat /\ reporting_interval > 0
    /\ \A t \in Times : t + reporting_interval \in 0 .. MaxTime + reporting_interval
    /\ \A a, b \in Times : Later(a, b) \in Times /\ Later(a, b) >= a /\ Later(a, b) >= b
<1>1. MaxTime \in Nat /\ reporting_interval \in Nat \ {0}
  BY TrackerAssumption
<1> QED
  BY <1>1 DEF Times, Later

\* Pause, Resume and RecordIdle.
LEMMA CallKeeps ==
    ASSUME TrackerInv, NEW now \in Times, now >= time,
           NEW state \in {"active", "paused", "same"},
           Call(<<To(now, FALSE)>>, state), UNCHANGED busy
    PROVE  TrackerInv'
<1>1. todo = <<>> /\ todo' = <<To(now, FALSE)>> /\ then' = state /\ UNCHANGED <<trackerMembers, report, busy>>
  BY DEF Call
<1>2. Ahead({})
  BY <1>1, NothingLeft DEF TrackerInv
<1>3. Types' /\ ActiveInv'
  BY <1>1 DEF TrackerInv, Types, ActiveInv, Window, trackerMembers
<1>4. UpTo(now)' /\ now >= time'
  BY <1>1, <1>2 DEF UpTo, Ahead, trackerMembers
<1> QED
  BY <1>3, <1>4 DEF TrackerInv, CallInv

LEMMA RecordTaskTimeKeeps ==
    ASSUME TrackerInv, NEW start \in Times, NEW end \in Times, RecordTaskTime(start, end)
    PROVE  TrackerInv'
<1>0. Clamped(start) \in Times /\ Clamped(end) \in Times /\ time \in Times
  BY TimeTypes DEF Clamped, TrackerInv, Types
<1>1. PICK a \in Times, b \in Times :
        /\ a = Clamped(start) /\ b = Clamped(end)
        /\ todo = <<>> /\ todo' = <<To(a, FALSE), To(b, TRUE)>> /\ then' = "same"
        /\ UNCHANGED <<trackerMembers, report>>
        /\ busy' = busy \cup (a .. b - 1) /\ a >= time
  BY <1>0 DEF RecordTaskTime, Call, Clamped
<1>2. a \in Nat /\ b \in Nat /\ a <= b /\ time \in Nat
  <2>1. start <= end /\ start \in Nat /\ end \in Nat /\ last_state_change_time \in Nat
    BY TimeTypes DEF RecordTaskTime, TrackerInv, Types
  <2> QED
    BY <1>0, <1>1, <2>1, TimeTypes DEF Clamped, Later
<1>3. a .. b - 1 \subseteq Times
  BY <1>2, TrackerAssumption DEF Times
<1>4. Ahead({})
  BY <1>1, NothingLeft DEF TrackerInv
<1>5. TaskFrom(a, b)'
  <2>1. \A i \in Times : i >= time => (i \in busy' <=> i \in busy \/ i \in a .. b - 1)
    BY <1>1
  <2>2. Ahead(a .. b - 1)'
    BY <1>1, <1>4, <2>1 DEF Ahead, trackerMembers
  <2> QED
    BY <1>1, <2>2 DEF TaskFrom
<1>6. CallInv'
  BY <1>1, <1>2, <1>5 DEF CallInv, trackerMembers
<1>7. Types'
  BY <1>1, <1>3 DEF TrackerInv, Types, trackerMembers
<1>8. ActiveInv'
  <2>1. busy' \cap Window = busy \cap Window
    <3>1. \A i \in a .. b - 1 : i \notin Window
      BY <1>1, <1>2 DEF Window
    <3> QED
      BY <1>1, <3>1
  <2>2. Window' = Window
    BY <1>1 DEF Window, trackerMembers
  <2> QED
    BY <1>1, <2>1, <2>2 DEF TrackerInv, ActiveInv, trackerMembers
<1> QED
  BY <1>6, <1>7, <1>8 DEF TrackerInv

\* One turn of the loop.
LEMMA IterateKeeps ==
    ASSUME TrackerInv, Iterate
    PROVE  TrackerInv'
<1> DEFINE next == NextTime(Head(todo).now)
           run  == RunTimeAfter(next, Head(todo).task)
<1>1. /\ todo # <<>> /\ thread_state = "active" /\ time < Head(todo).now
      /\ time' = next
      /\ UNCHANGED <<thread_state, last_state_change_time, todo, then, busy>>
  BY DEF Iterate
<1>2. \/ /\ next = next_reporting_time /\ run_time' = 0
         /\ report'.at = next
         /\ next_reporting_time' = next_reporting_time + reporting_interval
      \/ /\ next # next_reporting_time /\ run_time' = run
         /\ UNCHANGED <<report, next_reporting_time>>
  BY DEF Iterate, WindowReset
<1>3. /\ next \in Times /\ time < next /\ next <= Head(todo).now /\ next <= next_reporting_time
      /\ run = Cardinality(busy \cap (next_reporting_time - reporting_interval .. next - 1))
  BY <1>1, WindowGrows
<1> HIDE DEF next, run
<1>4. /\ Types /\ CallInv /\ time < next_reporting_time
      /\ next_reporting_time - reporting_interval <= Later(time, last_state_change_time)
      /\ next_reporting_time - reporting_interval \in {report.at, last_state_change_time}
  BY <1>1 DEF TrackerInv, ActiveInv
<1>5. /\ time \in Nat /\ next \in Nat /\ next_reporting_time \in Nat /\ last_state_change_time \in Nat
      /\ reporting_interval \in Nat /\ reporting_interval > 0
  BY <1>3, <1>4, TimeTypes DEF Types
<1>6. CallInv'
  <2>1. ASSUME NEW S, Ahead(S) PROVE Ahead(S)'
    BY <1>1, <1>3, <1>5, <2>1, TimeTypes DEF Ahead
  <2>2. ASSUME NEW a \in Times, a >= time, UpTo(a) PROVE CallInv'
    <3>1. next <= a
      <4>1. Head(todo).now = a
        BY <2>2, OneAdvance DEF UpTo
      <4> QED
        BY <1>3, <4>1
    <3>2. UpTo(a)'
      BY <1>1, <2>1, <2>2 DEF UpTo
    <3> QED
      BY <1>1, <3>1, <3>2 DEF CallInv
  <2>3. ASSUME NEW b \in Times, b >= time, Task(b) PROVE CallInv'
    <3>1. next <= b
      <4>1. Head(todo).now = b
        BY <2>3, OneAdvance DEF Task
      <4> QED
        BY <1>3, <4>1
    <3>2. PICK now \in Nat : now = time /\ Ahead(now .. b - 1) /\ todo' = <<To(b, TRUE)>>
      BY <1>1, <1>5, <2>3 DEF Task
    <3>3. Ahead(now .. b - 1)'
      BY <2>1, <3>2
    <3>4. \A i \in Times : i >= time' => (i \in now .. b - 1 <=> i \in time' .. b - 1)
      BY <1>1, <1>3, <1>5, <3>2, TimeTypes
    <3>5. Ahead(time .. b - 1)'
      BY <3>3, <3>4 DEF Ahead
    <3>6. Task(b)'
      BY <3>2, <3>5 DEF Task
    <3> QED
      BY <1>1, <3>1, <3>6 DEF CallInv
  <2>4. ASSUME NEW a \in Times, NEW b \in Times, time <= a, a <= b, TaskFrom(a, b)
        PROVE  CallInv'
    <3>1. next <= a
      BY <1>3, <2>4, TwoAdvances DEF TaskFrom
    <3>2. TaskFrom(a, b)'
      BY <1>1, <2>1, <2>4 DEF TaskFrom
    <3> QED
      BY <1>1, <2>4, <3>1, <3>2 DEF CallInv
  <2> QED
    BY <1>1, <1>4, <2>2, <2>3, <2>4 DEF CallInv, Nothing
<1>7. CASE next = next_reporting_time
  <2>1. /\ run_time' = 0 /\ report'.at = next
        /\ next_reporting_time' = next + reporting_interval
    BY <1>2, <1>7
  <2>2. next_reporting_time' - reporting_interval = next /\ next < next_reporting_time'
    BY <1>5, <2>1
  <2>3. Window' = {}
    BY <1>1, <1>5, <2>2 DEF Window
  <2>4. ActiveInv'
    <3>1. Cardinality(busy' \cap Window') = 0
      BY <2>3, FS_EmptySet
    <3>2. next <= Later(time', last_state_change_time')
      BY <1>1, <1>5 DEF Later
    <3> QED
      BY <1>1, <2>1, <2>2, <3>1, <3>2 DEF ActiveInv
  <2>5. Types'
    BY <1>1, <1>3, <1>4, <2>1, TimeTypes DEF Types
  <2> QED
    BY <1>6, <2>4, <2>5 DEF TrackerInv
<1>8. CASE next # next_reporting_time
  <2>1. run_time' = run /\ UNCHANGED <<report, next_reporting_time>>
    BY <1>2, <1>8
  <2>2. next < next_reporting_time
    BY <1>3, <1>5, <1>8
  <2>3. Window' = next_reporting_time - reporting_interval .. next - 1
    BY <1>1, <2>1 DEF Window
  <2>4. ActiveInv'
    <3>1. run_time' = Cardinality(busy' \cap Window')
      BY <1>1, <1>3, <2>1, <2>3
    <3>2. next_reporting_time - reporting_interval <= Later(time', last_state_change_time')
      BY <1>1, <1>3, <1>4, <1>5 DEF Later
    <3> QED
      BY <1>1, <1>4, <2>1, <2>2, <3>1, <3>2 DEF ActiveInv
  <2>5. Types'
    <3>1. run \in Nat
      <4>1. next_reporting_time - reporting_interval \in Int /\ next - 1 \in Int
        BY <1>5
      <4>2. IsFiniteSet(next_reporting_time - reporting_interval .. next - 1)
        BY <4>1, FS_Interval
      <4> QED
        BY <1>3, <4>2, FS_Intersection, FS_CardinalityType
    <3> QED
      BY <1>1, <1>3, <1>4, <2>1, <3>1 DEF Types
  <2> QED
    BY <1>6, <2>4, <2>5 DEF TrackerInv
<1> QED
  BY <1>7, <1>8
\* The end of the loop, and an Advance of a paused tracker: the calls left are
\* those behind the first, and the time is where the first one asked for.
LEMMA CallDone ==
    ASSUME TrackerInv, todo # <<>>, todo' = Tail(todo), time' = Head(todo).now,
           UNCHANGED <<thread_state, busy>>,
           thread_state = "active" => time' = time
    PROVE  CallInv'
<1>0. Times \subseteq Nat /\ time \in Times
  BY TimeTypes DEF TrackerInv, Types
<1>1. ASSUME NEW a \in Times, UpTo(a) PROVE CallInv'
  <2>1. todo' = <<>>
    BY <1>1, OneAdvance DEF UpTo
  <2> QED
    BY <1>1, <2>1 DEF UpTo, Ahead, CallInv, Nothing
<1>2. ASSUME NEW b \in Times, Task(b) PROVE CallInv'
  <2>1. todo' = <<>> /\ time' = b
    BY <1>2, OneAdvance DEF Task
  <2>2. \A i \in Times : i >= b => i \notin b .. b - 1
    BY <1>0
  <2>3. thread_state = "active" => \A i \in Times : i >= b => i \notin busy
    BY <1>0, <1>2, <2>1, <2>2 DEF Task, Ahead
  <2>4. Ahead({})'
    BY <2>1, <2>3 DEF Ahead
  <2> QED
    BY <2>1, <2>4 DEF CallInv, Nothing
<1>3. ASSUME NEW a \in Times, NEW b \in Times, a <= b, TaskFrom(a, b) PROVE CallInv'
  <2>0. todo = <<To(a, FALSE), To(b, TRUE)>>
    BY <1>3 DEF TaskFrom
  <2>1. todo' = <<To(b, TRUE)>> /\ time' = a
    <3>1. Head(todo) = To(a, FALSE) /\ Tail(todo) = <<To(b, TRUE)>>
      BY <2>0, TwoCalls, Zenon
    <3>2. Head(todo).now = a
      BY <3>1, ToFields
    <3> QED
      BY <3>1, <3>2, Zenon
  <2>2. Ahead(a .. b - 1)'
    BY <1>3 DEF TaskFrom, Ahead
  <2>3. Task(b)'
    BY <2>1, <2>2 DEF Task, Ahead
  <2> QED
    BY <1>3, <2>1, <2>3 DEF CallInv
<1> QED
  BY <1>1, <1>2, <1>3 DEF TrackerInv, CallInv, Nothing

LEMMA AdvanceEnds ==
    ASSUME TrackerInv, AdvancePaused \/ LoopDone
    PROVE  TrackerInv'
<1>0. Types /\ CallInv /\ ActiveInv /\ todo # <<>>
  BY DEF TrackerInv, AdvancePaused, LoopDone
<1>1. Head(todo).now \in Times /\ Head(todo).now >= time /\ time \in Nat /\ Head(todo).now \in Nat
  BY <1>0, HeadOfTodo, TimeTypes DEF Types
<1>2. CASE AdvancePaused
  <2>1. CallInv'
    BY <1>0, <1>2, CallDone DEF AdvancePaused
  <2>2. Types' /\ ActiveInv'
    BY <1>0, <1>1, <1>2 DEF AdvancePaused, Types, ActiveInv
  <2> QED
    BY <2>1, <2>2 DEF TrackerInv
<1>3. CASE LoopDone
  <2>1. time = Head(todo).now
    BY <1>1, <1>3 DEF LoopDone
  <2>2. CallInv'
    BY <1>0, <1>3, <2>1, CallDone DEF LoopDone, trackerMembers
  <2>3. Types' /\ ActiveInv'
    BY <1>0, <1>3 DEF LoopDone, trackerMembers, Types, ActiveInv, Window
  <2> QED
    BY <2>2, <2>3 DEF TrackerInv
<1> QED
  BY <1>2, <1>3

\* A reset empties the window, wherever it is put.
LEMMA ResetKeeps ==
    ASSUME TrackerInv, NEW now \in Times, now >= time, todo = <<>>, ResetTo(now),
           UNCHANGED <<time, todo, report>>,
           thread_state' \in {"active", "paused"}, then' \in {"active", "paused", "same"}
    PROVE  TrackerInv'
<1>0. /\ now \in Nat /\ time \in Nat /\ reporting_interval \in Nat /\ reporting_interval > 0
      /\ Types
  BY TimeTypes DEF TrackerInv, Types
<1>1. /\ last_state_change_time' = now /\ next_reporting_time' = now + reporting_interval
      /\ run_time' = 0 /\ busy' = {} /\ time' = time /\ todo' = <<>> /\ report' = report
  BY DEF ResetTo, NextAfterReset
<1>2. Types'
  BY <1>0, <1>1, TimeTypes DEF Types
<1>3. CallInv'
  BY <1>1 DEF CallInv, Nothing, Ahead
<1>4. ActiveInv'
  <2>1. next_reporting_time' - reporting_interval = now /\ time' < next_reporting_time'
    BY <1>0, <1>1
  <2>2. now <= Later(time', last_state_change_time')
    BY <1>0, <1>1 DEF Later
  <2>3. Cardinality(busy' \cap Window') = 0
    BY <1>1, FS_EmptySet
  <2> QED
    BY <1>1, <2>1, <2>2, <2>3 DEF ActiveInv
<1> QED
  BY <1>2, <1>3, <1>4 DEF TrackerInv

LEMMA TrackerInvHolds == TrackerSpec => []TrackerInv
<1>1. TrackerInit => TrackerInv
  <2> SUFFICES ASSUME TrackerInit PROVE TrackerInv
    OBVIOUS
  <2>1. 0 \in Times /\ reporting_interval \in 0 .. MaxTime + reporting_interval
    BY TrackerAssumption DEF Times
  <2> QED
    BY <2>1 DEF TrackerInit, TrackerInv, Types, CallInv, ActiveInv, Nothing, Ahead
<1>2. TrackerInv /\ [TrackerNext]_trackerVars => TrackerInv'
  <2> SUFFICES ASSUME TrackerInv, [TrackerNext]_trackerVars PROVE TrackerInv'
    OBVIOUS
  <2>1. ASSUME NEW now \in Times, Pause(now) \/ Resume(now) \/ RecordIdle(now)
        PROVE  TrackerInv'
    BY <2>1, CallKeeps DEF Pause, Resume, RecordIdle
  <2>2. ASSUME NEW now \in Times, Reset(now) PROVE TrackerInv'
    <3>1. /\ now >= time /\ todo = <<>> /\ ResetTo(now)
          /\ UNCHANGED <<time, todo, report, thread_state, then>>
      BY <2>2 DEF Reset
    <3> QED
      BY <3>1, ResetKeeps DEF TrackerInv, Types
  <2>3. ASSUME NEW start \in Times, NEW end \in Times, RecordTaskTime(start, end)
        PROVE  TrackerInv'
    BY <2>3, RecordTaskTimeKeeps
  <2>4. CASE AdvancePaused \/ LoopDone
    BY <2>4, AdvanceEnds
  <2>5. CASE Iterate
    BY <2>5, IterateKeeps
  <2>6. CASE SetStateAndReset
    <3>1. time \in Times /\ time >= time /\ then \in {"active", "paused"}
      BY <2>6, TimeTypes DEF SetStateAndReset, TrackerInv, Types
    <3>2. /\ todo = <<>> /\ ResetTo(time) /\ UNCHANGED <<time, todo, report>>
          /\ thread_state' \in {"active", "paused"} /\ then' = "same"
      BY <2>6, <3>1 DEF SetStateAndReset
    <3>3. PICK now \in Times : now = time
      BY <3>1
    <3> QED
      BY <3>1, <3>2, <3>3, ResetKeeps
  <2>7. CASE UNCHANGED trackerVars
    BY <2>7 DEF trackerVars, trackerMembers, TrackerInv, Types, CallInv, ActiveInv, Nothing, UpTo, Task,
                TaskFrom, Ahead, Window
  <2> QED
    BY <2>1, <2>2, <2>3, <2>4, <2>5, <2>6, <2>7 DEF TrackerNext
<1> QED
  BY <1>1, <1>2, PTL DEF TrackerSpec

-----------------------------------------------------------------------------
(* What follows. *)

\* While the tracker is active its run time is exactly the task time recorded in
\* its window, for every interval and however tasks, pauses and resets overlap
\* it (Advance, RecordTaskTime, Reset).
THEOREM RunTimeIsExact == TrackerSpec => []RunTimeExact
<1>1. TrackerInv => RunTimeExact
  BY DEF TrackerInv, ActiveInv, RunTimeExact
<1> QED
  BY <1>1, TrackerInvHolds, PTL

\* The DCHECKs of Advance and of Intersection never fail, and the loop of Advance
\* always finds its next report ahead.
THEOREM AdvanceNeverFails == TrackerSpec => []AdvanceChecksHold
<1>1. TrackerInv => AdvanceChecksHold
  <2> SUFFICES ASSUME TrackerInv PROVE AdvanceChecksHold
    OBVIOUS
  <2>1. todo # <<>> => time <= Head(todo).now
    <3>1. ASSUME todo # <<>> PROVE time <= Head(todo).now
      <4>1. Head(todo).now \in Nat /\ time \in Nat /\ Head(todo).now >= time
        BY <3>1, HeadOfTodo, TimeTypes DEF TrackerInv, Types
      <4> QED
        BY <4>1
    <3> QED
      BY <3>1
  <2> QED
    BY <2>1 DEF TrackerInv, ActiveInv, AdvanceChecksHold
<1> QED
  BY <1>1, TrackerInvHolds, PTL

\* The types, the run time being at most an interval.
THEOREM TrackerTypeCorrect == TrackerSpec => []TrackerTypeOK
<1>1. TrackerInv => TrackerTypeOK
  <2> SUFFICES ASSUME TrackerInv PROVE TrackerTypeOK
    OBVIOUS
  <2>1. reporting_interval \in Nat /\ reporting_interval > 0 /\ Types
    BY TimeTypes DEF TrackerInv
  <2>2. CASE thread_state = "paused"
    BY <2>1, <2>2 DEF Types, TrackerTypeOK
  <2>3. CASE thread_state = "active"
    <3>1. /\ run_time = Cardinality(busy \cap Window) /\ time < next_reporting_time
          /\ time \in Nat /\ next_reporting_time \in Nat /\ run_time \in Nat
      BY <2>1, <2>3, TimeTypes DEF TrackerInv, ActiveInv, Types
    <3>2. next_reporting_time - reporting_interval \in Int /\ time - 1 \in Int
      BY <2>1, <3>1
    <3>3. /\ IsFiniteSet(Window)
          /\ Cardinality(Window) =
               IF next_reporting_time - reporting_interval > time - 1 THEN 0
               ELSE time - 1 - (next_reporting_time - reporting_interval) + 1
      BY <3>2, FS_Interval, Zenon DEF Window
    <3>4. run_time <= Cardinality(Window)
      BY <3>1, <3>3, FS_Intersection
    <3>5. run_time <= reporting_interval
      BY <2>1, <3>1, <3>3, <3>4
    <3> QED
      BY <2>1, <3>1, <3>5 DEF Types, TrackerTypeOK
  <2> QED
    BY <2>1, <2>2, <2>3 DEF Types
<1> QED
  BY <1>1, TrackerInvHolds, PTL

\* No interval is skipped or reported twice.
THEOREM IntervalsReported == TrackerSpec => ReportsEveryInterval
<1> DEFINE Promise == report' # report =>
                        report'.at - reporting_interval \in {report.at, last_state_change_time}
<1>1. TrackerInv /\ [TrackerNext]_trackerVars => [Promise]_trackerVars
  <2> SUFFICES ASSUME TrackerInv, [TrackerNext]_trackerVars, report' # report
               PROVE  report'.at - reporting_interval \in {report.at, last_state_change_time}
    OBVIOUS
  <2>1. Iterate
    BY DEF TrackerNext, Pause, Resume, RecordIdle, RecordTaskTime, Reset, Call, AdvancePaused,
           LoopDone, SetStateAndReset, trackerVars
  <2>2. report'.at = next_reporting_time /\ thread_state = "active"
    BY <2>1 DEF Iterate
  <2> QED
    BY <2>2 DEF TrackerInv, ActiveInv
<1> QED
  BY <1>1, TrackerInvHolds, PTL DEF TrackerSpec, ReportsEveryInterval

\* With the service off, the load reported is the average of its interval.
THEOREM ReportsAverage ==
    ASSUME ~deviceServiceFlag PROVE TrackerSpec => ReportIsWindowAverage
<1> DEFINE Promise == report' # report =>
              report'.load = Load(Cardinality(busy \cap (report'.at - reporting_interval .. report'.at - 1)))
<1>1. TrackerInv /\ [TrackerNext]_trackerVars => [Promise]_trackerVars
  <2> SUFFICES ASSUME TrackerInv, [TrackerNext]_trackerVars, report' # report
               PROVE  Promise
    OBVIOUS
  <2>1. Iterate
    BY DEF TrackerNext, Pause, Resume, RecordIdle, RecordTaskTime, Reset, Call, AdvancePaused,
           LoopDone, SetStateAndReset, trackerVars
  <2> DEFINE next == NextTime(Head(todo).now)
             run  == RunTimeAfter(next, Head(todo).task)
  <2>2. /\ todo # <<>> /\ thread_state = "active" /\ time < Head(todo).now
        /\ next = next_reporting_time /\ report' = [at |-> next, load |-> Load(run)]
    BY <2>1 DEF Iterate, Reported
  <2>3. run = Cardinality(busy \cap (next_reporting_time - reporting_interval .. next - 1))
    BY <2>2, WindowGrows
  <2> QED
    BY <2>2, <2>3
<1> QED
  BY <1>1, TrackerInvHolds, PTL DEF TrackerSpec, ReportIsWindowAverage
=============================================================================
