-------------------- MODULE DeviceServiceProviderProofs --------------------
(***************************************************************************)
(* What TLC checks of DeviceServiceProvider with two renderers, for any    *)
(* number of them, any window length and any garbage in last_capacity_.    *)
(***************************************************************************)
EXTENDS DeviceServiceProvider, TLAPS

\* Without the wrap of the tick count (the finding of the tick_wrap run).
TicksNeverWrap == \A t \in Times : t < TickModulus

(* The three outcomes of a hint, as relations of the state and its history. *)
Rejected(t) ==
    /\ InPast(t % TickModulus)
    /\ rejected' = t /\ call' = NoCall
    /\ UNCHANGED <<binding, hints, machine, window, decided, lastReal, sawUnder>>

Accumulated(capacity) ==
    /\ last_capacity' = Peak(capacity) /\ window' = window \cup {capacity}
    /\ rejected' = -1 /\ call' = NoCall
    /\ UNCHANGED <<binding, machine, last_update, isEco, decided, lastReal, sawUnder>>

Closed(t, p, capacity) ==
    /\ (t % TickModulus) - last_update > UpdateInterval
    /\ call' = Actuation(Peak(capacity), p) /\ call' \in Call
    /\ isEco' = EcoAfter(call') /\ throttled' = ThrottledAfter(call')
    /\ last_update' = t % TickModulus /\ last_capacity' = kCapacityIdle
    /\ window' = {} /\ decided' = window \cup {capacity}
    /\ lastReal' = t /\ rejected' = -1
    /\ sawUnder' = (sawUnder \/ Peak(capacity) = kCapacityUnder)
    /\ UNCHANGED <<binding, running>>

LEMMA TickType ==
    ASSUME NEW t \in Times
    PROVE  t \in Nat /\ t % TickModulus \in 0 .. TickModulus - 1
<1>1. t \in Nat /\ TickModulus \in Nat \ {0}
  BY ProviderAssumption
<1> QED
  BY <1>1

\* Every hint has one of the three outcomes.
LEMMA HintOutcomes ==
    ASSUME TypeOK, NEW r \in Receivers, NEW t \in Times, NEW p \in Processes,
           NEW capacity \in Capacity, Hinted(r, t, p, capacity)
    PROVE  Rejected(t) \/ Accumulated(capacity) \/ Closed(t, p, capacity)
<1> DEFINE tick == t % TickModulus
<1>1. tick \in Nat /\ last_update \in Nat /\ UpdateInterval \in Nat
  <2>1. last_update \in 0 .. TickModulus - 1 /\ TickModulus \in Nat /\ UpdateInterval \in Nat
    BY ProviderAssumption DEF TypeOK
  <2> QED
    BY <2>1, TickType
<1>2. PICK actuation \in Call : /\ SubmitTaskCapacityHint(r, tick, p, capacity, actuation)
                                /\ call' = actuation
                                /\ RememberHint(t, capacity)
  BY DEF Hinted
<1> HIDE DEF tick
<1>3. CASE Reject(tick, actuation)
  <2>1. InPast(tick) /\ actuation = NoCall /\ UNCHANGED <<hints, throttled, binding, running>>
    BY <1>2, <1>3 DEF Reject, SubmitTaskCapacityHint
  <2>2. rejected' = t /\ UNCHANGED <<window, decided, lastReal, sawUnder>>
    BY <1>2, <2>1 DEF RememberHint, tick
  <2> QED
    BY <1>2, <2>1, <2>2 DEF Rejected, tick, machine
<1>4. CASE Accumulate(tick, capacity, actuation)
  <2>1. /\ ~InPast(tick) /\ actuation = NoCall /\ last_capacity' = Peak(capacity)
        /\ UNCHANGED <<last_update, isEco, throttled, binding, running>>
    BY <1>2, <1>4 DEF Accumulate, SubmitTaskCapacityHint
  <2>2. /\ window' = window \cup {capacity} /\ rejected' = -1
        /\ UNCHANGED <<decided, lastReal, sawUnder>>
    BY <1>2, <2>1 DEF RememberHint, tick
  <2> QED
    BY <1>2, <2>1, <2>2 DEF Accumulated, machine
<1>5. CASE Close(tick, p, capacity, actuation)
  <2>1. /\ ~InPast(tick) /\ tick - last_update > UpdateInterval
        /\ actuation = Actuation(Peak(capacity), p)
        /\ isEco' = EcoAfter(actuation) /\ throttled' = ThrottledAfter(actuation)
        /\ last_update' = tick /\ last_capacity' = kCapacityIdle
        /\ UNCHANGED <<binding, running>>
    BY <1>2, <1>5 DEF Close, Closes, CapacityAfterClose, SubmitTaskCapacityHint
  <2>2. last_update' # last_update
    BY <1>1, <2>1
  <2>3. /\ window' = {} /\ decided' = window \cup {capacity}
        /\ lastReal' = t /\ rejected' = -1
        /\ sawUnder' = (sawUnder \/ Peak(capacity) = kCapacityUnder)
    BY <1>2, <2>1, <2>2 DEF RememberHint, tick
  <2> QED
    BY <1>2, <2>1, <2>3 DEF Closed, tick
<1> QED
  BY <1>2, <1>3, <1>4, <1>5 DEF SubmitTaskCapacityHint

-----------------------------------------------------------------------------
(* Types. *)
LEMMA PeakType ==
    ASSUME TypeOK, NEW capacity \in Capacity
    PROVE  Peak(capacity) \in Capacity \cup GarbageCapacities
BY DEF TypeOK, Peak

LEMMA ThrottledType ==
    ASSUME TypeOK, NEW a \in Call
    PROVE  ThrottledAfter(a) \subseteq Processes /\ EcoAfter(a) \in BOOLEAN
<1>1. running \subseteq Processes /\ throttled \subseteq Processes
  BY DEF TypeOK
<1>2. ThrottledAfter(a) \in {throttled \cup ({a.pid} \cap running), throttled \ {a.pid}, throttled}
  BY DEF ThrottledAfter
<1> QED
  BY <1>1, <1>2 DEF EcoAfter

\* The state keeps its types for any number of receivers, clients and processes
\* and whatever last_capacity_ is born with.
THEOREM ProviderTypeCorrect == Spec => []TypeOK
<1>0. NoCall \in Call
  BY DEF Call
<1>1. Init => TypeOK
  <2> SUFFICES ASSUME Init PROVE TypeOK
    OBVIOUS
  <2>1. 0 \in 0 .. TickModulus - 1
    BY ProviderAssumption
  <2>2. last_capacity \in Capacity
    BY DEF Init, Capacity, kCapacityIdle, kCapacityOver
  <2> QED
    BY <1>0, <2>1, <2>2 DEF Init, TypeOK
<1>2. TypeOK /\ [Next]_vars => TypeOK'
  <2> SUFFICES ASSUME TypeOK, [Next]_vars PROVE TypeOK'
    OBVIOUS
  <2>0. 0 \in 0 .. TickModulus - 1
    BY ProviderAssumption
  <2>1. ASSUME NEW r \in Receivers, NEW t \in Times, NEW p \in Processes,
               NEW capacity \in Capacity, Hinted(r, t, p, capacity), service' = service
        PROVE  TypeOK'
    <3>1. CASE Rejected(t)
      BY <1>0, <2>1, <3>1 DEF Rejected, TypeOK, binding, hints, machine
    <3>2. CASE Accumulated(capacity)
      BY <1>0, <2>1, <3>2, PeakType DEF Accumulated, TypeOK, binding, machine
    <3>3. CASE Closed(t, p, capacity)
      <4>1. throttled' \subseteq Processes /\ isEco' \in BOOLEAN
        BY <3>3, ThrottledType DEF Closed
      <4>2. last_update' \in 0 .. TickModulus - 1 /\ last_capacity' \in Capacity
        BY <3>3, TickType DEF Closed, Capacity, kCapacityIdle, kCapacityOver
      <4>3. sawUnder' \in BOOLEAN
        BY <3>3 DEF Closed
      <4>4. /\ call' \in Call /\ window' \subseteq Capacity /\ decided' \subseteq Capacity
            /\ lastReal' \in Times /\ rejected' = -1
            /\ UNCHANGED <<exists, receivers, clients, listening, running>>
        BY <3>3 DEF Closed, TypeOK, binding
      <4> QED
        BY <2>1, <4>1, <4>2, <4>3, <4>4 DEF TypeOK
    <3> QED
      BY <2>1, <3>1, <3>2, <3>3, HintOutcomes
  <2>2. ASSUME Other, service' = service PROVE TypeOK'
    <3>1. /\ call' = NoCall /\ rejected' = -1
          /\ UNCHANGED <<service, window, decided, lastReal, sawUnder>>
      BY <2>2 DEF Other
    <3>2. ASSUME NEW r \in Receivers, Bind(r) PROVE TypeOK'
      BY <1>0, <2>0, <3>1, <3>2 DEF Bind, CreateOnDemand, TypeOK, hints, machine
    <3>3. ASSUME NEW r \in Receivers, OnReceiverConnectionError(r) PROVE TypeOK'
      BY <1>0, <3>1, <3>3 DEF OnReceiverConnectionError, TypeOK, hints, machine
    <3>4. ASSUME NEW r \in Receivers, NEW c \in Clients, AddListenerAndGetCurrentService(r, c)
          PROVE  TypeOK'
      BY <1>0, <3>1, <3>4 DEF AddListenerAndGetCurrentService, TypeOK, hints, machine
    <3>5. ASSUME NEW c \in Clients, ClientDisconnected(c) PROVE TypeOK'
      BY <1>0, <3>1, <3>5 DEF ClientDisconnected, TypeOK, hints, machine
    <3>6. ASSUME NEW p \in Processes, ProcessExits(p) PROVE TypeOK'
      BY <1>0, <3>1, <3>6 DEF ProcessExits, TypeOK, hints, binding
    <3>7. ASSUME NEW p \in Processes, ProcessStarts(p) PROVE TypeOK'
      BY <1>0, <3>1, <3>7 DEF ProcessStarts, TypeOK, hints, binding
    <3> QED
      BY <2>2, <3>2, <3>3, <3>4, <3>5, <3>6, <3>7 DEF Other
  <2>3. CASE UNCHANGED vars
    BY <2>3 DEF vars, binding, hints, machine, history, TypeOK
  <2> QED
    BY <2>1, <2>2, <2>3 DEF Next
<1> QED
  BY <1>1, <1>2, PTL DEF Spec
-----------------------------------------------------------------------------
(* The set of receivers and the file of the platform provider. *)

\* A step of the provider that touches neither the receivers nor the file, or
\* one of the two that do.
LEMMA BindingSteps ==
    ASSUME TypeOK, [Next]_vars
    PROVE  \/ UNCHANGED <<exists, receivers, listening>>
           \/ \E r \in Receivers : Bind(r) \/ OnReceiverConnectionError(r)
<1>1. ASSUME NEW r \in Receivers, NEW t \in Times, NEW p \in Processes,
             NEW capacity \in Capacity, Hinted(r, t, p, capacity)
      PROVE  UNCHANGED <<exists, receivers, listening>>
  BY <1>1, HintOutcomes DEF Rejected, Accumulated, Closed, binding
<1> QED
  BY <1>1 DEF Next, Other, vars, binding, AddListenerAndGetCurrentService,
              ClientDisconnected, ProcessExits, ProcessStarts

\* The file is open exactly while a receiver is bound, whatever order renderers
\* come and go in (Bind and the disconnect handler).
THEOREM ListensWhileBound == Spec => []ListeningMatchesReceivers
<1>1. Init => ListeningMatchesReceivers
  BY DEF Init, ListeningMatchesReceivers
<1>2. TypeOK /\ ListeningMatchesReceivers /\ [Next]_vars => ListeningMatchesReceivers'
  <2> SUFFICES ASSUME TypeOK, ListeningMatchesReceivers, [Next]_vars
               PROVE  ListeningMatchesReceivers'
    OBVIOUS
  <2>1. listening \in BOOLEAN
    BY DEF TypeOK
  <2>2. ASSUME NEW r \in Receivers, Bind(r) PROVE ListeningMatchesReceivers'
    BY <2>2 DEF Bind, ListeningMatchesReceivers
  <2>3. ASSUME NEW r \in Receivers, OnReceiverConnectionError(r)
        PROVE  ListeningMatchesReceivers'
    BY <2>3 DEF OnReceiverConnectionError, StopsListening, ListeningMatchesReceivers
  <2> QED
    BY <2>2, <2>3, BindingSteps DEF ListeningMatchesReceivers
<1> QED
  BY <1>1, <1>2, ProviderTypeCorrect, PTL DEF Spec

-----------------------------------------------------------------------------
(* The window and its peak. *)

\* Before it is created the provider has decided nothing: the garbage of its
\* constructor never replaces the peak of a window.
NothingBeforeCreation ==
    ~exists => receivers = {} /\ decided = {} /\ lastReal = 0

\* last_capacity_ is an element of the window and an upper bound of it.
PeakKnown ==
    decided # {} =>
        /\ last_capacity \in window \cup {kCapacityIdle}
        /\ \A c \in window \cup {kCapacityIdle} : last_capacity >= c

PeakInv == TypeOK /\ NothingBeforeCreation /\ PeakKnown

LEMMA MaxIsUpperBound ==
    ASSUME NEW S \in SUBSET Int, NEW m \in S, \A y \in S : m >= y
    PROVE  Max(S) = m
<1>1. \E x \in S : \A y \in S : x >= y
  OBVIOUS
<1>2. Max(S) \in S /\ \A y \in S : Max(S) >= y
  BY <1>1 DEF Max
<1>3. m \in Int /\ Max(S) \in Int
  BY <1>2
<1> HIDE DEF Max
<1> QED
  BY <1>2, <1>3

\* A step that is no hint creates the provider or leaves the window alone.
Creates == ~exists /\ exists' /\ last_update' = 0 /\ ~isEco'
Keeps   == UNCHANGED <<exists, hints>> /\ (~exists /\ receivers = {} => receivers' = {})

LEMMA OtherSteps ==
    ASSUME TypeOK, Other
    PROVE  /\ rejected' = -1 /\ call' = NoCall
           /\ UNCHANGED <<window, decided, lastReal, sawUnder>>
           /\ throttled' \subseteq throttled
           /\ Creates \/ Keeps
<1>1. ASSUME NEW r \in Receivers, Bind(r)
      PROVE  throttled' = throttled /\ (Creates \/ Keeps)
  <2>1. CASE exists
    BY <1>1, <2>1 DEF Bind, CreateOnDemand, machine, Keeps
  <2>2. CASE ~exists
    BY <1>1, <2>2 DEF Bind, CreateOnDemand, machine, Creates
  <2> QED
    BY <2>1, <2>2
<1>2. ASSUME NEW r \in Receivers, OnReceiverConnectionError(r)
      PROVE  throttled' = throttled /\ Keeps
  BY <1>2 DEF OnReceiverConnectionError, machine, Keeps
<1>3. ASSUME NEW r \in Receivers, NEW c \in Clients, AddListenerAndGetCurrentService(r, c)
      PROVE  throttled' = throttled /\ Keeps
  BY <1>3 DEF AddListenerAndGetCurrentService, machine, Keeps
<1>4. ASSUME NEW c \in Clients, ClientDisconnected(c)
      PROVE  throttled' = throttled /\ Keeps
  BY <1>4 DEF ClientDisconnected, machine, Keeps
<1>5. ASSUME NEW p \in Processes, ProcessExits(p) \/ ProcessStarts(p)
      PROVE  throttled' \subseteq throttled /\ Keeps
  BY <1>5 DEF ProcessExits, ProcessStarts, binding, Keeps
<1>6. throttled' \subseteq throttled /\ (Creates \/ Keeps)
  BY <1>1, <1>2, <1>3, <1>4, <1>5 DEF Other
<1> QED
  BY <1>6 DEF Other

LEMMA PeakInvHolds == Spec => []PeakInv
<1>1. Init => NothingBeforeCreation /\ PeakKnown
  BY DEF Init, NothingBeforeCreation, PeakKnown
<1>2. PeakInv /\ [Next]_vars => (NothingBeforeCreation /\ PeakKnown)'
  <2> SUFFICES ASSUME PeakInv, [Next]_vars
               PROVE  (NothingBeforeCreation /\ PeakKnown)'
    OBVIOUS
  <2>0. TypeOK /\ NothingBeforeCreation /\ PeakKnown
    BY DEF PeakInv
  <2>1. ASSUME NEW r \in Receivers, NEW t \in Times, NEW p \in Processes,
               NEW capacity \in Capacity, Hinted(r, t, p, capacity)
        PROVE  (NothingBeforeCreation /\ PeakKnown)'
    <3>0. exists
      <4>1. r \in receivers
        BY <2>1 DEF Hinted, SubmitTaskCapacityHint
      <4> QED
        BY <2>0, <4>1 DEF NothingBeforeCreation
    <3>1. CASE Rejected(t)
      BY <2>0, <3>0, <3>1 DEF Rejected, binding, hints, NothingBeforeCreation, PeakKnown
    <3>2. CASE Accumulated(capacity)
      <4>1. exists' /\ NothingBeforeCreation'
        BY <3>0, <3>2 DEF Accumulated, binding, NothingBeforeCreation
      <4>2. CASE decided # {}
        <5>1. last_capacity \in Nat /\ capacity \in Nat /\ window \subseteq Nat
          BY <2>0, <4>2 DEF TypeOK, Capacity, PeakKnown, kCapacityIdle, kCapacityOver
        <5>2. Peak(capacity) \in window \cup {capacity, kCapacityIdle}
          BY <2>0, <4>2 DEF Peak, PeakKnown
        <5>3. \A c \in window \cup {capacity, kCapacityIdle} : Peak(capacity) >= c
          BY <2>0, <4>2, <5>1 DEF Peak, PeakKnown, kCapacityIdle
        <5> QED
          BY <3>2, <4>1, <5>2, <5>3 DEF Accumulated, PeakKnown
      <4> QED
        BY <3>2, <4>1, <4>2 DEF Accumulated, PeakKnown
    <3>3. CASE Closed(t, p, capacity)
      BY <3>0, <3>3 DEF Closed, binding, NothingBeforeCreation, PeakKnown, kCapacityIdle
    <3> QED
      BY <2>0, <2>1, <3>1, <3>2, <3>3, HintOutcomes
  <2>2. ASSUME Other PROVE (NothingBeforeCreation /\ PeakKnown)'
    BY <2>0, <2>2, OtherSteps DEF Creates, Keeps, NothingBeforeCreation, PeakKnown, hints
  <2>3. CASE UNCHANGED vars
    BY <2>0, <2>3 DEF vars, binding, hints, history, NothingBeforeCreation, PeakKnown
  <2> QED
    BY <2>1, <2>2, <2>3 DEF Next
<1> QED
  BY <1>1, <1>2, ProviderTypeCorrect, PTL DEF Spec, PeakInv

\* Once a window was closed, last_capacity_ is the maximum of the hints accepted
\* since, for any number of renderers and any order of their hints.
THEOREM PeakIsMaximum == Spec => []PeakOfWindow
<1>1. PeakInv => PeakOfWindow
  <2> SUFFICES ASSUME PeakInv, decided # {}
               PROVE  last_capacity = Max(window \cup {kCapacityIdle})
    BY DEF PeakOfWindow
  <2>1. window \cup {kCapacityIdle} \in SUBSET Int
    BY DEF PeakInv, TypeOK, Capacity, kCapacityIdle, kCapacityOver
  <2> QED
    BY <2>1, MaxIsUpperBound DEF PeakInv, PeakKnown
<1> QED
  BY <1>1, PeakInvHolds, PTL
\* A window with an overloaded thread ends in a release and never in a
\* throttling, whichever thread's hint closes it; one that was only met ends in
\* nothing (SubmitTaskCapacityHint; all windows but the provider's first).
THEOREM OverloadReleases == Spec => OverloadNeverLost
<1> DEFINE Promise ==
      lastReal' # lastReal /\ decided # {} =>
        /\ kCapacityOver \in decided' =>
              /\ service = "frequency" => call'.op = "GearUp"
              /\ service = "qos" => ~isEco' /\ call'.op # "setEcoQos"
        /\ kCapacityOver \notin decided' => call'.op \notin {"GearUp", "setHighQos"}
        /\ kCapacityOver \notin decided' /\ kCapacityMeet \in decided' => call' = NoCall
<1>1. ASSUME PeakInv, [Next]_vars PROVE Promise
  <2> SUFFICES ASSUME lastReal' # lastReal, decided # {} PROVE Promise
    OBVIOUS
  <2>1. ~Other /\ ~UNCHANGED vars
    BY <1>1, OtherSteps DEF PeakInv, vars, history
  <2>2. PICK r \in Receivers, t \in Times, p \in Processes, capacity \in Capacity :
            Hinted(r, t, p, capacity)
    BY <1>1, <2>1 DEF Next
  <2>3. Closed(t, p, capacity)
    BY <1>1, <2>2, HintOutcomes DEF PeakInv, Rejected, Accumulated
  <2> DEFINE peak == Peak(capacity)
  <2>4. /\ last_capacity \in 0 .. 3 /\ capacity \in 0 .. 3 /\ window \subseteq 0 .. 3
        /\ last_capacity \in window \cup {0}
        /\ \A c \in window : last_capacity >= c
    BY <1>1 DEF PeakInv, PeakKnown, TypeOK, Capacity, kCapacityIdle, kCapacityOver
  <2>5. /\ peak \in 0 .. 3 /\ (3 \in decided' <=> peak = 3)
        /\ 3 \notin decided' /\ 2 \in decided' => peak = 2
    BY <2>3, <2>4 DEF Closed, Peak
  <2> HIDE DEF peak
  <2>6. /\ call' = Actuation(peak, p)
        /\ isEco' <=> (isEco \/ call'.op = "setEcoQos") /\ call'.op # "setHighQos"
    BY <2>3, Zenon DEF Closed, EcoAfter, peak
  <2>7. service = "frequency" =>
          Actuation(peak, p) = IF peak = 3 THEN [op |-> "GearUp", pid |-> 0]
                               ELSE IF peak = 2 THEN NoCall ELSE [op |-> "GearDown", pid |-> 0]
    BY <2>5 DEF Actuation, kCapacityOver, kCapacityUnder, kCapacityIdle
  <2>8. service = "qos" =>
          Actuation(peak, p) =
             IF peak = 3 /\ isEco THEN [op |-> "setHighQos", pid |-> p]
             ELSE IF peak < 2 /\ EcoDue(peak) THEN [op |-> "setEcoQos", pid |-> p] ELSE NoCall
    BY <2>5 DEF Actuation, EcoDue, kCapacityOver, kCapacityUnder, kCapacityIdle
  <2>9. service \notin {"frequency", "qos"} => Actuation(peak, p) = NoCall
    BY DEF Actuation
  <2>10. CASE peak = 3
    <3>1. service = "frequency" => call'.op = "GearUp"
      BY <2>6, <2>7, <2>10
    <3>2. service = "qos" /\ isEco => call'.op = "setHighQos" /\ ~isEco'
      BY <2>6, <2>8, <2>10
    <3>3. service = "qos" /\ ~isEco => call'.op = "none" /\ ~isEco'
      BY <2>6, <2>8, <2>10 DEF NoCall
    <3> QED
      BY <2>5, <2>10, <3>1, <3>2, <3>3 DEF kCapacityOver, kCapacityMeet
  <2>11. CASE peak # 3
    <3>1. call'.op \in {"none", "GearDown", "setEcoQos"} /\ (peak = 2 => call' = NoCall)
      BY <2>5, <2>6, <2>7, <2>8, <2>9, <2>11 DEF NoCall
    <3> QED
      BY <2>5, <2>11, <3>1 DEF kCapacityOver, kCapacityMeet
  <2> QED
    BY <2>10, <2>11
<1>2. PeakInv /\ [Next]_vars => [Promise]_vars
  BY <1>1
<1> QED
  BY <1>2, PeakInvHolds, PTL DEF Spec, OverloadNeverLost

-----------------------------------------------------------------------------
(* What must have happened before a hint is dropped or a process throttled. *)

\* isEco and the throttled processes both go back to a window closed at Under.
UnderBefore == (isEco \/ throttled # {}) => sawUnder

\* Idle threads alone never get a process throttled, also not through the case
\* of Idle that throttles while isEco is set (the two else-if of service "qos").
THEOREM IdleSparesProcesses == Spec => []IdleAloneNeverThrottles
<1>1. Init => UnderBefore
  BY DEF Init, UnderBefore
<1>2. TypeOK /\ UnderBefore /\ [Next]_vars => UnderBefore'
  <2> SUFFICES ASSUME TypeOK, UnderBefore, [Next]_vars PROVE UnderBefore'
    OBVIOUS
  <2>1. ASSUME NEW r \in Receivers, NEW t \in Times, NEW p \in Processes,
               NEW capacity \in Capacity, Hinted(r, t, p, capacity)
        PROVE  UnderBefore'
    <3>1. CASE Rejected(t)
      BY <3>1 DEF Rejected, hints, machine, UnderBefore
    <3>2. CASE Accumulated(capacity)
      BY <3>2 DEF Accumulated, machine, UnderBefore
    <3>3. CASE Closed(t, p, capacity)
      <4>1. call'.op = "setEcoQos" => EcoDue(Peak(capacity))
        BY <3>3 DEF Closed, Actuation, NoCall
      <4>2. call'.op = "setEcoQos" => sawUnder'
        BY <3>3, <4>1 DEF Closed, EcoDue, UnderBefore
      <4>3. call'.op # "setEcoQos" => (isEco' => isEco) /\ throttled' \subseteq throttled
        BY <3>3 DEF Closed, EcoAfter, ThrottledAfter
      <4> QED
        BY <3>3, <4>2, <4>3 DEF Closed, UnderBefore
    <3> QED
      BY <2>1, <3>1, <3>2, <3>3, HintOutcomes
  <2>2. ASSUME Other PROVE UnderBefore'
    BY <2>2, OtherSteps DEF Creates, Keeps, hints, UnderBefore
  <2>3. CASE UNCHANGED vars
    BY <2>3 DEF vars, hints, machine, history, UnderBefore
  <2> QED
    BY <2>1, <2>2, <2>3 DEF Next
<1>3. UnderBefore => IdleAloneNeverThrottles
  BY DEF UnderBefore, IdleAloneNeverThrottles
<1> QED
  BY <1>1, <1>2, <1>3, ProviderTypeCorrect, PTL DEF Spec

\* While ticks do not wrap, last_update_ is the real time of the last decision.
UpdateIsReal == last_update = lastReal /\ RejectedOnlyPast

\* Before the tick count wraps, a hint is dropped only if it is older than the
\* one that closed the last window ("event in the past").
THEOREM RejectionsAreLate ==
    ASSUME TicksNeverWrap PROVE Spec => []RejectedOnlyPast
<1>0. \A t \in Times : t \in Nat /\ t % TickModulus = t
  <2>1. TickModulus \in Nat \ {0} /\ \A t \in Times : t \in Nat /\ t < TickModulus
    BY ProviderAssumption DEF TicksNeverWrap
  <2> QED
    BY <2>1
<1>1. Init => UpdateIsReal
  BY DEF Init, UpdateIsReal, RejectedOnlyPast
<1>2. PeakInv /\ UpdateIsReal /\ [Next]_vars => UpdateIsReal'
  <2> SUFFICES ASSUME PeakInv, UpdateIsReal, [Next]_vars PROVE UpdateIsReal'
    OBVIOUS
  <2>0. TypeOK /\ NothingBeforeCreation
    BY DEF PeakInv
  <2>1. ASSUME NEW r \in Receivers, NEW t \in Times, NEW p \in Processes,
               NEW capacity \in Capacity, Hinted(r, t, p, capacity)
        PROVE  UpdateIsReal'
    <3>1. CASE Rejected(t)
      BY <1>0, <3>1 DEF Rejected, InPast, hints, UpdateIsReal, RejectedOnlyPast
    <3>2. CASE Accumulated(capacity)
      BY <3>2 DEF Accumulated, UpdateIsReal, RejectedOnlyPast
    <3>3. CASE Closed(t, p, capacity)
      BY <1>0, <3>3 DEF Closed, UpdateIsReal, RejectedOnlyPast
    <3> QED
      BY <2>0, <2>1, <3>1, <3>2, <3>3, HintOutcomes
  <2>2. ASSUME Other PROVE UpdateIsReal'
    BY <2>0, <2>2, OtherSteps
    DEF Creates, Keeps, hints, NothingBeforeCreation, UpdateIsReal, RejectedOnlyPast
  <2>3. CASE UNCHANGED vars
    BY <2>3 DEF vars, hints, history, UpdateIsReal, RejectedOnlyPast
  <2> QED
    BY <2>1, <2>2, <2>3 DEF Next
<1>3. UpdateIsReal => RejectedOnlyPast
  BY DEF UpdateIsReal
<1> QED
  BY <1>1, <1>2, <1>3, PeakInvHolds, PTL DEF Spec
=============================================================================
