----------------------- MODULE DeviceServiceProvider -----------------------
(***************************************************************************)
(* DeviceServiceProviderImpl, the object of the browser's device service   *)
(* that every renderer process talks to, with the Windows platform         *)
(* provider it owns.  It lives on one sequence, so each message handler is *)
(* one action.                                                             *)
(*                                                                         *)
(* Threads submit capacity hints.  The provider keeps the highest capacity *)
(* of a window of kUpdateIntervalMS and the first hint after the window    *)
(* closes it: the provider then shifts the frequency limiter (switch       *)
(* "frequency") or changes the power throttling of the process whose hint  *)
(* closed the window (switch "qos").                                       *)
(*                                                                         *)
(* system_time is GetTickCount() of the sender: real time modulo 2^32, and *)
(* hints of different pipes arrive in any order.                           *)
(***************************************************************************)
EXTENDS Integers, FiniteSets, FiniteSetsExt

CONSTANTS
    Receivers,          \* the ends of the pipes renderers have bound
    Clients,            \* DeviceServiceProviderClient remotes
    Processes,          \* process ids in hints
    Services,           \* the values --device-service may have
    UpdateInterval,     \* kUpdateIntervalMS
    TickModulus,        \* 2^32
    Times,              \* the real times at which hints are made
    GarbageCapacities   \* what the heap may hold where last_capacity_ lies

ASSUME ProviderAssumption ==
    /\ Services \subseteq {"disabled", "frequency", "qos"}
    /\ UpdateInterval \in Nat /\ TickModulus \in Nat \ {0}
    /\ Times \subseteq Nat /\ GarbageCapacities \subseteq Int

\* mojom::Capacity
kCapacityIdle  == 0
kCapacityUnder == 1
kCapacityMeet  == 2
kCapacityOver  == 3
Capacity == kCapacityIdle .. kCapacityOver

VARIABLES
    service,        \* the value of --device-service, deviceServiceFlag
    exists,         \* has DeviceService created the provider?
    receivers,      \* receivers_
    clients,        \* clients_
    listening,      \* is the platform provider's file open?
    last_update,    \* last_update_, a tick count
    last_capacity,  \* last_capacity_
    isEco,
    running,        \* the processes that still run
    throttled,      \* the processes Windows throttles (EcoQoS, not HighQoS)
    \* History, for the properties only.
    call,           \* what the last hint made the provider call: [op, pid]
    window,         \* capacities accepted since a window was last closed
    decided,        \* the capacities of the last window closed, {} if none
    lastReal,       \* the real time of the hint that closed it
    rejected,       \* the real time of the hint rejected by the last step, or -1
    sawUnder        \* was a window closed at Under?

binding == <<exists, receivers, clients, listening>>
hints   == <<last_update, last_capacity, isEco>>
machine == <<running, throttled>>
history == <<call, window, decided, lastReal, rejected, sawUnder>>
vars    == <<service, binding, hints, machine, history>>

NoCall == [op |-> "none", pid |-> 0]
Call   == {NoCall} \cup [op : {"GearUp", "GearDown"}, pid : {0}]
                   \cup [op : {"setHighQos", "setEcoQos"}, pid : Processes]

TypeOK ==
    /\ service \in Services
    /\ exists \in BOOLEAN /\ listening \in BOOLEAN /\ isEco \in BOOLEAN
    /\ receivers \subseteq Receivers /\ clients \subseteq Clients
    /\ last_update \in 0 .. TickModulus - 1
    /\ last_capacity \in Capacity \cup GarbageCapacities
    /\ running \subseteq Processes /\ throttled \subseteq Processes
    /\ call \in Call
    /\ window \subseteq Capacity /\ decided \subseteq Capacity
    /\ lastReal \in Times \cup {0} /\ rejected \in Times \cup {-1}
    /\ sawUnder \in BOOLEAN

Init ==
    /\ service \in Services
    /\ exists = FALSE /\ receivers = {} /\ clients = {} /\ listening = FALSE
    /\ last_update = 0 /\ last_capacity = kCapacityIdle /\ isEco = FALSE
    /\ running = Processes /\ throttled = {}
    /\ call = NoCall
    /\ window = {} /\ decided = {} /\ lastReal = 0 /\ rejected = -1
    /\ sawUnder = FALSE

-----------------------------------------------------------------------------
\* DeviceService::BindDeviceServiceProvider creates the provider at the first
\* request; its constructor leaves last_capacity_ alone.
CreateOnDemand ==
    IF exists THEN UNCHANGED <<exists, hints>>
    ELSE /\ exists' = TRUE
         /\ last_update' = 0 /\ isEco' = FALSE
         /\ last_capacity' \in GarbageCapacities

Bind(r) ==
    /\ r \notin receivers
    /\ CreateOnDemand
    /\ listening' = (listening \/ receivers = {})
    /\ receivers' = receivers \cup {r}
    /\ UNCHANGED <<clients, machine>>

StopsListeningAtOnce(left) == TRUE                               \* mutant
StopsListening(left) == left = {}

\* The set drops the receiver, then calls the disconnect handler.
OnReceiverConnectionError(r) ==
    /\ r \in receivers
    /\ receivers' = receivers \ {r}
    /\ listening' = (listening /\ ~StopsListening(receivers \ {r}))
    /\ UNCHANGED <<exists, clients, hints, machine>>

AddListenerAndGetCurrentService(r, c) ==
    /\ r \in receivers /\ c \notin clients
    /\ clients' = clients \cup {c}
    /\ UNCHANGED <<exists, receivers, listening, hints, machine>>

\* A RemoteSet drops a remote whose other end is gone.
ClientDisconnected(c) ==
    /\ c \in clients
    /\ clients' = clients \ {c}
    /\ UNCHANGED <<exists, receivers, listening, hints, machine>>

\* Hints a process sent before it exited are still delivered.
ProcessExits(p) ==
    /\ p \in running
    /\ running' = running \ {p}
    /\ throttled' = throttled \ {p}
    /\ UNCHANGED <<binding, hints>>

\* A new process with a pid that is free; it starts unthrottled.
ProcessStarts(p) ==
    /\ p \notin running
    /\ running' = running \cup {p}
    /\ UNCHANGED <<binding, hints, throttled>>

-----------------------------------------------------------------------------
InPastOrNow(tick) == tick <= last_update                         \* mutant
InPast(tick) == tick < last_update

Closes(tick) == tick - last_update > UpdateInterval

Latest(capacity) == capacity                                     \* mutant
Peak(capacity) == IF capacity > last_capacity THEN capacity ELSE last_capacity

\* Service "qos" throttles at Under unless isEco is set, but at Idle only if it
\* is set.
EcoDueWhenIdle(peak) == peak \in {kCapacityUnder, kCapacityIdle} /\ ~isEco   \* mutant
EcoDue(peak) ==
    \/ peak = kCapacityUnder /\ ~isEco
    \/ peak = kCapacityIdle /\ isEco

\* What closing a window with this peak calls.  Meet calls nothing, nor does a
\* value that is no Capacity.
Actuation(peak, p) ==
    CASE service = "frequency" /\ peak = kCapacityOver -> [op |-> "GearUp", pid |-> 0]
      [] service = "frequency" /\ peak \in {kCapacityUnder, kCapacityIdle} -> [op |-> "GearDown", pid |-> 0]
      [] service = "qos" /\ peak = kCapacityOver /\ isEco -> [op |-> "setHighQos", pid |-> p]
      [] service = "qos" /\ EcoDue(peak) -> [op |-> "setEcoQos", pid |-> p]
      [] OTHER -> NoCall

\* OpenProcess fails for a process that is gone: the call then has no effect.
EcoAfter(a) == (isEco \/ a.op = "setEcoQos") /\ a.op # "setHighQos"

ThrottledAfter(a) ==
    CASE a.op = "setEcoQos"  -> throttled \cup ({a.pid} \cap running)
      [] a.op = "setHighQos" -> throttled \ {a.pid}
      [] OTHER -> throttled

PeakKept(capacity) == Peak(capacity)                             \* mutant
CapacityAfterClose(capacity) == kCapacityIdle

Reject(tick, actuation) ==
    /\ InPast(tick)
    /\ actuation = NoCall
    /\ UNCHANGED <<hints, throttled>>

Accumulate(tick, capacity, actuation) ==
    /\ ~InPast(tick) /\ ~Closes(tick)
    /\ actuation = NoCall
    /\ last_capacity' = Peak(capacity)
    /\ UNCHANGED <<last_update, isEco, throttled>>

Close(tick, p, capacity, actuation) ==
    /\ ~InPast(tick) /\ Closes(tick)
    /\ actuation = Actuation(Peak(capacity), p)
    /\ isEco' = EcoAfter(actuation)
    /\ throttled' = ThrottledAfter(actuation)
    /\ last_update' = tick
    /\ last_capacity' = CapacityAfterClose(capacity)

\* The handler; actuation is what it calls.
SubmitTaskCapacityHint(r, tick, p, capacity, actuation) ==
    /\ r \in receivers
    /\ \/ Reject(tick, actuation)
       \/ Accumulate(tick, capacity, actuation)
       \/ Close(tick, p, capacity, actuation)
    /\ UNCHANGED <<binding, running>>

\* The history of a hint made at real time t.
RememberHint(t, capacity) ==
    LET hinted == window \cup {capacity}
    IN  CASE InPast(t % TickModulus) ->
               rejected' = t /\ UNCHANGED <<window, decided, lastReal, sawUnder>>
          [] ~InPast(t % TickModulus) /\ last_update' = last_update ->
               window' = hinted /\ rejected' = -1 /\ UNCHANGED <<decided, lastReal, sawUnder>>
          [] OTHER ->
               /\ window' = {} /\ decided' = hinted
               /\ lastReal' = t /\ rejected' = -1
               /\ sawUnder' = (sawUnder \/ Peak(capacity) = kCapacityUnder)

Hinted(r, t, p, capacity) ==
    \E actuation \in Call :
        /\ SubmitTaskCapacityHint(r, t % TickModulus, p, capacity, actuation)
        /\ call' = actuation
        /\ RememberHint(t, capacity)

Other ==
    /\ \/ \E r \in Receivers :
            \/ Bind(r)
            \/ OnReceiverConnectionError(r)
            \/ \E c \in Clients : AddListenerAndGetCurrentService(r, c)
       \/ \E c \in Clients : ClientDisconnected(c)
       \/ \E p \in Processes : ProcessExits(p) \/ ProcessStarts(p)
    /\ call' = NoCall /\ rejected' = -1
    /\ UNCHANGED <<window, decided, lastReal, sawUnder>>

Next ==
    /\ \/ \E r \in Receivers, t \in Times, p \in Processes, capacity \in Capacity :
              Hinted(r, t, p, capacity)
       \/ Other
    /\ UNCHANGED service

Spec == Init /\ [][Next]_vars
-----------------------------------------------------------------------------
\* The platform provider listens exactly while a receiver is bound, so the file
\* GetDeviceService writes to is open whenever a listener can be added.  (Bind
\* and the disconnect handler each test receivers_.empty().)
ListeningMatchesReceivers == listening <=> receivers # {}

\* Once a window was closed, the single variable last_capacity_ stands for all
\* hints accepted since, whoever sent them.
PeakOfWindow == decided # {} => last_capacity = Max(window \cup {kCapacityIdle})

\* A window with an overloaded thread in it always ends in a release and never
\* in a throttling, also when the hint that closes it is an idle one of another
\* thread; a window that was only met changes nothing.  (The first window of
\* the provider is excepted: last_capacity_ starts as garbage.)
OverloadNeverLost ==
    [][ lastReal' # lastReal /\ decided # {} =>
          /\ kCapacityOver \in decided' =>
                /\ service = "frequency" => call'.op = "GearUp"
                /\ service = "qos" => ~isEco' /\ call'.op # "setEcoQos"
          /\ kCapacityOver \notin decided' =>
                call'.op \notin {"GearUp", "setHighQos"}
          /\ kCapacityOver \notin decided' /\ kCapacityMeet \in decided' =>
                call' = NoCall ]_vars

\* A hint is only rejected if it is older than the one that closed the last
\* window ("event in the past").
RejectedOnlyPast == rejected # -1 => rejected < lastReal

\* Idle threads alone never get a process throttled: some window must have
\* closed at Under before (the first one may on garbage).
IdleAloneNeverThrottles == throttled # {} => sawUnder

\* The collapsed variable isEco stands for the system: while it is false, no
\* process is left throttled.
EcoFlagCoversThrottled == ~isEco => throttled = {}

=============================================================================
