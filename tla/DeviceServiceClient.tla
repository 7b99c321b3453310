------------------------ MODULE DeviceServiceClient ------------------------
(***************************************************************************)
(* The objects of a page that want to know the type of device service:     *)
(* the DeviceService behind navigator.deviceService, and the               *)
(* LocalFrameMojoHandler of each frame, which answers media queries.       *)
(*                                                                         *)
(* At its first use such an object binds a pipe to the provider, asks it   *)
(* to add a listener and gets the current service as the reply.  Changes   *)
(* come through the listener, a second pipe.  Messages of one pipe stay in *)
(* order, but the reply and the notifications may overtake each other.     *)
(*                                                                         *)
(* The provider is the one that tests use, FakeDeviceServiceProvider: the  *)
(* Windows provider has the same handlers, but its service never changes.  *)
(***************************************************************************)
EXTENDS Integers, Sequences, SequencesExt

CONSTANTS
    Navigators,         \* DeviceService objects
    Frames,             \* LocalFrameMojoHandler objects
    Services,           \* DeviceServiceType
    kCPUComputeCapacity,
    DeviceServiceEnabled,   \* the runtime feature
    MaxChanges          \* bound on the changes of the service

None == "none"

ASSUME ClientAssumption ==
    /\ Navigators \cap Frames = {}
    /\ kCPUComputeCapacity \in Services /\ None \notin Services
    /\ DeviceServiceEnabled \in BOOLEAN /\ MaxChanges \in Nat

Objects == Navigators \cup Frames

VARIABLES
    \* Of the provider:
    current,        \* current_service_
    clients,        \* clients_
    changes,        \* how often the service was changed
    \* Of each object:
    attached,       \* does its execution context (or its frame) still exist?
    bound,          \* service_.is_bound()
    value,          \* Service_, current_device_service_
    \* On their way:
    request,        \* AddListenerAndGetCurrentService
    reply,          \* its reply, or None
    notices,        \* OnServiceChanged
    \* History, for the properties only.
    handled         \* the last message the object handled: None, "reply" or "notice"

provider == <<current, clients, changes>>
objects  == <<attached, bound, value>>
pipes    == <<request, reply, notices>>
clientVars == <<provider, objects, pipes, handled>>

ClientTypeOK ==
    /\ current \in Services /\ clients \subseteq Objects /\ changes \in 0 .. MaxChanges
    /\ attached \in [Objects -> BOOLEAN] /\ bound \in [Objects -> BOOLEAN]
    /\ value \in [Objects -> Services]
    /\ request \in [Objects -> BOOLEAN]
    /\ reply \in [Objects -> Services \cup {None}]
    /\ notices \in [Objects -> Seq(Services)]
    /\ handled \in [Objects -> {None, "reply", "notice"}]

ClientInit ==
    /\ current \in Services /\ clients = {} /\ changes = 0
    /\ attached = [o \in Objects |-> TRUE]
    /\ bound = [o \in Objects |-> FALSE]
    /\ value = [o \in Objects |-> kCPUComputeCapacity]
    /\ request = [o \in Objects |-> FALSE]
    /\ reply = [o \in Objects |-> None]
    /\ notices = [o \in Objects |-> <<>>]
    /\ handled = [o \in Objects |-> None]

-----------------------------------------------------------------------------
\* EnsureServiceConnection, from type() and AddedEventListener, and the
\* GetDeviceService of a frame.  Nothing ever unbinds service_ again.
EnsureServiceConnection(o) ==
    /\ attached[o] /\ ~bound[o]
    /\ bound' = [bound EXCEPT ![o] = TRUE]
    /\ request' = [request EXCEPT ![o] = TRUE]
    /\ UNCHANGED <<provider, attached, value, reply, notices, handled>>

AnswerIfChanged(o) == IF current = value[o] THEN None ELSE current   \* mutant
Answer(o) == current

AddListenerAndGetCurrentService(o) ==
    /\ request[o]
    /\ request' = [request EXCEPT ![o] = FALSE]
    /\ clients' = clients \cup {o}
    /\ reply' = [reply EXCEPT ![o] = Answer(o)]
    /\ UNCHANGED <<current, changes, objects, notices, handled>>

NotifiedBefore(new) == {o \in clients : value[o] # new}          \* mutant
Notified(new) == clients

SetCurrentService(new) ==
    /\ changes < MaxChanges
    /\ current' = new /\ changes' = changes + 1
    /\ notices' = [o \in Objects |->
                     IF o \in Notified(new) THEN Append(notices[o], new) ELSE notices[o]]
    /\ UNCHANGED <<clients, objects, request, reply, handled>>

\* A DeviceService tells the page of a new value, a frame evaluates its media
\* queries again; neither is state of its own here.
OnServiceChanged(o, new) ==
    value' = [value EXCEPT ![o] = IF o \in Frames /\ ~DeviceServiceEnabled THEN @ ELSE new]

ReceiveReply(o) ==
    /\ reply[o] # None
    /\ OnServiceChanged(o, reply[o])
    /\ reply' = [reply EXCEPT ![o] = None]
    /\ handled' = [handled EXCEPT ![o] = "reply"]
    /\ UNCHANGED <<provider, attached, bound, request, notices>>

ReceiveNotice(o) ==
    /\ notices[o] # <<>>
    /\ OnServiceChanged(o, Head(notices[o]))
    /\ notices' = [notices EXCEPT ![o] = Tail(@)]
    /\ handled' = [handled EXCEPT ![o] = "notice"]
    /\ UNCHANGED <<provider, attached, bound, request, reply>>

\* The execution context is destroyed and resets its pipes; the provider's
\* set of clients drops the object.
Detach(o) ==
    /\ attached[o]
    /\ attached' = [attached EXCEPT ![o] = FALSE]
    /\ bound' = [bound EXCEPT ![o] = FALSE]
    /\ clients' = clients \ {o}
    /\ request' = [request EXCEPT ![o] = FALSE]
    /\ reply' = [reply EXCEPT ![o] = None]
    /\ notices' = [notices EXCEPT ![o] = <<>>]
    /\ UNCHANGED <<current, changes, value, handled>>

ClientNext ==
    \/ \E o \in Objects :
          \/ EnsureServiceConnection(o)
          \/ AddListenerAndGetCurrentService(o)
          \/ ReceiveReply(o)
          \/ ReceiveNotice(o)
          \/ Detach(o)
    \/ \E new \in Services : SetCurrentService(new)

\* Messages that were sent are handled.
ClientFairness ==
    \A o \in Objects :
        /\ WF_clientVars(AddListenerAndGetCurrentService(o))
        /\ WF_clientVars(ReceiveReply(o)) /\ WF_clientVars(ReceiveNotice(o))

ClientSpec == ClientInit /\ [][ClientNext]_clientVars /\ ClientFairness
-----------------------------------------------------------------------------
Quiet(o) == ~request[o] /\ reply[o] = None /\ notices[o] = <<>>

\* Once nothing is on its way to a connected object, it knows the current
\* service: "verify that the JavaScript event handler is properly called and
\* that the new service has the correct value".
QuietKnowsCurrent ==
    \A o \in Objects : bound[o] /\ Quiet(o) => value[o] = current

\* If it does not, the reply of its connection was the last message it
\* handled, one that a notification had overtaken: the next change of the
\* service sets it right, and no interleaving of changes with the connections
\* and the ends of other objects leaves it wrong otherwise.
OnlyReplyIsStale ==
    \A o \in Objects :
        bound[o] /\ Quiet(o) /\ value[o] # current => handled[o] = "reply"

\* A listener is told of every change in order, from before its own reply on,
\* however many changes were made before it came: the last notification on its
\* way is the current service, and an object that is gone gets none.
LastNoticeIsCurrent ==
    \A o \in Objects : notices[o] # <<>> => o \in clients /\ Last(notices[o]) = current

\* An object that connects is told a service unless its page goes away.
ConnectionIsAnswered ==
    \A o \in Objects : bound[o] ~> (handled[o] # None \/ ~attached[o])
=============================================================================
