---------------------- MODULE DeviceServiceClientProofs ----------------------
(***************************************************************************)
(* What TLC checks of DeviceServiceClient with one object of each kind and *)
(* three changes, for any number of them.                                  *)
(***************************************************************************)
EXTENDS DeviceServiceClient, SequenceTheorems, TLAPS

(* The last element of a queue when it grows and shrinks. *)
LEMMA LastOfAppend ==
    ASSUME NEW s \in Seq(Services), NEW v \in Services
    PROVE  Append(s, v) \in Seq(Services) /\ Append(s, v) # <<>> /\ Last(Append(s, v)) = v
BY DEF Last

LEMMA LastOfTail ==
    ASSUME NEW s \in Seq(Services), s # <<>>
    PROVE  /\ Tail(s) \in Seq(Services) /\ Head(s) \in Services
           /\ Tail(s) # <<>> => Last(Tail(s)) = Last(s)
           /\ Tail(s) = <<>> => Head(s) = Last(s)
<1>1. Len(s) \in Nat \ {0} /\ Tail(s) \in Seq(Services) /\ Head(s) \in Services
  BY EmptySeq, HeadTailProperties
<1>2. Head(s) = s[1] /\ \A i \in 1 .. Len(s) - 1 : Tail(s)[i] = s[i + 1]
  BY HeadTailProperties
<1>3. Len(Tail(s)) = Len(s) - 1
  BY HeadTailProperties
<1>4. ASSUME Tail(s) # <<>> PROVE Last(Tail(s)) = Last(s)
  <2>1. Len(s) - 1 \in 1 .. Len(s) - 1
    BY <1>1, <1>3, <1>4, EmptySeq
  <2>2. Tail(s)[Len(s) - 1] = s[Len(s) - 1 + 1] /\ Len(s) - 1 + 1 = Len(s)
    BY <1>1, <1>2, <2>1
  <2> QED
    BY <1>3, <2>2 DEF Last
<1>5. ASSUME Tail(s) = <<>> PROVE Head(s) = Last(s)
  <2>1. Len(Tail(s)) = 0
    BY <1>5, EmptySeq
  <2>2. Len(s) - 1 = 0
    BY <1>3, <2>1, Zenon
  <2>3. Len(s) = 1
    BY <1>1, <2>2
  <2> QED
    BY <1>2, <2>3 DEF Last
<1> QED
  BY <1>1, <1>4, <1>5

-----------------------------------------------------------------------------
\* The types hold for every set of objects and every value of the feature.
THEOREM ClientTypeCorrect == ClientSpec => []ClientTypeOK
<1>1. ClientInit => ClientTypeOK
  BY ClientAssumption DEF ClientInit, ClientTypeOK
<1>2. ClientTypeOK /\ [ClientNext]_clientVars => ClientTypeOK'
  <2> SUFFICES ASSUME ClientTypeOK, [ClientNext]_clientVars PROVE ClientTypeOK'
    OBVIOUS
  <2>1. ASSUME NEW o \in Objects, EnsureServiceConnection(o) PROVE ClientTypeOK'
    BY <2>1 DEF EnsureServiceConnection, ClientTypeOK, provider
  <2>2. ASSUME NEW o \in Objects, AddListenerAndGetCurrentService(o) PROVE ClientTypeOK'
    BY <2>2 DEF AddListenerAndGetCurrentService, Answer, ClientTypeOK, objects
  <2>3. ASSUME NEW o \in Objects, NEW v \in Services, OnServiceChanged(o, v)
        PROVE  value' \in [Objects -> Services]
    BY <2>3 DEF OnServiceChanged, ClientTypeOK
  <2>4. ASSUME NEW o \in Objects, ReceiveReply(o) PROVE ClientTypeOK'
    <3>1. reply[o] \in Services
      BY <2>4 DEF ReceiveReply, ClientTypeOK
    <3>2. value' \in [Objects -> Services]
      BY <2>3, <2>4, <3>1 DEF ReceiveReply
    <3> QED
      BY <2>4, <3>2 DEF ReceiveReply, ClientTypeOK, provider
  <2>5. ASSUME NEW o \in Objects, ReceiveNotice(o) PROVE ClientTypeOK'
    <3>1. notices[o] \in Seq(Services) /\ notices[o] # <<>>
      BY <2>5 DEF ReceiveNotice, ClientTypeOK
    <3>2. value' \in [Objects -> Services] /\ Tail(notices[o]) \in Seq(Services)
      BY <2>3, <2>5, <3>1, LastOfTail DEF ReceiveNotice
    <3> QED
      BY <2>5, <3>2 DEF ReceiveNotice, ClientTypeOK, provider
  <2>6. ASSUME NEW o \in Objects, Detach(o) PROVE ClientTypeOK'
    BY <2>6 DEF Detach, ClientTypeOK
  <2>7. ASSUME NEW new \in Services, SetCurrentService(new) PROVE ClientTypeOK'
    <3>1. notices' \in [Objects -> Seq(Services)]
      BY <2>7, LastOfAppend DEF SetCurrentService, ClientTypeOK
    <3>2. changes' \in 0 .. MaxChanges
      BY <2>7, ClientAssumption DEF SetCurrentService, ClientTypeOK
    <3> QED
      BY <2>7, <3>1, <3>2 DEF SetCurrentService, ClientTypeOK, objects
  <2>8. CASE UNCHANGED clientVars
    BY <2>8 DEF clientVars, provider, objects, pipes, ClientTypeOK
  <2> QED
    BY <2>1, <2>2, <2>4, <2>5, <2>6, <2>7, <2>8 DEF ClientNext
<1> QED
  BY <1>1, <1>2, PTL DEF ClientSpec

-----------------------------------------------------------------------------
(* Where an object can stand with the provider. *)

\* It is listening, or still asking, or has no connection; what is on its way
\* to it, and what it has handled, goes with that.
Connected(o) ==
    /\ o \in clients => bound[o] /\ ~request[o]
    /\ bound[o] => o \in clients \/ request[o]
    /\ bound[o] => attached[o]
    /\ attached[o] /\ o \notin clients => handled[o] = None
    /\ o \notin clients => reply[o] = None /\ notices[o] = <<>>
    /\ request[o] => bound[o]

\* The last change it has not handled is the current service; if it has handled
\* all, and no reply since, it knows the current service.
UpToDate(o) ==
    o \in clients =>
        /\ notices[o] # <<>> => Last(notices[o]) = current
        /\ notices[o] = <<>> /\ handled[o] = "notice"
              /\ (o \notin Frames \/ DeviceServiceEnabled) => value[o] = current
        /\ handled[o] = None => reply[o] # None \/ notices[o] # <<>>

ClientInv == \A o \in Objects : Connected(o) /\ UpToDate(o)

LEMMA ClientInvHolds == ClientSpec => []ClientInv
<1>1. ClientInit => ClientInv
  BY DEF ClientInit, ClientInv, Connected, UpToDate
<1>2. ClientTypeOK /\ ClientInv /\ [ClientNext]_clientVars => ClientInv'
  <2> SUFFICES ASSUME ClientTypeOK, ClientInv, [ClientNext]_clientVars, NEW x \in Objects
               PROVE  (Connected(x) /\ UpToDate(x))'
    BY DEF ClientInv
  <2>0. Connected(x) /\ UpToDate(x)
    BY DEF ClientInv
  <2> USE <2>0 DEF Connected, UpToDate, None
  <2>1. ASSUME NEW o \in Objects, EnsureServiceConnection(o)
        PROVE  (Connected(x) /\ UpToDate(x))'
    BY <2>1 DEF EnsureServiceConnection, ClientTypeOK, provider
  <2>2. ASSUME NEW o \in Objects, AddListenerAndGetCurrentService(o)
        PROVE  (Connected(x) /\ UpToDate(x))'
    <3>1. current # None
      BY ClientAssumption DEF ClientTypeOK
    <3> QED
      BY <2>2, <3>1 DEF AddListenerAndGetCurrentService, Answer, ClientTypeOK, objects
  <2>3. ASSUME NEW o \in Objects, ReceiveReply(o)
        PROVE  (Connected(x) /\ UpToDate(x))'
    BY <2>3 DEF ReceiveReply, OnServiceChanged, ClientTypeOK, provider
  <2>4. ASSUME NEW o \in Objects, ReceiveNotice(o)
        PROVE  (Connected(x) /\ UpToDate(x))'
    BY <2>4, LastOfTail DEF ReceiveNotice, OnServiceChanged, ClientTypeOK, provider
  <2>5. ASSUME NEW o \in Objects, Detach(o)
        PROVE  (Connected(x) /\ UpToDate(x))'
    BY <2>5 DEF Detach, ClientTypeOK
  <2>6. ASSUME NEW new \in Services, SetCurrentService(new)
        PROVE  (Connected(x) /\ UpToDate(x))'
    BY <2>6, LastOfAppend DEF SetCurrentService, Notified, ClientTypeOK, objects
  <2>7. CASE UNCHANGED clientVars
    BY <2>7 DEF clientVars, provider, objects, pipes
  <2> QED
    BY <2>1, <2>2, <2>3, <2>4, <2>5, <2>6, <2>7 DEF ClientNext
<1> QED
  BY <1>1, <1>2, ClientTypeCorrect, PTL DEF ClientSpec

\* However connections, changes and ends of pages interleave, an object that is
\* wrong about the service once all is handled got its reply last.
THEOREM StaleByReplyOnly ==
    ASSUME DeviceServiceEnabled PROVE ClientSpec => []OnlyReplyIsStale
<1>1. ClientTypeOK /\ ClientInv => OnlyReplyIsStale
  <2> SUFFICES ASSUME ClientTypeOK, ClientInv, NEW o \in Objects,
                      bound[o], Quiet(o), value[o] # current
               PROVE  handled[o] = "reply"
    BY DEF OnlyReplyIsStale
  <2>1. Connected(o) /\ UpToDate(o)
    BY DEF ClientInv
  <2>2. o \in clients /\ handled[o] \notin {None, "notice"}
    BY <2>1 DEF Connected, UpToDate, Quiet
  <2> QED
    BY <2>2 DEF ClientTypeOK
<1> QED
  BY <1>1, ClientInvHolds, ClientTypeCorrect, PTL

\* A listener is never missed or passed over, and an object that is gone gets
\* nothing: the last notification on its way is the current service.
THEOREM NoticesAreCurrent == ClientSpec => []LastNoticeIsCurrent
<1>1. ClientInv => LastNoticeIsCurrent
  BY DEF ClientInv, Connected, UpToDate, LastNoticeIsCurrent
<1> QED
  BY <1>1, ClientInvHolds, PTL
=============================================================================
