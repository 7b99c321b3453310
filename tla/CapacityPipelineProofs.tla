----------------------- MODULE CapacityPipelineProofs -----------------------
(***************************************************************************)
(* What holds of the way from load to frequency for any number of threads, *)
(* any loads, delays and windows: which hints the provider drops, and that *)
(* the limiter the hints reach is the limiter of FrequencyLimiter.         *)
(***************************************************************************)
EXTENDS CapacityPipeline, SequenceTheorems, TLAPS

Hint == [tick : 0 .. Horizon, from : Trackers, capacity : DC!Capacity]

Typed == pipe \in [Trackers -> Seq(Hint)] /\ last_update \in 0 .. Horizon

\* A pipe delivers in the order of the ticks.
InOrder(hints) ==
    \A i, j \in 1 .. Len(hints) : i <= j => hints[i].tick <= hints[j].tick

NoneBefore(hints, tick) == \A i \in 1 .. Len(hints) : tick <= hints[i].tick

\* All that is left in the pipe of the thread whose hint closed the last window
\* was sent after that hint.
PipesInv ==
    /\ Typed
    /\ \A t \in Trackers : InOrder(pipe[t])
    /\ \A t \in Trackers : closer = t => NoneBefore(pipe[t], last_update)

-----------------------------------------------------------------------------
(* What the operations do to a pipe. *)

LEMMA OrderAfterPut ==
    ASSUME NEW hints \in Seq(Hint), NEW hint \in Hint, hint.tick = Horizon,
           InOrder(hints), Horizon \in Nat
    PROVE  /\ Put(hints, hint) \in Seq(Hint) /\ InOrder(Put(hints, hint))
           /\ \A tick \in 0 .. Horizon : NoneBefore(hints, tick) => NoneBefore(Put(hints, hint), tick)
<1> DEFINE after == Append(hints, hint)
           n == Len(hints)
<1>1. /\ after \in Seq(Hint) /\ Len(after) = n + 1 /\ n \in Nat
      /\ \A i \in 1 .. n : after[i] = hints[i] /\ hints[i].tick \in 0 .. Horizon
      /\ after[n + 1] = hint
  <2>1. \A i \in 1 .. n : hints[i] \in Hint
    BY LenProperties
  <2> QED
    BY <2>1, AppendProperties, LenProperties DEF Hint
<1> HIDE DEF after, n
<1>2. \A i \in 1 .. n + 1 : i \in 1 .. n \/ i = n + 1
  BY <1>1
<1>3. InOrder(after)
  <2> SUFFICES ASSUME NEW i \in 1 .. n + 1, NEW j \in 1 .. n + 1, i <= j
               PROVE  after[i].tick <= after[j].tick
    BY <1>1 DEF InOrder
  <2>1. CASE i \in 1 .. n /\ j \in 1 .. n
    BY <1>1, <2>1 DEF InOrder, n
  <2>2. CASE i \in 1 .. n /\ j = n + 1
    BY <1>1, <2>2
  <2>3. CASE i = n + 1
    <3>1. j = n + 1
      BY <1>1, <2>3
    <3> QED
      BY <1>1, <2>3, <3>1
  <2> QED
    BY <1>2, <2>1, <2>2, <2>3
<1>4. ASSUME NEW tick \in 0 .. Horizon, NoneBefore(hints, tick)
      PROVE  NoneBefore(after, tick)
  <2>1. \A i \in 1 .. n : tick <= after[i].tick
    BY <1>1, <1>4 DEF NoneBefore, n
  <2>2. tick <= after[n + 1].tick
    BY <1>1
  <2> QED
    BY <1>1, <1>2, <2>1, <2>2 DEF NoneBefore
<1> QED
  BY <1>1, <1>3, <1>4 DEF Put, after

LEMMA OrderAfterTail ==
    ASSUME NEW hints \in Seq(Hint), hints # <<>>, InOrder(hints)
    PROVE  /\ Head(hints) \in Hint /\ Tail(hints) \in Seq(Hint) /\ InOrder(Tail(hints))
           /\ NoneBefore(Tail(hints), Head(hints).tick)
           /\ \A tick : NoneBefore(hints, tick) => NoneBefore(Tail(hints), tick)
<1> DEFINE rest == Tail(hints)
           n == Len(rest)
<1>1. /\ Head(hints) \in Hint /\ rest \in Seq(Hint) /\ Len(hints) = n + 1 /\ n \in Nat
      /\ \A i \in 1 .. n : rest[i] = hints[i + 1]
  BY HeadTailProperties, LenProperties
<1>2. Head(hints) = hints[1]
  OBVIOUS
<1> HIDE DEF rest, n
<1>3. \A i \in 1 .. n : i + 1 \in 1 .. Len(hints) /\ 1 \in 1 .. Len(hints) /\ 1 <= i + 1
  BY <1>1
<1>4. InOrder(rest)
  <2> SUFFICES ASSUME NEW i \in 1 .. n, NEW j \in 1 .. n, i <= j
               PROVE  rest[i].tick <= rest[j].tick
    BY <1>1 DEF InOrder, n
  <2>1. i + 1 \in 1 .. Len(hints) /\ j + 1 \in 1 .. Len(hints) /\ i + 1 <= j + 1
    BY <1>1
  <2>2. hints[i + 1].tick <= hints[j + 1].tick
    BY <2>1 DEF InOrder
  <2> QED
    BY <1>1, <2>2
<1>5. NoneBefore(rest, Head(hints).tick)
  <2> SUFFICES ASSUME NEW i \in 1 .. n PROVE hints[1].tick <= rest[i].tick
    BY <1>2 DEF NoneBefore, n
  <2>1. hints[1].tick <= hints[i + 1].tick
    BY <1>3 DEF InOrder
  <2> QED
    BY <1>1, <2>1
<1>6. ASSUME NEW tick, NoneBefore(hints, tick) PROVE NoneBefore(rest, tick)
  BY <1>1, <1>3, <1>6 DEF NoneBefore, n
<1> QED
  BY <1>1, <1>4, <1>5, <1>6 DEF rest

LEMMA OlderKeepsOrder ==
    ASSUME Horizon \in Nat, NEW a \in 0 .. Horizon
    PROVE  /\ Older(a) \in 0 .. Horizon
           /\ \A b \in 0 .. Horizon : a <= b => Older(a) <= Older(b)
<1>1. Older(a) \in 0 .. Horizon
  BY DEF Older
<1>2. ASSUME NEW b \in 0 .. Horizon, a <= b PROVE Older(a) <= Older(b)
  BY <1>2 DEF Older
<1> QED
  BY <1>1, <1>2

Aged(hints) == [i \in DOMAIN hints |-> [hints[i] EXCEPT !.tick = Older(@)]]

LEMMA OrderAfterTick ==
    ASSUME Horizon \in Nat, NEW hints \in Seq(Hint), InOrder(hints)
    PROVE  /\ Aged(hints) \in Seq(Hint) /\ InOrder(Aged(hints))
           /\ \A tick \in 0 .. Horizon :
                 NoneBefore(hints, tick) => NoneBefore(Aged(hints), Older(tick))
<1> DEFINE n == Len(hints)
           aged == Aged(hints)
<1>1. n \in Nat /\ hints \in [1 .. n -> Hint] /\ DOMAIN hints = 1 .. n
  BY LenProperties
<1> HIDE DEF n
<1>2. \A i \in 1 .. n : /\ hints[i] \in Hint /\ hints[i].tick \in 0 .. Horizon
                        /\ Older(hints[i].tick) \in 0 .. Horizon
  BY <1>1, OlderKeepsOrder DEF Hint
<1>3. \A i \in 1 .. n : /\ aged[i] = [hints[i] EXCEPT !.tick = Older(hints[i].tick)]
  BY <1>1 DEF Aged
<1>4. \A i \in 1 .. n : aged[i] \in Hint /\ aged[i].tick = Older(hints[i].tick)
  BY <1>2, <1>3 DEF Hint
<1>5. aged \in [1 .. n -> Hint]
  <2>1. DOMAIN aged = 1 .. n /\ aged = [i \in 1 .. n |-> aged[i]]
    BY <1>1 DEF Aged
  <2> HIDE DEF aged
  <2> QED
    BY <1>4, <2>1
<1>6. aged \in Seq(Hint) /\ Len(aged) = n
  BY <1>1, <1>5, SeqDef
<1> HIDE DEF aged
<1>7. InOrder(aged)
  <2> SUFFICES ASSUME NEW i \in 1 .. n, NEW j \in 1 .. n, i <= j
               PROVE  aged[i].tick <= aged[j].tick
    BY <1>6 DEF InOrder
  <2>1. hints[i].tick <= hints[j].tick
    BY DEF InOrder, n
  <2> QED
    BY <1>2, <1>4, <2>1, OlderKeepsOrder
<1>8. ASSUME NEW tick \in 0 .. Horizon, NoneBefore(hints, tick)
      PROVE  NoneBefore(aged, Older(tick))
  <2> SUFFICES ASSUME NEW i \in 1 .. n PROVE Older(tick) <= aged[i].tick
    BY <1>6 DEF NoneBefore
  <2>1. tick <= hints[i].tick
    BY <1>8 DEF NoneBefore, n
  <2> QED
    BY <1>2, <1>4, <2>1, OlderKeepsOrder
<1> QED
  BY <1>6, <1>7, <1>8 DEF aged

-----------------------------------------------------------------------------
(* The order of the pipes, and which hints are dropped. *)

\* A delivered hint either leaves last_update_ alone or replaces it.
LEMMA SubmitMovesUpdate ==
    ASSUME NEW t, NEW tick, NEW capacity, NEW actuation,
           DSP!SubmitTaskCapacityHint(t, tick, 1, capacity, actuation)
    PROVE  last_update' \in {last_update, tick}
BY DEF DSP!SubmitTaskCapacityHint, DSP!Reject, DSP!Accumulate, DSP!Close, DSP!hints

LEMMA PipesInvHolds == Spec => []PipesInv
<1> USE PipelineAssumption
<1>1. Init => PipesInv
  <2> SUFFICES ASSUME Init PROVE PipesInv
    OBVIOUS
  <2>1. \A t \in Trackers : pipe[t] = <<>>
    BY DEF Init
  <2>2. Typed
    BY DEF Init, Typed
  <2>3. InOrder(<<>>) /\ NoneBefore(<<>>, last_update)
    BY DEF InOrder, NoneBefore
  <2> QED
    BY <2>1, <2>2, <2>3 DEF PipesInv
<1>2. PipesInv /\ [Next]_vars => PipesInv'
  <2> SUFFICES ASSUME PipesInv, [Next]_vars PROVE PipesInv'
    OBVIOUS
  <2>0. /\ pipe \in [Trackers -> Seq(Hint)] /\ last_update \in 0 .. Horizon
        /\ \A t \in Trackers : InOrder(pipe[t])
        /\ \A t \in Trackers : closer = t => NoneBefore(pipe[t], last_update)
    BY DEF PipesInv, Typed
  <2>1. CASE StartBrowser \/ UNCHANGED vars
    <3>1. UNCHANGED <<pipe, last_update, closer>>
      BY <2>1 DEF StartBrowser, vars, provider
    <3> QED
      BY <2>0, <3>1 DEF PipesInv, Typed
  <2>2. CASE PassTick
    <3>1. pipe' = [t \in Trackers |-> Aged(pipe[t])] /\ last_update' = Older(last_update) /\ closer' = closer
      BY <2>2 DEF PassTick, Aged
    <3>2. ASSUME NEW t \in Trackers
          PROVE  /\ pipe'[t] = Aged(pipe[t]) /\ Aged(pipe[t]) \in Seq(Hint) /\ InOrder(Aged(pipe[t]))
                 /\ closer = t => NoneBefore(Aged(pipe[t]), Older(last_update))
      <4>1. pipe[t] \in Seq(Hint) /\ InOrder(pipe[t])
        BY <2>0
      <4> QED
        BY <2>0, <3>1, <4>1, OrderAfterTick
    <3>3. last_update' \in 0 .. Horizon
      BY <2>0, <3>1, OlderKeepsOrder
    <3>4. pipe' \in [Trackers -> Seq(Hint)]
      BY <3>1, <3>2
    <3> QED
      BY <3>1, <3>2, <3>3, <3>4 DEF PipesInv, Typed
  <2>3. ASSUME NEW u \in Trackers, Report(u) PROVE PipesInv'
    <3>1. PICK load \in Loads, hint \in DC!HintsAt(u, Horizon) :
            pipe' = IF hint = DC!NoHint THEN pipe ELSE [pipe EXCEPT ![u] = Put(@, hint)]
      BY <2>3 DEF Report
    <3>2. last_update' = last_update /\ closer' = closer
      BY <2>3 DEF Report, provider
    <3>3. CASE hint = DC!NoHint
      BY <2>0, <3>1, <3>2, <3>3 DEF PipesInv, Typed
    <3>4. CASE hint # DC!NoHint
      <4>1. hint \in Hint /\ hint.tick = Horizon
        BY <3>4 DEF DC!HintsAt, Hint
      <4>2. pipe[u] \in Seq(Hint) /\ InOrder(pipe[u])
        BY <2>0
      <4>3. /\ Put(pipe[u], hint) \in Seq(Hint) /\ InOrder(Put(pipe[u], hint))
            /\ closer = u => NoneBefore(Put(pipe[u], hint), last_update)
        BY <2>0, <4>1, <4>2, OrderAfterPut
      <4>4. pipe' = [pipe EXCEPT ![u] = Put(pipe[u], hint)]
        BY <3>1, <3>4
      <4> QED
        BY <2>0, <3>2, <4>3, <4>4 DEF PipesInv, Typed
    <3> QED
      BY <3>3, <3>4
  <2>4. ASSUME NEW u \in Trackers, Connect(u) PROVE PipesInv'
    <3>1. pipe' = pipe /\ closer' = closer /\ last_update' \in {last_update, 0}
      BY <2>4 DEF Connect, DSP!Bind, DSP!CreateOnDemand, DSP!hints
    <3>2. last_update' \in 0 .. Horizon
      BY <2>0, <3>1
    <3>3. ASSUME NEW t \in Trackers, closer = t PROVE NoneBefore(pipe[t], last_update')
      <4>1. pipe[t] \in Seq(Hint) /\ NoneBefore(pipe[t], last_update)
        BY <2>0, <3>3
      <4>2. \A i \in 1 .. Len(pipe[t]) : pipe[t][i].tick \in 0 .. Horizon
        <5>1. \A i \in 1 .. Len(pipe[t]) : pipe[t][i] \in Hint
          BY <4>1, LenProperties
        <5> QED
          BY <5>1 DEF Hint
      <4>3. NoneBefore(pipe[t], 0)
        BY <4>2 DEF NoneBefore
      <4> QED
        BY <3>1, <4>1, <4>3
    <3> QED
      BY <2>0, <3>1, <3>2, <3>3 DEF PipesInv, Typed
  <2>5. ASSUME NEW u \in Trackers, Deliver(u) PROVE PipesInv'
    <3> DEFINE hint == Head(pipe[u])
    <3>1. /\ pipe[u] # <<>> /\ pipe' = [pipe EXCEPT ![u] = Tail(@)]
          /\ closer' = IF last_update' = last_update THEN closer ELSE u
          /\ \E actuation : DSP!SubmitTaskCapacityHint(u, hint.tick, 1, hint.capacity, actuation)
      BY <2>5 DEF Deliver
    <3>2. last_update' \in {last_update, hint.tick}
      BY <3>1, SubmitMovesUpdate
    <3>3. pipe[u] \in Seq(Hint) /\ InOrder(pipe[u])
      BY <2>0
    <3>4. /\ hint \in Hint /\ Tail(pipe[u]) \in Seq(Hint) /\ InOrder(Tail(pipe[u]))
          /\ NoneBefore(Tail(pipe[u]), hint.tick)
          /\ \A tick : NoneBefore(pipe[u], tick) => NoneBefore(Tail(pipe[u]), tick)
      BY <3>1, <3>3, OrderAfterTail
    <3>5. hint.tick \in 0 .. Horizon
      BY <3>4 DEF Hint
    <3> HIDE DEF hint
    <3>6. last_update' \in 0 .. Horizon /\ pipe' \in [Trackers -> Seq(Hint)]
      BY <2>0, <3>1, <3>2, <3>4, <3>5
    <3>7. \A t \in Trackers : InOrder(pipe'[t])
      BY <2>0, <3>1, <3>4
    <3>8. ASSUME NEW t \in Trackers, closer' = t PROVE NoneBefore(pipe'[t], last_update')
      <4>1. CASE last_update' = last_update
        <5>1. closer = t /\ NoneBefore(pipe[t], last_update)
          BY <2>0, <3>1, <3>8, <4>1
        <5>2. pipe'[t] = IF t = u THEN Tail(pipe[u]) ELSE pipe[t]
          BY <2>0, <3>1
        <5> QED
          BY <3>4, <4>1, <5>1, <5>2
      <4>2. CASE last_update' # last_update
        <5>1. t = u /\ last_update' = hint.tick /\ pipe'[t] = Tail(pipe[u])
          BY <2>0, <3>1, <3>2, <3>8, <4>2
        <5> QED
          BY <3>4, <5>1
      <4> QED
        BY <4>1, <4>2
    <3> QED
      BY <3>6, <3>7, <3>8 DEF PipesInv, Typed
  <2> QED
    BY <2>1, <2>2, <2>3, <2>4, <2>5 DEF Next
<1> QED
  BY <1>1, <1>2, PTL DEF Spec

\* However many threads report, however long their hints are under way and
\* however often windows close, a thread never spoils its own hints: whatever is
\* rejected as past was overtaken by a hint in another thread's pipe.
THEOREM OnlyOvertakenAreLost == Spec => []RejectedOnlyOvertaken
<1>1. PipesInv => RejectedOnlyOvertaken
  <2> SUFFICES ASSUME PipesInv, NEW t \in Trackers, pipe[t] # <<>>, closer = t
               PROVE  ~(Head(pipe[t]).tick < last_update)
    BY DEF RejectedOnlyOvertaken
  <2>1. pipe[t] \in Seq(Hint) /\ NoneBefore(pipe[t], last_update) /\ last_update \in Int
    BY DEF PipesInv, Typed
  <2>2. Len(pipe[t]) \in Nat \ {0} /\ Head(pipe[t]) = pipe[t][1]
    BY <2>1, EmptySeq
  <2>3. Head(pipe[t]) \in Hint /\ last_update <= Head(pipe[t]).tick
    BY <2>1, <2>2, HeadTailProperties DEF NoneBefore
  <2>4. Head(pipe[t]).tick \in Int
    BY <2>3 DEF Hint
  <2> QED
    BY <2>1, <2>3, <2>4
<1> QED
  BY <1>1, PipesInvHolds, PTL

-----------------------------------------------------------------------------
(* The limiter. *)

\* The limiter that the hints reach is the one of FrequencyLimiter, on a machine
\* where writes succeed and no other process regulates: every step of the way
\* is one of its steps or none, so that what its own proofs say holds here.
THEOREM HintsDriveTheLimiter == Spec => FL!Spec
<1>1. Init => FL!Init
  BY DEF Init
<1>2. [Next]_vars => [FL!Next]_(FL!vars)
  <2> SUFFICES ASSUME [Next]_vars PROVE FL!Next \/ UNCHANGED FL!vars
    OBVIOUS
  <2>1. UNCHANGED limiter => UNCHANGED FL!vars
    BY DEF limiter, FL!vars, FL!machine, FL!members, Never
  <2>2. CASE StartBrowser
    BY <2>2 DEF StartBrowser, FL!Next
  <2>3. CASE PassTick
    BY <2>1, <2>3 DEF PassTick
  <2>4. ASSUME NEW t \in Trackers, Report(t) \/ Connect(t) PROVE UNCHANGED FL!vars
    BY <2>1, <2>4 DEF Report, Connect
  <2>5. ASSUME NEW t \in Trackers, Deliver(t) PROVE FL!Next \/ UNCHANGED FL!vars
    <3>1. PICK actuation : Actuate(actuation)
      BY <2>5 DEF Deliver
    <3>2. FL!GearUp(100) \/ FL!GearDown(10) \/ UNCHANGED limiter
      BY <3>1 DEF Actuate
    <3> QED
      BY <2>1, <3>2 DEF FL!Next
  <2>6. CASE UNCHANGED vars
    BY <2>1, <2>6 DEF vars
  <2> QED
    BY <2>2, <2>3, <2>4, <2>5, <2>6 DEF Next
<1> QED
  BY <1>1, <1>2, PTL DEF Spec, FL!Spec

\* FrequencyLimiter once more, with its proofs (and those of SharedPowerScheme, of
\* which no process takes part here).
Proved == INSTANCE FrequencyLimiterProofs
        WITH Word <- LimiterWord, DownCounts <- {10}, UpCounts <- {100},
             StoredLimits <- {0}, faulty <- Never, stepped <- Never,
             Processes <- {}, GearLimits <- {}, object <- 0, asked <- 0, core <- 0,
             call <- 0, by <- 0, before <- 0

\* The other assumptions of those modules.
LEMMA InstanceAssumptions ==
    ASSUME Proved!ConstantAssumption
    PROVE  Proved!SchemeAssumption /\ Proved!ProcessAssumption
<1>1. Proved!SchemeAssumption
  BY DEF Proved!ConstantAssumption, Proved!SchemeAssumption, Proved!ADL_TURBO
<1>2. Proved!ProcessAssumption
  BY DEF Proved!ProcessAssumption
<1> QED
  BY <1>1, <1>2

\* The two instances say the same of every state and step, word for word.
LEMMA SameLimiter ==
    /\ FL!Init => Proved!Init
    /\ FL!Next => Proved!Next
    /\ UNCHANGED FL!vars => UNCHANGED Proved!vars
    /\ Proved!NeverStarved => FL!NeverStarved
    /\ Proved!AppliedIsIntended => FL!AppliedIsIntended
<1>1. FL!Init => Proved!Init
  BY Zenon
  DEF FL!Init, Proved!Init, FL!MachineInit, Proved!MachineInit, FL!Core, Proved!Core,
      FL!PCORE, Proved!PCORE,
      FL!ECORE, Proved!ECORE
<1>2. FL!Next => Proved!Next
  BY Zenon
  DEF FL!Next, Proved!Next, FL!Construct, Proved!Construct, FL!CalculateFrequency,
      Proved!CalculateFrequency, FL!IsIntelHybrid, Proved!IsIntelHybrid,
      FL!Release, Proved!Release, FL!SetLimits, Proved!SetLimits,
      FL!SetCoreMaxFrequency, Proved!SetCoreMaxFrequency, FL!GearDown,
      Proved!GearDown, FL!GearDownStep, Proved!GearDownStep, FL!GearDownBottom,
      Proved!GearDownBottom, FL!GearDownIgnored, Proved!GearDownIgnored,
      FL!MayGearDown, Proved!MayGearDown, FL!ValidCount, Proved!ValidCount,
      FL!Clamp, Proved!Clamp, FL!AtFloor, Proved!AtFloor, FL!OffsetFor,
      Proved!OffsetFor, FL!WriteGear, Proved!WriteGear, FL!Minus, Proved!Minus,
      FL!GearUp, Proved!GearUp, FL!GearUpStep, Proved!GearUpStep, FL!GearUpTop,
      Proved!GearUpTop, FL!GearUpIgnored, Proved!GearUpIgnored, FL!MayGearUp,
      Proved!MayGearUp, FL!DcAfterUp, Proved!DcAfterUp, FL!Destroy,
      Proved!Destroy, FL!Vanish, Proved!Vanish, FL!Crash, Proved!Crash,
      FL!vars, Proved!vars,
      FL!machine, Proved!machine, FL!members, Proved!members, FL!Released,
      Proved!Released, FL!PCORE, Proved!PCORE, FL!ECORE, Proved!ECORE, FL!Core,
      Proved!Core, FL!MAX_KNOBS, Proved!MAX_KNOBS, FL!FLOOR, Proved!FLOOR,
      FL!DC_OFFSET, Proved!DC_OFFSET, FL!ECORE_OFFSET, Proved!ECORE_OFFSET
<1>3. UNCHANGED FL!vars => UNCHANGED Proved!vars
  BY Zenon
  DEF FL!vars, Proved!vars, FL!machine, Proved!machine, FL!members, Proved!members
<1>4. Proved!NeverStarved => FL!NeverStarved
  BY Zenon
  DEF FL!NeverStarved, Proved!NeverStarved, FL!SoundPower, Proved!SoundPower,
      FL!SoundLimits, Proved!SoundLimits, FL!InRange, Proved!InRange,
      FL!WrappedLimits, Proved!WrappedLimits, FL!ECORE_OFFSET,
      Proved!ECORE_OFFSET, FL!DC_OFFSET, Proved!DC_OFFSET, FL!Core, Proved!Core,
      FL!PCORE, Proved!PCORE, FL!ECORE, Proved!ECORE
<1>5. Proved!AppliedIsIntended => FL!AppliedIsIntended
  BY Zenon
  DEF FL!AppliedIsIntended, Proved!AppliedIsIntended, FL!PolicyMatchesMembers,
      Proved!PolicyMatchesMembers, FL!PolicyFollowsGear, Proved!PolicyFollowsGear,
      FL!GetCoreMaxFrequency, Proved!GetCoreMaxFrequency,
      FL!NON_HYBRID_CORE_ECORE_REQUEST, Proved!NON_HYBRID_CORE_ECORE_REQUEST,
      FL!Minus, Proved!Minus, FL!Released, Proved!Released, FL!MAX_KNOBS,
      Proved!MAX_KNOBS, FL!FLOOR, Proved!FLOOR, FL!ECORE_OFFSET,
      Proved!ECORE_OFFSET, FL!DC_OFFSET, Proved!DC_OFFSET, FL!Core, Proved!Core,
      FL!PCORE, Proved!PCORE, FL!ECORE, Proved!ECORE
<1> QED
  BY <1>1, <1>2, <1>3, <1>4, <1>5

\* What threads report never makes the machine run at anything but the gear their
\* hints have led to, nor below the floor (less the offsets): the proofs about the
\* limiter alone carry over to the whole way.  (The hypotheses are FrequencyLimiter's
\* assumptions on its constants.)
THEOREM HintsKeepThePolicy ==
    ASSUME Proved!ConstantAssumption, Proved!FrequencyAssumption, Proved!ScaledAssumption
    PROVE  Spec => [](FL!NeverStarved /\ FL!AppliedIsIntended)
<1>1. Proved!Spec => []Proved!NeverStarved
  <2>1. \A l \in {0} : Proved!InRange(l, 900)
    BY DEF Proved!InRange
  <2> QED
    BY <2>1, InstanceAssumptions, Proved!LimitsNeverStarve, PTL
<1>2. Proved!Spec => []Proved!AppliedIsIntended
  BY InstanceAssumptions, Proved!PolicyAsIntended, PTL
<1> QED
  BY <1>1, <1>2, SameLimiter, HintsDriveTheLimiter, PTL DEF FL!Spec, Proved!Spec

-----------------------------------------------------------------------------
(* The regulator that threads, pipes, provider and limiter add up to. *)

Same(policy) == [scheme |-> policy, applied |-> policy]

Level  == IF alive THEN gear ELSE 100
Levels == {0, 10, 20, 30, 40, 50, 60, 70, 80, 90, 100}

\* The remembered AC frequency of a level that has a limit.
AcOf(level) == IF Promise!High(level) > 1000 THEN Promise!High(level) ELSE 1000

\* The level decides what the limiter remembers and what is stored and applied:
\* hints come in a way that leaves no trace of how the level was reached.
Governing ==
    /\ isHybrid \in BOOLEAN
    /\ IF alive THEN maxFrequency \in MaxFrequencies ELSE gear = 0
    /\ Level \in Levels
    /\ ac = IF Level = 100 THEN 0 ELSE AcOf(Level)
    /\ power = Same(Promise!LimitOf(Level))

\* No hint is older than MaxDelay, and nobody sends or serves too early.
Timely ==
    /\ \A t \in Trackers : NoneBefore(pipe[t], Horizon - MaxDelay)
    /\ \A t \in Trackers : pipe[t] # <<>> => alive
    /\ receivers # {} => exists
    /\ ~exists => last_update = 0 /\ last_capacity = 0

\* FrequencyLimiter's assumptions, on a machine whose frequency is known.
Measured ==
    /\ Proved!ConstantAssumption /\ Proved!FrequencyAssumption /\ Proved!ScaledAssumption
    /\ 0 \notin MaxFrequencies

LEMMA LimitOfTop == Promise!LimitOf(100) = Promise!Both(Promise!Pair(0, 0), Promise!Pair(0, 0))
BY DEF Promise!LimitOf, Promise!NoLimit

\* A machine that is not hybrid has no limit for its E cores.
LEMMA NoECoreLimit ==
    ASSUME NEW l, ~isHybrid
    PROVE  \E p : Promise!LimitOf(l) = Promise!Both(p, Promise!Pair(0, 0))
BY DEF Promise!LimitOf, Promise!NoLimit

\* A write reaches the scheme and the machine, whole.
LEMMA WriteReaches ==
    ASSUME NEW f, NEW core, NEW l
    PROVE  FL!SetCoreMaxFrequency(Same(f), core, l) = {Same([f EXCEPT ![core] = l])}
BY DEF FL!SetCoreMaxFrequency, Never, Same

LEMMA OneCoreWritten ==
    ASSUME NEW p, NEW e, NEW l
    PROVE  /\ [Promise!Both(p, e) EXCEPT ![0] = l] = Promise!Both(l, e)
           /\ [Promise!Both(p, e) EXCEPT ![1] = l] = Promise!Both(p, l)
<1> DEFINE S == {p, e, l}
           f == Promise!Both(p, e)
<1>1. f \in [{0, 1} -> S] /\ f[0] = p /\ f[1] = e
  BY DEF Promise!Both
<1>2. /\ Promise!Both(l, e) \in [{0, 1} -> S] /\ Promise!Both(l, e)[0] = l /\ Promise!Both(l, e)[1] = e
      /\ Promise!Both(p, l) \in [{0, 1} -> S] /\ Promise!Both(p, l)[0] = p /\ Promise!Both(p, l)[1] = l
  BY DEF Promise!Both
<1>3. l \in S
  OBVIOUS
<1> HIDE DEF f, S
<1>4. /\ [f EXCEPT ![0] = l] \in [{0, 1} -> S] /\ [f EXCEPT ![0] = l][0] = l /\ [f EXCEPT ![0] = l][1] = e
      /\ [f EXCEPT ![1] = l] \in [{0, 1} -> S] /\ [f EXCEPT ![1] = l][0] = p /\ [f EXCEPT ![1] = l][1] = l
  BY <1>1, <1>3
<1>5. \A g, h \in [{0, 1} -> S] : g[0] = h[0] /\ g[1] = h[1] => g = h
  OBVIOUS
<1> QED
  BY <1>2, <1>4, <1>5 DEF f

LEMMA WritesReach ==
    ASSUME NEW l, isHybrid \in BOOLEAN, power = Same(Promise!LimitOf(l)), NEW pl, NEW el,
           NEW q \in FL!SetLimits(power, pl, el)
    PROVE  q = Same(Promise!Both(pl, IF isHybrid THEN el ELSE Promise!Pair(0, 0)))
<1> DEFINE scheme == power.scheme
           first == [scheme EXCEPT ![0] = pl]
           both == [first EXCEPT ![1] = el]
<1>1. PICK p, e : scheme = Promise!Both(p, e) /\ (~isHybrid => e = Promise!Pair(0, 0))
  <2>1. scheme = Promise!LimitOf(l)
    BY DEF Same
  <2>2. \E p, e : Promise!LimitOf(l) = Promise!Both(p, e)
    BY DEF Promise!LimitOf, Promise!NoLimit
  <2> QED
    BY <2>1, <2>2, NoECoreLimit
<1>2. first = Promise!Both(pl, e) /\ both = Promise!Both(pl, el)
  <2> HIDE DEF scheme
  <2>1. first = Promise!Both(pl, e)
    BY <1>1, OneCoreWritten
  <2> HIDE DEF first
  <2> QED
    BY <2>1, OneCoreWritten
<1>3. FL!SetCoreMaxFrequency(power, 0, pl) = {Same(first)}
  <2>1. power = Same(scheme)
    BY DEF Same
  <2> HIDE DEF scheme
  <2> QED
    BY <2>1, WriteReaches
<1> HIDE DEF scheme, first
<1>4. FL!SetCoreMaxFrequency(Same(first), 1, el) = {Same(both)}
  BY WriteReaches
<1> HIDE DEF both
<1>5. FL!SetLimits(power, pl, el) = IF isHybrid THEN {Same(both)} ELSE {Same(first)}
  BY <1>3, <1>4 DEF FL!SetLimits, FL!PCORE, FL!ECORE
<1> QED
  BY <1>1, <1>2, <1>5

LEMMA ReleaseReaches ==
    ASSUME NEW l, isHybrid \in BOOLEAN, power = Same(Promise!LimitOf(l)), FL!Release
    PROVE  power' = Same(Promise!LimitOf(100))
<1>1. FL!Released = Promise!Pair(0, 0)
  BY DEF FL!Released, Promise!Pair
<1>2. power' = Same(Promise!Both(Promise!Pair(0, 0), IF isHybrid THEN Promise!Pair(0, 0)
                                                              ELSE Promise!Pair(0, 0)))
  BY <1>1, WritesReach DEF FL!Release
<1> QED
  BY <1>2, LimitOfTop

\* The frequency of each level that has one is positive.
LEMMA HighKnown ==
    ASSUME Measured, maxFrequency \in MaxFrequencies, NEW l \in Levels, l # 100
    PROVE  /\ Promise!High(l) \in Nat /\ Promise!High(l) > 0
           /\ l # 0 => Promise!High(l) = Scaled[maxFrequency][l]
           /\ l \in {0, 10} => Promise!High(l) = Scaled[maxFrequency][10]
<1> DEFINE g == Promise!Higher(l, 10)
<1>1. /\ g \in Proved!Gears /\ g # 0 /\ (l # 0 => g = l) /\ (l \in {0, 10} => g = 10)
  BY DEF Levels, Promise!Higher, Proved!Gears, Proved!MAX_KNOBS
<1>2. maxFrequency # 0
  BY DEF Measured
<1>3. Scaled[maxFrequency][g] \in Nat /\ 0 < Scaled[maxFrequency][g]
  BY <1>1, <1>2, InstanceAssumptions, Proved!ScaledBounds DEF Measured
<1> QED
  BY <1>1, <1>3 DEF Promise!High

-----------------------------------------------------------------------------
\* A decision to release lifts every limit, from any level.
LEMMA UpToTop ==
    ASSUME Measured, Governing, alive, FL!GearUp(100)
    PROVE  Governing' /\ gear' = 100
<1>1. gear \in Levels /\ Level = gear /\ gear \in Nat
  BY DEF Governing, Level, Levels
<1>2. CASE FL!GearUpStep(100)
  BY <1>1, <1>2 DEF FL!GearUpStep, FL!MAX_KNOBS
<1>3. CASE FL!GearUpTop(100)
  <2>1. /\ alive' /\ gear' = 100 /\ ac' = 0 /\ isHybrid' = isHybrid /\ maxFrequency' = maxFrequency
        /\ FL!Release
    BY <1>3 DEF FL!GearUpTop, FL!MayGearUp, FL!machine, FL!MAX_KNOBS
  <2>2. power' = Same(Promise!LimitOf(100))
    BY <2>1, ReleaseReaches DEF Governing
  <2>3. Level' = 100 /\ 100 \in Levels
    BY <2>1 DEF Level, Levels
  <2>4. power' = Same(Promise!LimitOf(100)')
    BY <2>2, LimitOfTop DEF Promise!LimitOf, Promise!NoLimit
  <2> QED
    BY <2>1, <2>3, <2>4 DEF Governing
<1>4. CASE FL!GearUpIgnored(100)
  <2>1. ac = 0 /\ UNCHANGED FL!vars
    BY <1>4 DEF FL!GearUpIgnored, FL!MayGearUp, FL!ValidCount, FL!MAX_KNOBS
  <2>2. gear = 100
    <3> SUFFICES ASSUME gear # 100 PROVE FALSE
      OBVIOUS
    <3>1. ac = AcOf(gear) /\ Promise!High(gear) \in Nat
      BY <1>1, HighKnown DEF Governing
    <3> QED
      BY <2>1, <3>1 DEF AcOf
  <2>3. UNCHANGED limiter
    BY <2>1 DEF FL!vars, FL!machine, FL!members, limiter
  <2> QED
    BY <2>2, <2>3 DEF Governing, limiter, Level, AcOf, Promise!LimitOf, Promise!High, Promise!NoLimit
<1> QED
  BY <1>2, <1>3, <1>4 DEF FL!GearUp

\* What a shift down writes is the policy of the level it ends in.
LEMMA LevelWritten ==
    ASSUME Measured, Governing, alive, maxFrequency \in MaxFrequencies,
           NEW l \in Levels, l # 100, NEW a, NEW d, NEW e,
           FL!WriteGear(a, d, e),
           IF Promise!High(l) > 1000
           THEN a = Promise!High(l) /\ d = FL!Minus(a, 200) /\ e = 100
           ELSE a = 1000 /\ d = FL!Minus(a, 0) /\ e = 0
    PROVE  a = AcOf(l) /\ power' = Same(Promise!LimitOf(l))
<1> DEFINE h == Promise!High(l)
<1>1. h \in Nat /\ isHybrid \in BOOLEAN /\ power = Same(Promise!LimitOf(Level))
  BY HighKnown DEF Governing
<1>2. power' = Same(Promise!Both(Promise!Pair(a, d),
                  IF isHybrid THEN Promise!Pair(FL!Minus(a, e), FL!Minus(d, e)) ELSE Promise!Pair(0, 0)))
  BY <1>1, WritesReach DEF FL!WriteGear, Promise!Pair
<1>3. CASE h > 1000
  <2> HIDE DEF h
  <2>1. a = h /\ d = h - 200 /\ FL!Minus(a, e) = h - 100 /\ FL!Minus(d, e) = (h - 100) - 200
    BY <1>1, <1>3 DEF FL!Minus, h
  <2>2. Promise!LimitOf(l) = Promise!Both(Promise!Pair(h, h - 200),
             IF isHybrid THEN Promise!Pair(h - 100, (h - 100) - 200) ELSE Promise!Pair(0, 0))
    BY <1>3 DEF Promise!LimitOf, h
  <2> QED
    BY <1>2, <1>3, <2>1, <2>2 DEF AcOf, h
<1>4. CASE ~(h > 1000)
  <2>1. a = 1000 /\ d = 1000 /\ FL!Minus(a, e) = 1000 /\ FL!Minus(d, e) = 1000
    BY <1>4 DEF FL!Minus
  <2>2. Promise!LimitOf(l) = Promise!Both(Promise!Pair(1000, 1000),
             IF isHybrid THEN Promise!Pair(1000, 1000) ELSE Promise!Pair(0, 0))
    BY <1>4 DEF Promise!LimitOf
  <2> QED
    BY <1>2, <1>4, <2>1, <2>2 DEF AcOf
<1> QED
  BY <1>3, <1>4

\* A decision to limit comes down by one step, unless the machine is at the floor.
LEMMA DownByStep ==
    ASSUME Measured, Governing, alive, FL!GearDown(10)
    PROVE  /\ Governing'
           /\ gear' = IF gear = 100 \/ Promise!High(gear) > 1000
                      THEN Promise!Higher(gear - 10, 0) ELSE gear
<1>1. /\ gear \in Levels /\ Level = gear /\ gear \in Nat /\ maxFrequency \in MaxFrequencies
      /\ ac = IF gear = 100 THEN 0 ELSE AcOf(gear)
  BY DEF Governing, Level, Levels
<1>2. gear # 100 => Promise!High(gear) \in Nat
  BY <1>1, HighKnown
<1>3. FL!MayGearDown(10) <=> (gear = 100 \/ Promise!High(gear) > 1000)
  <2>1. FL!ValidCount(10)
    BY DEF FL!ValidCount, FL!MAX_KNOBS
  <2>2. FL!MayGearDown(10) <=> (ac = 0 \/ ac > 1000)
    BY <2>1 DEF FL!MayGearDown, FL!FLOOR
  <2> QED
    BY <1>1, <1>2, <2>2 DEF AcOf
<1>4. ASSUME NEW l \in Levels, l # 100, alive', isHybrid' = isHybrid, maxFrequency' = maxFrequency,
             gear' = l, ac' = AcOf(l), power' = Same(Promise!LimitOf(l))
      PROVE  Governing'
  <2>1. Level' = l
    BY <1>4 DEF Level
  <2>2. /\ AcOf(l) = AcOf(Level)'
        /\ Promise!LimitOf(l) = Promise!LimitOf(Level)'
    BY <1>4, <2>1 DEF AcOf, Promise!LimitOf, Promise!High, Promise!NoLimit
  <2> QED
    BY <1>1, <1>4, <2>1, <2>2 DEF Governing, Same
<1>5. CASE FL!GearDownStep(10)
  <2> DEFINE scaled == Scaled[maxFrequency][gear - 10]
  <2>1. PICK l \in Levels : l = gear - 10 /\ l # 100 /\ l # 0
    <3>1. gear - 10 > 0
      BY <1>5 DEF FL!GearDownStep
    <3> QED
      BY <1>1, <3>1 DEF Levels
  <2>2. scaled = Promise!High(l) /\ scaled \in Nat /\ scaled > 0
    BY <1>1, <2>1, HighKnown
  <2>3. /\ alive' /\ isHybrid' = isHybrid /\ maxFrequency' = maxFrequency /\ gear' = l
        /\ ac' = FL!Clamp(scaled) /\ dc' = FL!Minus(ac', FL!OffsetFor(scaled, 200))
        /\ FL!WriteGear(ac', dc', FL!OffsetFor(scaled, 100))
        /\ FL!MayGearDown(10)
    BY <1>5, <2>1 DEF FL!GearDownStep, FL!machine, FL!DC_OFFSET, FL!ECORE_OFFSET
  <2> HIDE DEF scaled
  <2>4. ac' = AcOf(l) /\ power' = Same(Promise!LimitOf(l))
    <3>1. CASE scaled > 1000
      <4>1. ac' = scaled /\ FL!OffsetFor(scaled, 200) = 200 /\ FL!OffsetFor(scaled, 100) = 100
        BY <2>2, <2>3, <3>1 DEF FL!Clamp, FL!AtFloor, FL!OffsetFor, FL!FLOOR
      <4> QED
        BY <1>1, <2>1, <2>2, <2>3, <3>1, <4>1, LevelWritten
    <3>2. CASE ~(scaled > 1000)
      <4>1. ac' = 1000 /\ FL!OffsetFor(scaled, 200) = 0 /\ FL!OffsetFor(scaled, 100) = 0
        BY <2>2, <2>3, <3>2 DEF FL!Clamp, FL!AtFloor, FL!OffsetFor, FL!FLOOR
      <4> QED
        BY <1>1, <2>1, <2>2, <2>3, <3>2, <4>1, LevelWritten
    <3> QED
      BY <3>1, <3>2
  <2>5. Promise!Higher(gear - 10, 0) = l
    BY <2>1 DEF Promise!Higher, Levels
  <2> QED
    BY <1>3, <1>4, <2>1, <2>3, <2>4, <2>5
<1>6. CASE FL!GearDownBottom(10)
  <2>1. gear \in {0, 10}
    BY <1>1, <1>6 DEF FL!GearDownBottom, Levels
  <2>2. /\ alive' /\ isHybrid' = isHybrid /\ maxFrequency' = maxFrequency /\ gear' = 0
        /\ ac' = (IF ac = 0 THEN maxFrequency ELSE ac)
        /\ dc' = FL!Minus(ac', IF ac' > 1000 THEN 200 ELSE 0)
        /\ FL!WriteGear(ac', dc', IF ac' > 1000 THEN 100 ELSE 0)
        /\ FL!MayGearDown(10)
    BY <1>6 DEF FL!GearDownBottom, FL!MayGearDown, FL!machine, FL!DC_OFFSET, FL!ECORE_OFFSET, FL!FLOOR
  <2>3. 0 \in Levels /\ Promise!High(0) = Promise!High(gear)
    BY <1>1, <2>1, HighKnown DEF Levels
  <2>4. Promise!High(0) > 1000 /\ Promise!High(0) \in Nat /\ ac = Promise!High(0)
    BY <1>1, <1>2, <1>3, <2>1, <2>2, <2>3 DEF AcOf
  <2>5. ac' = Promise!High(0)
    BY <2>2, <2>4
  <2>6. ac' = AcOf(0) /\ power' = Same(Promise!LimitOf(0))
    BY <1>1, <2>2, <2>3, <2>4, <2>5, LevelWritten
  <2>7. Promise!Higher(gear - 10, 0) = 0
    BY <2>1 DEF Promise!Higher
  <2> QED
    BY <1>3, <1>4, <2>2, <2>3, <2>6, <2>7
<1>7. CASE FL!GearDownIgnored(10)
  <2>1. ~FL!MayGearDown(10) /\ UNCHANGED limiter
    BY <1>7 DEF FL!GearDownIgnored, FL!vars, FL!machine, FL!members, limiter
  <2> QED
    BY <1>3, <2>1
    DEF Governing, limiter, Level, AcOf, Promise!LimitOf, Promise!High, Promise!NoLimit
<1> QED
  BY <1>5, <1>6, <1>7 DEF FL!GearDown

-----------------------------------------------------------------------------
(* The steps of the whole way, seen as decisions. *)

LEMMA LevelKept == Governing /\ UNCHANGED limiter => Governing'
BY DEF Governing, limiter, Level, AcOf, Promise!LimitOf, Promise!High, Promise!NoLimit

\* The constructor finds no limit and leaves none.
LEMMA StartedAtTop ==
    ASSUME Governing, FL!Construct
    PROVE  Governing' /\ UNCHANGED power /\ gear' = 100 /\ maxFrequency' \in MaxFrequencies /\ ~alive
<1>1. /\ ~alive /\ alive' /\ gear' = 100 /\ ac' = ac /\ isHybrid' = isHybrid
      /\ maxFrequency' \in MaxFrequencies /\ FL!Release
  BY DEF FL!Construct, FL!MAX_KNOBS, FL!CalculateFrequency, FL!IsIntelHybrid, FL!machine
<1>2. Level = 100 /\ Level' = 100 /\ 100 \in Levels
  BY <1>1 DEF Level, Levels
<1>3. power = Same(Promise!LimitOf(100)) /\ power' = Same(Promise!LimitOf(100)) /\ ac = 0
  BY <1>1, <1>2, ReleaseReaches DEF Governing
<1>4. Promise!LimitOf(100) = Promise!LimitOf(100)'
  BY LimitOfTop DEF Promise!LimitOf, Promise!NoLimit
<1> QED
  BY <1>1, <1>2, <1>3, <1>4 DEF Governing

\* What a delivered hint does to the provider and the limiter: nothing, or it is
\* remembered, or it decides.
LEMMA Delivered ==
    ASSUME Measured, Governing, Typed, alive, NEW u \in Trackers, NEW hint \in Hint,
           NEW actuation \in DSP!Call, Actuate(actuation),
           DSP!SubmitTaskCapacityHint(u, hint.tick, 1, hint.capacity, actuation)
    PROVE  /\ Governing' /\ UNCHANGED <<exists, receivers, alive, isHybrid, maxFrequency>>
           /\ \/ UNCHANGED <<last_update, last_capacity, limiter>>
              \/ /\ last_capacity' = Promise!Higher(hint.capacity, last_capacity)
                 /\ UNCHANGED <<last_update, limiter>>
              \/ /\ hint.tick - last_update > UpdateInterval
                 /\ gear' = Promise!Shifted(Promise!Higher(hint.capacity, last_capacity))
                 /\ last_capacity' = 0 /\ last_update' = hint.tick
<1> DEFINE peak == Promise!Higher(hint.capacity, last_capacity)
<1>1. UNCHANGED <<exists, receivers>>
  BY DEF DSP!SubmitTaskCapacityHint, DSP!binding
<1>2. DSP!Peak(hint.capacity) = peak
  BY DEF DSP!Peak, Promise!Higher
<1>3. CASE DSP!Reject(hint.tick, actuation)
  <2>1. UNCHANGED limiter /\ UNCHANGED <<last_update, last_capacity>>
    BY <1>3 DEF DSP!Reject, DSP!NoCall, DSP!hints, Actuate
  <2> QED
    BY <1>1, <2>1, LevelKept DEF limiter
<1>4. CASE DSP!Accumulate(hint.tick, hint.capacity, actuation)
  <2>1. UNCHANGED limiter /\ last_capacity' = peak /\ UNCHANGED last_update
    BY <1>2, <1>4 DEF DSP!Accumulate, DSP!NoCall, Actuate
  <2> QED
    BY <1>1, <2>1, LevelKept DEF limiter
<1>5. CASE DSP!Close(hint.tick, 1, hint.capacity, actuation)
  <2>1. /\ hint.tick - last_update > UpdateInterval /\ last_update' = hint.tick /\ last_capacity' = 0
        /\ actuation = DSP!Actuation(peak, 1)
    BY <1>2, <1>5 DEF DSP!Close, DSP!Closes, DSP!CapacityAfterClose, DSP!kCapacityIdle
  <2> HIDE DEF peak
  <2>2. gear = Level /\ Level \in Levels
    BY DEF Level, Governing
  <2>3. Promise!Shifted(peak) =
           CASE peak = 3 -> 100
             [] peak \in {0, 1} /\ (gear = 100 \/ Promise!High(gear) > 1000) ->
                  Promise!Higher(gear - 10, 0)
             [] OTHER -> gear
    BY <2>2 DEF Promise!Shifted, Promise!Over, Promise!Idle, Level
  <2>4. CASE peak = 3
    <3>1. actuation.op = "GearUp"
      BY <2>1, <2>4 DEF DSP!Actuation, DSP!kCapacityOver, DSP!kCapacityUnder, DSP!kCapacityIdle
    <3>2. FL!GearUp(100)
      BY <3>1 DEF Actuate
    <3>3. Governing' /\ gear' = 100 /\ UNCHANGED <<alive, isHybrid, maxFrequency>>
      BY <3>2, UpToTop DEF FL!GearUp, FL!GearUpStep, FL!GearUpTop, FL!GearUpIgnored, FL!vars,
                          FL!machine, FL!members
    <3> QED
      BY <1>1, <2>1, <2>3, <2>4, <3>3 DEF peak
  <2>5. CASE peak \in {0, 1}
    <3>1. actuation.op = "GearDown"
      BY <2>1, <2>5 DEF DSP!Actuation, DSP!kCapacityOver, DSP!kCapacityUnder, DSP!kCapacityIdle
    <3>2. FL!GearDown(10)
      BY <3>1 DEF Actuate
    <3>3. /\ Governing' /\ UNCHANGED <<alive, isHybrid, maxFrequency>>
          /\ gear' = IF gear = 100 \/ Promise!High(gear) > 1000
                      THEN Promise!Higher(gear - 10, 0) ELSE gear
      BY <3>2, DownByStep DEF FL!GearDown, FL!GearDownStep, FL!GearDownBottom, FL!GearDownIgnored,
                          FL!vars, FL!machine, FL!members
    <3>4. gear' = Promise!Shifted(peak)
      BY <2>3, <2>5, <3>3
    <3> QED
      BY <1>1, <2>1, <3>3, <3>4 DEF peak
  <2>6. CASE peak \notin {0, 1, 3}
    <3>1. actuation = DSP!NoCall
      BY <2>1, <2>6 DEF DSP!Actuation, DSP!kCapacityOver, DSP!kCapacityUnder, DSP!kCapacityIdle
    <3>2. UNCHANGED limiter
      BY <3>1 DEF Actuate, DSP!NoCall
    <3>3. gear' = Promise!Shifted(peak)
      BY <2>3, <2>6, <3>2 DEF limiter
    <3> QED
      BY <1>1, <2>1, <3>2, <3>3, LevelKept DEF limiter, peak
  <2> QED
    BY <2>4, <2>5, <2>6
<1> QED
  BY <1>3, <1>4, <1>5 DEF DSP!SubmitTaskCapacityHint

-----------------------------------------------------------------------------
\* A step of the way from load to frequency is a decision, something heard, a
\* start or an ageing of the one regulator, or nothing at all.
LEMMA StepGoverns ==
    ASSUME Measured, PipesInv, PipesInv', Governing, Timely, [Next]_vars
    PROVE  Governing' /\ Timely' /\ [Promise!Next]_(Promise!vars)
<1> USE PipelineAssumption
<1>0. /\ pipe \in [Trackers -> Seq(Hint)] /\ last_update \in 0 .. Horizon
      /\ \A t \in Trackers : NoneBefore(pipe[t], Horizon - MaxDelay)
      /\ Horizon - MaxDelay \in 1 .. Horizon
  BY DEF PipesInv, Typed, Timely
<1>1. UNCHANGED <<exists, last_update, last_capacity, limiter>> => UNCHANGED Promise!vars
  BY DEF Promise!vars, limiter
<1>2. CASE UNCHANGED vars
  <2>1. UNCHANGED <<pipe, exists, receivers, last_update, last_capacity, limiter, alive>>
    BY <1>2 DEF vars, provider, limiter
  <2> QED
    BY <1>1, <2>1, LevelKept DEF Timely
<1>3. CASE StartBrowser
  <2>1. /\ UNCHANGED <<pipe, exists, receivers, last_update, last_capacity>> /\ FL!Construct
        /\ alive' /\ isHybrid' = isHybrid
    BY <1>3 DEF StartBrowser, provider, FL!Construct, FL!IsIntelHybrid, FL!machine
  <2>2. Governing' /\ UNCHANGED power /\ gear' = 100 /\ maxFrequency' \in MaxFrequencies /\ ~alive
    BY <2>1, StartedAtTop
  <2>3. Promise!Start
    BY <2>1, <2>2 DEF Promise!Start
  <2> QED
    BY <2>1, <2>2, <2>3 DEF Timely, Promise!Next
<1>4. CASE PassTick
  <2>1. /\ pipe' = [t \in Trackers |-> Aged(pipe[t])] /\ last_update' = Older(last_update)
        /\ UNCHANGED <<exists, receivers, last_capacity, limiter>>
        /\ \A t \in Trackers : \A i \in DOMAIN pipe[t] : pipe[t][i].tick > Horizon - MaxDelay
    BY <1>4 DEF PassTick, Aged
  <2>2. ASSUME NEW t \in Trackers
        PROVE  NoneBefore(pipe'[t], Horizon - MaxDelay) /\ (pipe'[t] # <<>> => pipe[t] # <<>>)
    <3>1. pipe[t] \in Seq(Hint) /\ pipe'[t] = Aged(pipe[t])
      BY <1>0, <2>1
    <3>2. PICK n \in Nat : n = Len(pipe[t]) /\ DOMAIN pipe[t] = 1 .. n
      BY <3>1, LenProperties
    <3>3. pipe'[t] \in Seq(Hint) /\ DOMAIN pipe'[t] = 1 .. n
      BY <1>0, <3>1, <3>2, OrderAfterTick DEF PipesInv, Aged
    <3>4. Len(pipe'[t]) = n
      BY <3>2, <3>3, LenProperties
    <3>5. ASSUME NEW i \in 1 .. n PROVE Horizon - MaxDelay <= pipe'[t][i].tick
      <4>1. pipe[t][i] \in Hint /\ pipe[t][i].tick \in 0 .. Horizon /\ pipe[t][i].tick > Horizon - MaxDelay
        <5>1. pipe[t][i] \in Hint
          BY <3>1, <3>2, LenProperties
        <5> QED
          BY <2>1, <3>2, <5>1 DEF Hint
      <4>2. pipe'[t][i].tick = Older(pipe[t][i].tick)
        BY <3>1, <3>2, <4>1 DEF Aged, Hint
      <4> QED
        BY <1>0, <4>1, <4>2 DEF Older
    <3>6. n = 0 => pipe'[t] = <<>>
      BY <3>3, <3>4, EmptySeq
    <3>7. n # 0 => pipe[t] # <<>>
      BY <3>1, <3>2, EmptySeq
    <3> QED
      BY <3>4, <3>5, <3>6, <3>7 DEF NoneBefore
  <2>3. Timely'
    <3>1. ~exists => last_update' = 0
      BY <2>1 DEF Timely, Older
    <3> QED
      BY <2>1, <2>2, <3>1 DEF Timely, limiter
  <2>4. Promise!Age \/ UNCHANGED Promise!vars
    <3>1. CASE last_update = 0
      BY <1>1, <2>1, <3>1 DEF Older
    <3>2. CASE last_update # 0
      <4>1. /\ Horizon - last_update < Horizon
            /\ Horizon - last_update' = (Horizon - last_update) + 1
        <5>1. /\ last_update \in Nat \ {0} /\ Horizon \in Nat
              /\ last_update' = last_update - 1
          <6>1. last_update \in 0 .. Horizon /\ Horizon \in Nat
            BY <1>0
          <6>2. last_update' = last_update - 1
            BY <2>1, <3>2 DEF Older
          <6> QED
            BY <3>2, <6>1, <6>2
        <5>2. \A u \in Nat \ {0}, h \in Nat : h - u < h /\ h - (u - 1) = (h - u) + 1
          OBVIOUS
        <5> QED
          BY <5>1, <5>2, Zenon
      <4> QED
        BY <2>1, <4>1 DEF Promise!Age, limiter
    <3> QED
      BY <3>1, <3>2
  <2> QED
    BY <2>1, <2>3, <2>4, LevelKept DEF Promise!Next
<1>5. ASSUME NEW u \in Trackers, Report(u)
      PROVE  Governing' /\ Timely' /\ UNCHANGED Promise!vars
  <2>1. /\ UNCHANGED <<exists, receivers, last_update, last_capacity, limiter>> /\ alive /\ alive'
    BY <1>5 DEF Report, provider, limiter
  <2>2. PICK load \in Loads, hint \in DC!HintsAt(u, Horizon) :
          pipe' = IF hint = DC!NoHint THEN pipe ELSE [pipe EXCEPT ![u] = Put(@, hint)]
    BY <1>5 DEF Report
  <2>3. \A t \in Trackers : NoneBefore(pipe'[t], Horizon - MaxDelay)
    <3>1. CASE hint = DC!NoHint
      BY <1>0, <2>2, <3>1
    <3>2. CASE hint # DC!NoHint
      <4>1. hint \in Hint /\ hint.tick = Horizon
        BY <3>2 DEF DC!HintsAt, Hint
      <4>2. pipe[u] \in Seq(Hint) /\ InOrder(pipe[u]) /\ Horizon - MaxDelay \in 0 .. Horizon
        BY <1>0 DEF PipesInv
      <4>3. NoneBefore(Put(pipe[u], hint), Horizon - MaxDelay)
        BY <1>0, <4>1, <4>2, OrderAfterPut
      <4> QED
        BY <1>0, <2>2, <3>2, <4>3
    <3> QED
      BY <3>1, <3>2
  <2>4. Timely'
    BY <2>1, <2>3 DEF Timely
  <2> QED
    BY <1>1, <2>1, <2>4, LevelKept
<1>6. ASSUME NEW u \in Trackers, Connect(u)
      PROVE  Governing' /\ Timely' /\ (Promise!Serve \/ UNCHANGED Promise!vars)
  <2>1. UNCHANGED <<pipe, limiter>> /\ DSP!CreateOnDemand
    BY <1>6 DEF Connect, DSP!Bind
  <2>2. CASE exists
    <3>1. UNCHANGED <<exists, last_update, last_capacity>>
      BY <2>1, <2>2 DEF DSP!CreateOnDemand, DSP!hints
    <3> QED
      BY <1>1, <2>1, <2>2, <3>1, LevelKept DEF Timely, limiter
  <2>3. CASE ~exists
    <3>1. /\ exists' = TRUE /\ last_update' = last_update /\ last_capacity' \in GarbageCapacities
      BY <2>1, <2>3 DEF DSP!CreateOnDemand, Timely
    <3>2. Promise!Serve
      BY <2>1, <2>3, <3>1 DEF Promise!Serve, limiter
    <3> QED
      BY <2>1, <3>1, <3>2, LevelKept DEF Timely, limiter
  <2> QED
    BY <2>2, <2>3
<1>7. ASSUME NEW u \in Trackers, Deliver(u)
      PROVE  Governing' /\ Timely' /\ [Promise!Next]_(Promise!vars)
  <2> DEFINE hint == Head(pipe[u])
  <2>1. /\ pipe[u] # <<>> /\ pipe' = [pipe EXCEPT ![u] = Tail(@)]
        /\ \E actuation \in DSP!Call :
              /\ DSP!SubmitTaskCapacityHint(u, hint.tick, 1, hint.capacity, actuation)
              /\ Actuate(actuation)
    BY <1>7 DEF Deliver
  <2>2. PICK actuation \in DSP!Call :
              /\ DSP!SubmitTaskCapacityHint(u, hint.tick, 1, hint.capacity, actuation)
              /\ Actuate(actuation)
    BY <2>1
  <2>3. u \in receivers
    BY <2>2 DEF DSP!SubmitTaskCapacityHint
  <2>4. alive /\ exists
    BY <2>1, <2>3 DEF Timely
  <2>5. pipe[u] \in Seq(Hint) /\ InOrder(pipe[u])
    BY <1>0 DEF PipesInv
  <2>6. /\ hint \in Hint /\ Tail(pipe[u]) \in Seq(Hint)
        /\ NoneBefore(pipe[u], Horizon - MaxDelay) => NoneBefore(Tail(pipe[u]), Horizon - MaxDelay)
    BY <2>1, <2>5, OrderAfterTail
  <2>7. hint.tick \in 0 .. Horizon /\ Horizon - MaxDelay <= hint.tick /\ hint.capacity \in 0 .. 3
    <3>1. Len(pipe[u]) \in Nat \ {0} /\ hint = pipe[u][1]
      BY <2>1, <2>5, EmptySeq
    <3>2. 1 \in 1 .. Len(pipe[u])
      BY <3>1
    <3>3. Horizon - MaxDelay <= hint.tick
      BY <1>0, <3>1, <3>2 DEF NoneBefore
    <3>4. hint.tick \in 0 .. Horizon /\ hint.capacity \in 0 .. 3
      BY <2>6 DEF Hint, DC!Capacity, DC!kCapacityIdle, DC!kCapacityOver
    <3> QED
      BY <3>3, <3>4
  <2> HIDE DEF hint
  <2>8. /\ Governing' /\ UNCHANGED <<exists, receivers, alive, isHybrid, maxFrequency>>
        /\ \/ UNCHANGED <<last_update, last_capacity, limiter>>
           \/ /\ last_capacity' = Promise!Higher(hint.capacity, last_capacity)
              /\ UNCHANGED <<last_update, limiter>>
           \/ /\ hint.tick - last_update > UpdateInterval
              /\ gear' = Promise!Shifted(Promise!Higher(hint.capacity, last_capacity))
              /\ last_capacity' = 0 /\ last_update' = hint.tick
    BY <2>2, <2>4, <2>6, Delivered DEF PipesInv
  <2>9. Timely'
    <3>1. \A t \in Trackers : NoneBefore(pipe'[t], Horizon - MaxDelay)
      BY <1>0, <2>1, <2>6
    <3> QED
      BY <2>4, <2>8, <3>1 DEF Timely
  <2>10. CASE UNCHANGED <<last_update, last_capacity, limiter>>
    BY <1>1, <2>8, <2>9, <2>10
  <2>11. CASE /\ last_capacity' = Promise!Higher(hint.capacity, last_capacity)
              /\ UNCHANGED <<last_update, limiter>>
    <3>1. Promise!Hear(hint.capacity)
      BY <2>4, <2>8, <2>11 DEF Promise!Hear, limiter
    <3> QED
      BY <2>7, <2>8, <2>9, <3>1 DEF Promise!Next, Promise!Capacity, Promise!Idle, Promise!Over
  <2>12. CASE /\ hint.tick - last_update > UpdateInterval
              /\ gear' = Promise!Shifted(Promise!Higher(hint.capacity, last_capacity))
              /\ last_capacity' = 0 /\ last_update' = hint.tick
    <3>1. PICK late \in 0 .. MaxDelay : late = Horizon - hint.tick
      BY <2>7
    <3>2. (Horizon - last_update) - late > UpdateInterval
      <4>1. (Horizon - last_update) - late = hint.tick - last_update
        BY <1>0, <2>7, <3>1
      <4> QED
        BY <2>12, <4>1
    <3>3. alive' /\ Level' = gear'
      BY <2>4, <2>8 DEF Level
    <3>4. power'.applied = Promise!LimitOf(gear')
      <4>1. power' = Same(Promise!LimitOf(Level)')
        BY <2>8 DEF Governing, Same
      <4>2. Promise!LimitOf(Level)' = Promise!LimitOf(gear')
        BY <2>8, <3>3 DEF Promise!LimitOf, Promise!High, Promise!NoLimit
      <4> QED
        BY <4>1, <4>2 DEF Same
    <3>5. Promise!Decide(hint.capacity, late)
      BY <2>4, <2>8, <2>12, <3>1, <3>2, <3>3, <3>4
      DEF Promise!Decide, Promise!Idle
    <3> QED
      BY <2>7, <2>8, <2>9, <3>5 DEF Promise!Next, Promise!Capacity, Promise!Idle, Promise!Over
  <2> QED
    BY <2>8, <2>10, <2>11, <2>12
<1> QED
  BY <1>2, <1>3, <1>4, <1>5, <1>6, <1>7 DEF Next, Promise!Next

\* On a machine whose frequency is known, and for any number of threads, any
\* loads, roundings and delays, the way from load to frequency is the one
\* regulator of Governor: nothing but the peak of what was heard since the last
\* decision shifts it, at most once per window, and its limits are those of its
\* level, however it was reached.
THEOREM ServiceGoverns ==
    ASSUME Measured
    PROVE  Spec => GovernsAsPromised
<1>1. Init => Governing /\ Timely /\ Promise!Init
  <2> SUFFICES ASSUME Init PROVE Governing /\ Timely /\ Promise!Init
    OBVIOUS
  <2>1. /\ ~alive /\ alive = FALSE /\ maxFrequency = 0 /\ gear = 0 /\ ac = 0 /\ isHybrid \in BOOLEAN
        /\ power = Same([c \in {0, 1} |-> [ac |-> 0, dc |-> 0]])
    BY DEF Init, FL!Init, FL!MachineInit, FL!Core, FL!PCORE, FL!ECORE, Same
  <2>2. Level = 100 /\ 100 \in Levels
    BY <2>1 DEF Level, Levels
  <2>3. [c \in {0, 1} |-> [ac |-> 0, dc |-> 0]] = Promise!LimitOf(100)
    BY LimitOfTop DEF Promise!Both, Promise!Pair
  <2>4. Governing
    BY <2>1, <2>2, <2>3 DEF Governing
  <2>5. Timely
    BY DEF Init, Timely, NoneBefore
  <2>6. Promise!Init
    <3>1. Promise!NoLimit = Promise!LimitOf(100)
      BY LimitOfTop DEF Promise!NoLimit
    <3>2. Horizon - last_update = Horizon
      BY PipelineAssumption DEF Init
    <3> QED
      BY <2>1, <2>3, <3>1, <3>2 DEF Init, Promise!Init, Same, Promise!Idle
  <2> QED
    BY <2>4, <2>5, <2>6
<1>2. PipesInv /\ PipesInv' /\ Governing /\ Timely /\ [Next]_vars
        => Governing' /\ Timely' /\ [Promise!Next]_(Promise!vars)
  BY StepGoverns
<1> QED
  BY <1>1, <1>2, PipesInvHolds, PTL DEF Spec, GovernsAsPromised, Promise!Spec
=============================================================================
