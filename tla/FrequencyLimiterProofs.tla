----------------------- MODULE FrequencyLimiterProofs -----------------------
(***************************************************************************)
(* What TLC checks of FrequencyLimiter on a few measured frequencies, for  *)
(* every machine and every frequency, and of SharedPowerScheme on two      *)
(* processes, for any number of them.                                      *)
(***************************************************************************)
EXTENDS FrequencyLimiter, SharedPowerScheme, TLAPS

LEMMA ZeroInUint32 == 0 \in Uint32 /\ FLOOR \in Uint32
BY ConstantAssumption DEF Uint32, FLOOR, ADL_TURBO

\* Unsigned subtraction of an offset stays in the type.
LEMMA MinusType ==
    ASSUME NEW a \in Uint32, NEW b \in {0, ECORE_OFFSET, DC_OFFSET}
    PROVE  /\ Minus(a, b) \in Uint32
           /\ a >= b => Minus(a, b) = a - b
BY ConstantAssumption DEF Minus, Uint32, ECORE_OFFSET, DC_OFFSET, ADL_TURBO

\* What a write can leave behind has the type of a policy.
LEMMA SetCoreType ==
    ASSUME NEW p \in Power, NEW k \in Core, NEW l \in Limits
    PROVE  SetCoreMaxFrequency(p, k, l) \subseteq Power
BY DEF SetCoreMaxFrequency, Power, Limits

LEMMA SetLimitsType ==
    ASSUME power \in Power, NEW pl \in Limits, NEW el \in Limits
    PROVE  SetLimits(power, pl, el) \subseteq Power
<1> DEFINE afterP == SetCoreMaxFrequency(power, PCORE, pl)
<1>1. PCORE \in Core /\ ECORE \in Core
  BY DEF Core
<1>2. afterP \subseteq Power
  BY <1>1, SetCoreType
<1>3. \A p \in afterP : SetCoreMaxFrequency(p, ECORE, el) \subseteq Power
  BY <1>1, <1>2, SetCoreType
<1> HIDE DEF afterP
<1>4. SetLimits(power, pl, el) = IF isHybrid THEN UNION {SetCoreMaxFrequency(r, ECORE, el) : r \in afterP}
                                       ELSE afterP
  BY DEF SetLimits, afterP
<1> QED
  BY <1>2, <1>3, <1>4

LEMMA ReleaseType ==
    ASSUME power \in Power, Release
    PROVE  power' \in Power
<1>1. Released \in Limits
  BY ZeroInUint32 DEF Released, Limits
<1> QED
  BY <1>1, SetLimitsType DEF Release

LEMMA WriteGearType ==
    ASSUME power \in Power, NEW a \in Uint32, NEW d \in Uint32,
           NEW e \in {0, ECORE_OFFSET}, WriteGear(a, d, e)
    PROVE  power' \in Power
<1>1. [ac |-> a, dc |-> d] \in Limits
  BY DEF Limits
<1>2. Minus(a, e) \in Uint32 /\ Minus(d, e) \in Uint32
  BY MinusType
<1>3. [ac |-> Minus(a, e), dc |-> Minus(d, e)] \in Limits
  BY <1>2 DEF Limits
<1> QED
  BY <1>1, <1>3, SetLimitsType DEF WriteGear

-----------------------------------------------------------------------------
\* The types hold in every state: in particular the gear stays between 0 and
\* MAX_KNOBS whatever counts GearDown and GearUp are called with.
THEOREM TypeCorrect == Spec => []TypeOK
<1>1. Init => TypeOK
  <2> SUFFICES ASSUME Init PROVE TypeOK
    OBVIOUS
  <2>1. PICK l \in [ac : StoredLimits, dc : StoredLimits] :
            power = [scheme |-> [c \in Core |-> l], applied |-> [c \in Core |-> l]]
    BY DEF Init, MachineInit
  <2>2. l \in Limits
    BY ConstantAssumption DEF Limits
  <2>3. power \in Power
    BY <2>1, <2>2 DEF Power
  <2>4. 0 \in Gears /\ alive = FALSE /\ isHybrid \in BOOLEAN
    BY DEF Init, MachineInit, Gears, MAX_KNOBS
  <2>5. maxFrequency \in IF alive THEN MaxFrequencies ELSE {0}
    BY DEF Init
  <2>6. stepped \in BOOLEAN /\ faulty \in BOOLEAN
    BY Zenon DEF Init, MachineInit
  <2> QED
    BY <2>3, <2>4, <2>5, <2>6, ZeroInUint32 DEF Init, TypeOK
<1>2. TypeOK /\ [Next]_vars => TypeOK'
  <2> SUFFICES ASSUME TypeOK, [Next]_vars PROVE TypeOK'
    OBVIOUS
  <2>1. CASE Construct
    BY <2>1, ReleaseType
    DEF TypeOK, Construct, CalculateFrequency, IsIntelHybrid, machine, Gears, MAX_KNOBS
  <2>2. ASSUME NEW count \in DownCounts, GearDownStep(count) PROVE TypeOK'
    <3>1. alive /\ maxFrequency \in MaxFrequencies
      BY <2>2 DEF TypeOK, GearDownStep, MayGearDown
    <3>2. gear - count \in Gears
      BY <2>2, ConstantAssumption
      DEF TypeOK, GearDownStep, MayGearDown, ValidCount, Gears, MAX_KNOBS
    <3> DEFINE scaled == Scaled[maxFrequency][gear - count]
    <3>3. scaled \in Uint32
      BY <3>1, <3>2, ScaledAssumption
    <3>4. ac' \in Uint32
      BY <2>2, <3>3, ZeroInUint32 DEF GearDownStep, Clamp
    <3>5. dc' \in Uint32
      <4>1. OffsetFor(scaled, DC_OFFSET) \in {0, ECORE_OFFSET, DC_OFFSET}
        BY DEF OffsetFor
      <4> QED
        BY <2>2, <3>4, <4>1, MinusType DEF GearDownStep
    <3>6. power' \in Power
      <4>1. OffsetFor(scaled, ECORE_OFFSET) \in {0, ECORE_OFFSET}
        BY DEF OffsetFor
      <4> QED
        BY <2>2, <3>4, <3>5, <4>1, WriteGearType DEF GearDownStep, TypeOK
    <3> QED
      BY <2>2, <3>1, <3>2, <3>4, <3>5, <3>6 DEF TypeOK, GearDownStep, machine
  <2>3. ASSUME NEW count \in DownCounts, GearDownBottom(count) PROVE TypeOK'
    <3>1. ac' \in Uint32
      BY <2>3, FrequencyAssumption DEF TypeOK, GearDownBottom, MayGearDown
    <3>2. dc' \in Uint32
      BY <2>3, <3>1, MinusType DEF GearDownBottom
    <3>3. power' \in Power
      BY <2>3, <3>1, <3>2, WriteGearType DEF GearDownBottom, TypeOK
    <3> QED
      BY <2>3, <3>1, <3>2, <3>3 DEF TypeOK, GearDownBottom, machine, Gears, MAX_KNOBS
  <2>4. ASSUME NEW count \in UpCounts, GearUpStep(count) PROVE TypeOK'
    <3>1. alive /\ maxFrequency \in MaxFrequencies
      BY <2>4 DEF TypeOK, GearUpStep, MayGearUp
    <3>2. gear + count \in Gears
      BY <2>4, ConstantAssumption DEF TypeOK, GearUpStep, Gears, MAX_KNOBS
    <3>3. ac' \in Uint32
      BY <2>4, <3>1, <3>2, ScaledAssumption DEF GearUpStep
    <3>4. dc' \in Uint32
      <4>1. Minus(ac', DC_OFFSET) \in Uint32
        BY <3>3, MinusType
      <4>2. dc' = Minus(ac', DC_OFFSET) \/ dc' = dc
        BY <2>4 DEF GearUpStep, DcAfterUp
      <4> QED
        BY <4>1, <4>2 DEF TypeOK
    <3>5. power' \in Power
      <4>1. PICK e \in {0, ECORE_OFFSET} : WriteGear(ac', dc', e)
        BY <2>4 DEF GearUpStep
      <4> QED
        BY <3>3, <3>4, <4>1, WriteGearType DEF TypeOK
    <3> QED
      BY <2>4, <3>2, <3>3, <3>4, <3>5 DEF TypeOK, GearUpStep, machine
  <2>5. ASSUME NEW count \in UpCounts, GearUpTop(count) PROVE TypeOK'
    BY <2>5, ReleaseType, ZeroInUint32
    DEF TypeOK, GearUpTop, machine, Gears, MAX_KNOBS
  <2>6. ASSUME Vanish, power' \in Power PROVE TypeOK'
    <3>1. /\ alive' = FALSE /\ gear' \in Gears /\ isHybrid' \in BOOLEAN /\ faulty' \in BOOLEAN
          /\ stepped' \in BOOLEAN
      BY <2>6 DEF Vanish, machine, TypeOK, Gears, MAX_KNOBS
    <3>2. maxFrequency' \in IF alive' THEN MaxFrequencies ELSE {0}
      BY <2>6 DEF Vanish
    <3>3. ac' \in Uint32 /\ dc' \in Uint32
      BY <2>6, ZeroInUint32 DEF Vanish
    <3> QED
      BY <2>6, <3>1, <3>2, <3>3 DEF TypeOK
  <2>7. Destroy \/ Crash => Vanish /\ power' \in Power
    BY ReleaseType DEF Destroy, Crash, TypeOK
  <2>8. CASE UNCHANGED vars
    BY <2>8 DEF TypeOK, vars, members, machine
  <2> QED
    BY <2>1, <2>2, <2>3, <2>4, <2>5, <2>6, <2>7, <2>8
    DEF Next, GearDown, GearUp, GearDownIgnored, GearUpIgnored
<1> QED
  BY <1>1, <1>2, PTL DEF Spec

-----------------------------------------------------------------------------
\* The scaled frequency of a gear is positive and at most the measured one,
\* and it grows with the gear.
LEMMA ScaledBounds ==
    ASSUME NEW m \in MaxFrequencies, m # 0, NEW g \in Gears, g # 0
    PROVE  /\ Scaled[m][g] \in Uint32 /\ Scaled[m][g] \in Nat
           /\ 0 < Scaled[m][g] /\ Scaled[m][g] <= m
<1>1. m \in Nat /\ m >= ADL_TURBO /\ g \in 1 .. MAX_KNOBS
  BY FrequencyAssumption DEF Uint32, Gears
<1>2. Scaled[m][g] \in Uint32 /\ Scaled[m][g] \in Nat
  BY ScaledAssumption DEF Uint32
<1>3. m <= g * m /\ g * m <= 100 * m
  BY <1>1 DEF MAX_KNOBS
<1>4. 100 * Scaled[m][g] <= g * m /\ g * m <= 100 * Scaled[m][g] + 100
  BY ScaledAssumption
<1>5. g * m \in Nat
  BY <1>1 DEF MAX_KNOBS
<1> DEFINE s == Scaled[m][g]
           p == g * m
<1> HIDE DEF s, p
<1>6. \A x, y, z \in Nat : 100 * x <= y /\ y <= 100 * x + 100 /\ z <= y /\ y <= 100 * z
                            /\ z >= 1500 => 0 < x /\ x <= z
  OBVIOUS
<1> QED
  BY <1>1, <1>2, <1>3, <1>4, <1>5, <1>6 DEF ADL_TURBO

LEMMA ScaledGrows ==
    ASSUME NEW m \in MaxFrequencies, m # 0, NEW g \in Gears, NEW h \in Gears, g < h
    PROVE  Scaled[m][g] <= Scaled[m][h]
<1>1. m \in Nat /\ m >= 1500 /\ g \in Nat /\ h \in Nat
  BY FrequencyAssumption DEF Uint32, Gears, ADL_TURBO
<1>2. Scaled[m][g] \in Nat /\ Scaled[m][h] \in Nat
  BY ScaledAssumption DEF Uint32
<1>3. 100 * Scaled[m][g] <= g * m /\ h * m <= 100 * Scaled[m][h] + 100
  BY ScaledAssumption
<1>4. g * m \in Nat /\ h * m \in Nat /\ g * m + m <= h * m
  <2>1. PICK k \in Nat : h = g + 1 + k
    <3>1. h - g - 1 \in Nat /\ h = g + 1 + (h - g - 1)
      BY <1>1
    <3> QED
      BY <3>1
  <2>2. h * m = g * m + m + k * m /\ k * m \in Nat /\ g * m \in Nat
    BY <1>1, <2>1
  <2> QED
    BY <1>1, <2>2
<1> DEFINE x == Scaled[m][g]
           y == Scaled[m][h]
           gm == g * m
           hm == h * m
<1> HIDE DEF x, y, gm, hm
<1>5. x \in Nat /\ y \in Nat /\ gm \in Nat /\ hm \in Nat
      /\ 100 * x <= gm /\ hm <= 100 * y + 100 /\ gm + m <= hm
  BY <1>2, <1>3, <1>4 DEF x, y, gm, hm
<1>6. x <= y
  BY <1>1, <1>5
<1> QED
  BY <1>6 DEF x, y

\* Without a measurement every gear has the frequency 0.
LEMMA ScaledOfNone ==
    ASSUME NEW m \in MaxFrequencies, m = 0, NEW g \in Gears
    PROVE  Scaled[m][g] = 0
<1>1. g \in Nat
  BY DEF Gears
<1>2. Scaled[m] \in [Gears -> Uint32]
  BY ScaledAssumption
<1>3. Scaled[m][g] \in Nat
  BY <1>2 DEF Uint32
<1>4. 100 * Scaled[m][g] <= g * m
  BY ScaledAssumption
<1> QED
  BY <1>1, <1>3, <1>4

LEMMA Numbers ==
    ASSUME TypeOK
    PROVE  /\ ac \in Nat /\ dc \in Nat /\ gear \in Nat /\ gear <= 100 /\ maxFrequency \in Nat
           /\ maxFrequency # 0 => alive /\ maxFrequency >= 1500
           /\ alive => maxFrequency \in MaxFrequencies
           /\ ~alive => maxFrequency = 0
BY FrequencyAssumption DEF TypeOK, Uint32, Gears, MAX_KNOBS, ADL_TURBO

-----------------------------------------------------------------------------
\* What a call writes, when every write succeeds: exactly the given limits.
LEMMA SetLimitsExact ==
    ASSUME power \in Power, ~faulty, NEW pl \in Limits, NEW el \in Limits,
           NEW q \in SetLimits(power, pl, el)
    PROVE  /\ q.applied = q.scheme
           /\ q.scheme[PCORE] = pl
           /\ q.scheme[ECORE] = IF isHybrid THEN el ELSE power.scheme[ECORE]
<1> DEFINE ps == [power.scheme EXCEPT ![PCORE] = pl]
           es == [ps EXCEPT ![ECORE] = el]
           pp == [scheme |-> ps, applied |-> ps]
<1>1. power.scheme \in [Core -> Limits] /\ PCORE \in Core /\ ECORE \in Core /\ PCORE # ECORE
  BY DEF Power, Core, PCORE, ECORE
<1>2. ps[PCORE] = pl /\ ps[ECORE] = power.scheme[ECORE] /\ es[PCORE] = pl /\ es[ECORE] = el
  BY <1>1
<1> HIDE DEF ps, es
<1>3. SetCoreMaxFrequency(power, PCORE, pl) = {pp}
  BY DEF SetCoreMaxFrequency, ps
<1>4. SetCoreMaxFrequency(pp, ECORE, el) = {[scheme |-> es, applied |-> es]}
  BY DEF SetCoreMaxFrequency, es
<1>5. SetLimits(power, pl, el) = IF isHybrid THEN {[scheme |-> es, applied |-> es]} ELSE {pp}
  BY <1>3, <1>4 DEF SetLimits
<1> QED
  BY <1>2, <1>5

\* A limit that is written is applied or leaves what was applied before: a
\* machine that is limited stays so, however far the writes get.
LEMMA SetCoreLimits ==
    ASSUME NEW p \in Power, NEW k \in Core, NEW l \in Limits, l # Released,
           \E c \in Core : p.applied[c] # Released,
           NEW q \in SetCoreMaxFrequency(p, k, l)
    PROVE  \E c \in Core : q.applied[c] # Released
<1> DEFINE acOnly == [p.scheme EXCEPT ![k] = [ac |-> l.ac, dc |-> @.dc]]
           both   == [p.scheme EXCEPT ![k] = l]
<1>1. both[k] = l
  BY DEF Power
<1> HIDE DEF acOnly, both
<1>2. q \in {[scheme |-> both, applied |-> both], p,
             [p EXCEPT !.scheme = acOnly], [p EXCEPT !.scheme = both]}
  BY DEF SetCoreMaxFrequency, acOnly, both
<1>3. q.applied = p.applied \/ q.applied = both
  BY <1>2 DEF Power
<1> QED
  BY <1>1, <1>3

LEMMA SetLimitsLimits ==
    ASSUME power \in Power, NEW pl \in Limits, pl # Released, NEW el \in Limits, el # Released,
           Limited, NEW q \in SetLimits(power, pl, el)
    PROVE  \E c \in Core : q.applied[c] # Released
<1> DEFINE afterP == SetCoreMaxFrequency(power, PCORE, pl)
<1>1. PCORE \in Core /\ ECORE \in Core
  BY DEF Core
<1>2. \A p \in afterP : p \in Power /\ \E c \in Core : p.applied[c] # Released
  BY <1>1, SetCoreType, SetCoreLimits DEF Limited
<1>3. \A p \in afterP : \A r \in SetCoreMaxFrequency(p, ECORE, el) :
          \E c \in Core : r.applied[c] # Released
  BY <1>1, <1>2, SetCoreLimits
<1> HIDE DEF afterP
<1>4. SetLimits(power, pl, el) = IF isHybrid THEN UNION {SetCoreMaxFrequency(r, ECORE, el) : r \in afterP}
                                       ELSE afterP
  BY DEF SetLimits, afterP
<1> QED
  BY <1>2, <1>3, <1>4
-----------------------------------------------------------------------------
\* What the members say of each other: in the top gear there is no limit, in
\* every gear between the scaled frequency with the DC offset, or at most the
\* floor, and exactly the floor if GearUp has never stopped below the top.
\* (In gear 0 they are those of the gear before it.)
GearFollowed ==
    LET s == Scaled[maxFrequency][gear]
    IN  /\ s > FLOOR => ac = s /\ dc = s - DC_OFFSET
        /\ s <= FLOOR => ac <= FLOOR
        /\ s <= FLOOR /\ ~stepped => ac = FLOOR /\ dc = FLOOR

MembersFollow ==
    /\ ac <= maxFrequency
    /\ ~alive => dc = 0
    /\ maxFrequency = 0 => dc \in {0, Word - DC_OFFSET}
    /\ maxFrequency # 0 =>
         /\ dc <= maxFrequency
         /\ gear = MAX_KNOBS => ac = 0 /\ dc = 0
         /\ gear # MAX_KNOBS => ac # 0
         /\ gear \notin {0, MAX_KNOBS} => GearFollowed

\* What the E cores have been given: no offsets at or below the floor, both
\* offsets above it and, by GearUp, at it; without a measurement they wrap.
ECoresFollow ==
    LET e == power.scheme[ECORE]
    IN  \/ e = [ac |-> ac, dc |-> dc] /\ ac <= FLOOR
        \/ /\ e = [ac |-> Minus(ac, ECORE_OFFSET), dc |-> Minus(dc, ECORE_OFFSET)]
           /\ alive
           /\ \/ dc = ac - DC_OFFSET /\ ac > FLOOR
              \/ dc = ac - DC_OFFSET /\ ac = FLOOR /\ stepped
              \/ ac = 0 /\ maxFrequency = 0 /\ dc = Word - DC_OFFSET

\* What is applied: where writes succeed, what the members say.
SchemeFollows ==
    ~faulty =>
      /\ power.applied = power.scheme
      /\ alive => /\ power.scheme[PCORE] = [ac |-> ac, dc |-> dc]
                  /\ isHybrid => ECoresFollow

\* The common part of the steps that shift to a gear with a limit: the members
\* after the step are written, the E cores e below.
ShiftValues(e) ==
    \/ e = 0 /\ ac' = 0 /\ dc' = 0 /\ maxFrequency = 0
    \/ e = 0 /\ ac' # 0 /\ ac' <= FLOOR /\ (stepped' \/ (ac' = FLOOR /\ dc' = FLOOR))
    \/ /\ e = ECORE_OFFSET
       /\ dc' = ac' - DC_OFFSET
       /\ ac' > FLOOR \/ (ac' = FLOOR /\ stepped')
    \/ e = ECORE_OFFSET /\ ac' = 0 /\ dc' = Word - DC_OFFSET /\ maxFrequency = 0

Shift(e) ==
    /\ alive /\ UNCHANGED <<alive, machine, maxFrequency>>
    /\ stepped => stepped'
    /\ WriteGear(ac', dc', e)
    /\ ShiftValues(e)

\* Shifting down from a limit, or from none, ends in a lower gear.
LEMMA GearDownStepShifts ==
    ASSUME TypeOK, TypeOK', MembersFollow, NEW count \in DownCounts, GearDownStep(count)
    PROVE  /\ MembersFollow'
           /\ \E e \in {0, ECORE_OFFSET} : Shift(e)
           /\ maxFrequency # 0 =>
                /\ gear' \in 1 .. MAX_KNOBS - 1 /\ gear' < gear
                /\ \/ ac' = Scaled[maxFrequency][gear'] /\ ac' > FLOOR /\ dc' = ac' - DC_OFFSET
                   \/ ac' = FLOOR /\ dc' = FLOOR
<1>1. /\ alive /\ UNCHANGED <<alive, machine, maxFrequency, stepped>>
      /\ gear' = gear - count /\ gear - count > 0
      /\ count # 0 /\ count \in Nat
  BY ConstantAssumption DEF GearDownStep, MayGearDown, ValidCount
<1>2. maxFrequency \in MaxFrequencies /\ gear' \in Gears /\ gear' \in 1 .. MAX_KNOBS - 1 /\ gear' < gear
  BY <1>1, Numbers DEF Gears, MAX_KNOBS
<1> DEFINE s == Scaled[maxFrequency][gear']
<1>3. /\ ac' = Clamp(s) /\ dc' = Minus(ac', OffsetFor(s, DC_OFFSET))
      /\ WriteGear(ac', dc', OffsetFor(s, ECORE_OFFSET))
  BY <1>1 DEF GearDownStep
<1>4. CASE maxFrequency = 0
  <2>1. s = 0
    BY <1>2, <1>4, ScaledOfNone
  <2>2. ac' = 0 /\ OffsetFor(s, ECORE_OFFSET) = ECORE_OFFSET /\ OffsetFor(s, DC_OFFSET) = DC_OFFSET
    BY <1>3, <2>1 DEF Clamp, AtFloor, OffsetFor
  <2>3. dc' = Word - DC_OFFSET
    BY <1>3, <2>2, ConstantAssumption DEF Minus, DC_OFFSET
  <2>4. Shift(ECORE_OFFSET)
    <3>1. ShiftValues(ECORE_OFFSET)
      BY <1>1, <1>3, <1>4, <2>2, <2>3 DEF ShiftValues, FLOOR
    <3>2. WriteGear(ac', dc', ECORE_OFFSET)
      BY <1>1, <1>3, <1>4, <2>2, <2>3 DEF FLOOR
    <3> QED
      BY <1>1, <3>1, <3>2 DEF Shift
  <2>5. MembersFollow'
    BY <1>1, <1>4, <2>2, <2>3 DEF MembersFollow
  <2> QED
    BY <1>4, <2>4, <2>5
<1>5. CASE maxFrequency # 0
  <2>1. s \in Nat /\ 0 < s /\ s <= maxFrequency /\ maxFrequency \in Nat /\ maxFrequency >= 1500
    BY <1>2, <1>5, ScaledBounds, Numbers
  <2>2. CASE s <= FLOOR
    <3>1. ac' = FLOOR /\ OffsetFor(s, ECORE_OFFSET) = 0 /\ OffsetFor(s, DC_OFFSET) = 0
      BY <1>3, <2>1, <2>2 DEF Clamp, AtFloor, OffsetFor
    <3>2. dc' = FLOOR
      BY <1>3, <3>1 DEF Minus, FLOOR
    <3>3. Shift(0)
      <4>1. ShiftValues(0)
        BY <1>1, <1>3, <3>1, <3>2 DEF ShiftValues, FLOOR
      <4>2. WriteGear(ac', dc', 0)
        BY <1>1, <1>3, <3>1, <3>2 DEF FLOOR
      <4> QED
        BY <1>1, <4>1, <4>2 DEF Shift
    <3>4. GearFollowed'
      BY <1>1, <2>1, <2>2, <3>1, <3>2 DEF GearFollowed, FLOOR
    <3>5. MembersFollow'
      BY <1>1, <1>2, <1>5, <2>1, <3>1, <3>2, <3>4 DEF MembersFollow, FLOOR, MAX_KNOBS
    <3> QED
      BY <1>2, <3>1, <3>2, <3>3, <3>5
  <2>3. CASE s > FLOOR
    <3>1. ac' = s /\ OffsetFor(s, ECORE_OFFSET) = ECORE_OFFSET /\ OffsetFor(s, DC_OFFSET) = DC_OFFSET
      BY <1>3, <2>1, <2>3 DEF Clamp, AtFloor, OffsetFor, FLOOR
    <3>2. dc' = s - DC_OFFSET
      BY <1>3, <2>1, <2>3, <3>1 DEF Minus, FLOOR, DC_OFFSET
    <3>3. Shift(ECORE_OFFSET)
      <4>1. ShiftValues(ECORE_OFFSET)
        <5>1. ac' > FLOOR /\ dc' = ac' - DC_OFFSET
          BY <2>1, <2>3, <3>1, <3>2
        <5> QED
          BY <5>1, Zenon DEF ShiftValues
      <4>2. WriteGear(ac', dc', ECORE_OFFSET)
        BY <1>1, <1>3, <2>3, <3>1, <3>2 DEF FLOOR
      <4> QED
        BY <1>1, <4>1, <4>2 DEF Shift
    <3>4. GearFollowed'
      BY <1>1, <2>1, <2>3, <3>1, <3>2 DEF GearFollowed, FLOOR
    <3>5. MembersFollow'
      BY <1>1, <1>2, <1>5, <2>1, <2>3, <3>1, <3>2, <3>4 DEF MembersFollow, DC_OFFSET, MAX_KNOBS
    <3> QED
      <4>1. ac' = Scaled[maxFrequency][gear'] /\ ac' > FLOOR /\ dc' = ac' - DC_OFFSET
        BY <2>1, <2>3, <3>1, <3>2
      <4> QED
        BY <1>2, <3>3, <3>5, <4>1, Zenon
  <2> QED
    BY <2>1, <2>2, <2>3 DEF FLOOR
<1> QED
  BY <1>4, <1>5

\* At the bottom the frequency stays; only a machine without limits gets one.
LEMMA GearDownBottomShifts ==
    ASSUME TypeOK, TypeOK', MembersFollow, NEW count \in DownCounts, GearDownBottom(count)
    PROVE  /\ MembersFollow'
           /\ \E e \in {0, ECORE_OFFSET} : Shift(e)
           /\ maxFrequency # 0 =>
                /\ gear' = 0
                /\ ac' = (IF ac = 0 THEN maxFrequency ELSE ac) /\ ac' > FLOOR
                /\ dc' = ac' - DC_OFFSET
<1>1. /\ alive /\ UNCHANGED <<alive, machine, maxFrequency, stepped>>
      /\ gear' = 0
      /\ ac' = IF ac = 0 THEN maxFrequency ELSE ac
      /\ dc' = Minus(ac', IF ac' > FLOOR THEN DC_OFFSET ELSE 0)
      /\ WriteGear(ac', dc', IF ac' > FLOOR THEN ECORE_OFFSET ELSE 0)
      /\ ac = 0 \/ ac > FLOOR
  BY DEF GearDownBottom, MayGearDown
<1>2. CASE maxFrequency = 0
  <2>1. ac' = 0 /\ ~(ac' > FLOOR)
    BY <1>1, <1>2, Numbers DEF MembersFollow, FLOOR
  <2>2. dc' = 0
    BY <1>1, <2>1 DEF Minus
  <2>3. Shift(0)
    <3>1. ShiftValues(0)
      BY <1>1, <1>2, <2>1, <2>2 DEF ShiftValues, FLOOR
    <3>2. WriteGear(ac', dc', 0)
      BY <1>1, <1>2, <2>1, <2>2 DEF FLOOR
    <3> QED
      BY <1>1, <3>1, <3>2 DEF Shift
  <2>4. MembersFollow'
    BY <1>1, <1>2, <2>1, <2>2 DEF MembersFollow
  <2> QED
    BY <1>2, <2>3, <2>4
<1>3. CASE maxFrequency # 0
  <2>1. maxFrequency \in Nat /\ maxFrequency >= 1500 /\ ac \in Nat
    BY <1>3, Numbers
  <2>2. ac' \in Nat /\ ac' > FLOOR /\ ac' <= maxFrequency
    BY <1>1, <2>1 DEF MembersFollow, FLOOR
  <2>3. dc' = ac' - DC_OFFSET
    <3>1. dc' = Minus(ac', DC_OFFSET)
      BY <1>1, <2>2
    <3> QED
      BY <2>2, <3>1 DEF Minus, FLOOR, DC_OFFSET
  <2>4. Shift(ECORE_OFFSET)
    <3>1. ShiftValues(ECORE_OFFSET)
      BY <2>2, <2>3, Zenon DEF ShiftValues
    <3>2. WriteGear(ac', dc', ECORE_OFFSET)
      BY <1>1, <2>2, <2>3 DEF FLOOR
    <3> QED
      BY <1>1, <3>1, <3>2 DEF Shift
  <2>5. MembersFollow'
    BY <1>1, <1>3, <2>1, <2>2, <2>3 DEF MembersFollow, DC_OFFSET, MAX_KNOBS, FLOOR
  <2> QED
    BY <1>1, <2>2, <2>3, <2>4, <2>5
<1> QED
  BY <1>2, <1>3

\* Below the floor GearUp leaves the DC value behind.
LEMMA GearUpStepShifts ==
    ASSUME TypeOK, TypeOK', MembersFollow, NEW count \in UpCounts, GearUpStep(count)
    PROVE  MembersFollow' /\ stepped' /\ \E e \in {0, ECORE_OFFSET} : Shift(e)
<1>1. /\ alive /\ UNCHANGED <<alive, machine, maxFrequency>>
      /\ stepped' /\ gear' = gear + count /\ gear + count < MAX_KNOBS
      /\ ac # 0 /\ count # 0 /\ count \in Nat
      /\ dc' = DcAfterUp(ac')
      /\ WriteGear(ac', dc', IF ac' >= FLOOR THEN ECORE_OFFSET ELSE 0)
  BY ConstantAssumption DEF GearUpStep, MayGearUp, ValidCount
<1>2. maxFrequency # 0 /\ maxFrequency \in MaxFrequencies /\ maxFrequency \in Nat /\ dc \in Nat
  BY <1>1, Numbers DEF MembersFollow
<1>3. gear' \in Gears /\ gear' \notin {0, MAX_KNOBS}
  BY <1>1, Numbers DEF Gears, MAX_KNOBS
<1> DEFINE s == Scaled[maxFrequency][gear']
<1>4. ac' = s
  BY <1>1 DEF GearUpStep
<1>5. s \in Nat /\ 0 < s /\ s <= maxFrequency
  BY <1>2, <1>3, ScaledBounds
<1>6. CASE s >= FLOOR
  <2>1. dc' = s - DC_OFFSET
    BY <1>1, <1>4, <1>5, <1>6 DEF DcAfterUp, Minus, FLOOR, DC_OFFSET
  <2>2. Shift(ECORE_OFFSET)
    <3>1. ShiftValues(ECORE_OFFSET)
      BY <1>1, <1>4, <1>5, <1>6, <2>1 DEF ShiftValues, FLOOR
    <3>2. WriteGear(ac', dc', ECORE_OFFSET)
      BY <1>1, <1>4, <1>5, <1>6, <2>1 DEF FLOOR
    <3> QED
      BY <1>1, <3>1, <3>2 DEF Shift
  <2>3. GearFollowed'
    BY <1>1, <1>4, <1>5, <2>1 DEF GearFollowed
  <2>4. MembersFollow'
    BY <1>1, <1>2, <1>3, <1>4, <1>5, <1>6, <2>1, <2>3 DEF MembersFollow, DC_OFFSET, FLOOR
  <2> QED
    BY <1>1, <2>2, <2>4
<1>7. CASE ~(s >= FLOOR)
  <2>1. dc' = dc /\ dc <= maxFrequency
    BY <1>1, <1>2, <1>4, <1>7 DEF DcAfterUp, MembersFollow
  <2>2. Shift(0)
    <3>1. ShiftValues(0)
      <4>1. ac' # 0 /\ ac' <= FLOOR
        BY <1>4, <1>5, <1>7 DEF FLOOR
      <4> QED
        BY <1>1, <4>1, Zenon DEF ShiftValues
    <3>2. WriteGear(ac', dc', 0)
      BY <1>1, <1>4, <1>5, <1>7 DEF FLOOR
    <3> QED
      BY <1>1, <3>1, <3>2 DEF Shift
  <2>3. GearFollowed'
    BY <1>1, <1>4, <1>5, <1>7 DEF GearFollowed, FLOOR
  <2>4. MembersFollow'
    BY <1>1, <1>2, <1>3, <1>4, <1>5, <2>1, <2>3 DEF MembersFollow
  <2> QED
    BY <1>1, <2>2, <2>4
<1> QED
  BY <1>6, <1>7
-----------------------------------------------------------------------------
\* From the floor on, offsets fit.
LEMMA OffsetsFit ==
    ASSUME NEW a \in Nat, a >= FLOOR, NEW d, d = a - DC_OFFSET
    PROVE  Minus(a, ECORE_OFFSET) = a - 100 /\ Minus(d, ECORE_OFFSET) = d - 100
<1>1. d \in Nat /\ d >= 100 /\ a >= 100
  BY DEF FLOOR, DC_OFFSET
<1> QED
  BY <1>1 DEF Minus, ECORE_OFFSET

\* The limits that a shift writes: offsets are subtracted without wrapping,
\* except where nothing was measured.
LEMMA ShiftWrites ==
    ASSUME TypeOK, TypeOK', NEW e \in {0, ECORE_OFFSET}, Shift(e)
    PROVE  /\ power' \in SetLimits(power, [ac |-> ac', dc |-> dc'],
                                          [ac |-> Minus(ac', e), dc |-> Minus(dc', e)])
           /\ [ac |-> ac', dc |-> dc'] \in Limits
           /\ [ac |-> Minus(ac', e), dc |-> Minus(dc', e)] \in Limits
           /\ e = 0 => Minus(ac', e) = ac' /\ Minus(dc', e) = dc'
           /\ e = ECORE_OFFSET /\ ac' # 0 => Minus(ac', e) = ac' - 100 /\ Minus(dc', e) = dc' - 100
           /\ e = ECORE_OFFSET /\ ac' = 0 => Minus(ac', e) = Word - 100 /\ Minus(dc', e) = Word - 300
<1>1. ac' \in Uint32 /\ dc' \in Uint32 /\ ac' \in Nat /\ dc' \in Nat
  BY ConstantAssumption DEF TypeOK, Uint32
<1>2. Minus(ac', e) \in Uint32 /\ Minus(dc', e) \in Uint32
  BY <1>1, MinusType
<1>3. [ac |-> ac', dc |-> dc'] \in Limits /\ [ac |-> Minus(ac', e), dc |-> Minus(dc', e)] \in Limits
  BY <1>1, <1>2 DEF Limits
<1>4. ASSUME e = 0 PROVE Minus(ac', e) = ac' /\ Minus(dc', e) = dc'
  <2>1. \A x \in Nat : Minus(x, 0) = x
    BY DEF Minus
  <2> QED
    BY <1>1, <1>4, <2>1
<1>5. ASSUME e = ECORE_OFFSET, ac' # 0
      PROVE  Minus(ac', e) = ac' - 100 /\ Minus(dc', e) = dc' - 100
  <2>1. ShiftValues(e) /\ e # 0
    BY <1>5 DEF Shift, ECORE_OFFSET
  <2>2. dc' = ac' - DC_OFFSET /\ (ac' > FLOOR \/ ac' = FLOOR)
    BY <1>5, <2>1, Zenon DEF ShiftValues
  <2>3. ac' >= FLOOR
    BY <1>1, <2>2 DEF FLOOR
  <2> QED
    BY <1>1, <1>5, <2>2, <2>3, OffsetsFit
<1>6. ASSUME e = ECORE_OFFSET, ac' = 0
      PROVE  Minus(ac', e) = Word - 100 /\ Minus(dc', e) = Word - 300
  <2>1. dc' = Word - 200 /\ Word \in Nat /\ Word > 1500
    BY <1>6, ConstantAssumption
    DEF Shift, ShiftValues, FLOOR, DC_OFFSET, ECORE_OFFSET, ADL_TURBO
  <2> QED
    BY <1>6, <2>1 DEF Minus, ECORE_OFFSET
<1>7. WriteGear(ac', dc', e)
  BY DEF Shift
<1> QED
  BY <1>3, <1>4, <1>5, <1>6, <1>7 DEF WriteGear

LEMMA ShiftApplies ==
    ASSUME TypeOK, TypeOK', MembersFollow', NEW e \in {0, ECORE_OFFSET}, Shift(e)
    PROVE  SchemeFollows'
<1> DEFINE pl == [ac |-> ac', dc |-> dc']
           el == [ac |-> Minus(ac', e), dc |-> Minus(dc', e)]
<1>1. alive' /\ isHybrid' = isHybrid /\ faulty' = faulty
  BY DEF Shift, machine
<1>2. ASSUME ~faulty
      PROVE  /\ power'.applied = power'.scheme
             /\ power'.scheme[PCORE] = pl
             /\ isHybrid => power'.scheme[ECORE] = el
  <2>1. power \in Power
    BY DEF TypeOK
  <2> HIDE DEF pl, el
  <2>2. pl \in Limits /\ el \in Limits /\ power' \in SetLimits(power, pl, el)
    BY ShiftWrites DEF pl, el
  <2> QED
    BY <1>2, <2>1, <2>2, SetLimitsExact
<1>3. ASSUME ~faulty, isHybrid PROVE ECoresFollow'
  <2>1. power'.scheme[ECORE] = el
    BY <1>2, <1>3
  <2>2. ShiftValues(e) /\ ac' \in Nat /\ maxFrequency' = maxFrequency
    BY ConstantAssumption DEF Shift, TypeOK, Uint32
  <2>3. CASE e = 0
    <3>1. el = [ac |-> ac', dc |-> dc']
      BY <2>3, ShiftWrites
    <3>2. ac' <= FLOOR
      BY <2>2, <2>3 DEF ShiftValues, ECORE_OFFSET, FLOOR
    <3> QED
      BY <2>1, <3>1, <3>2 DEF ECoresFollow
  <2>4. CASE e = ECORE_OFFSET
    <3>1. \/ dc' = ac' - DC_OFFSET /\ ac' > FLOOR
          \/ dc' = ac' - DC_OFFSET /\ ac' = FLOOR /\ stepped'
          \/ ac' = 0 /\ maxFrequency' = 0 /\ dc' = Word - DC_OFFSET
      BY <2>2, <2>4 DEF ShiftValues, ECORE_OFFSET
    <3>2. power'.scheme[ECORE] = [ac |-> Minus(ac', ECORE_OFFSET), dc |-> Minus(dc', ECORE_OFFSET)]
      BY <2>1, <2>4
    <3> QED
      BY <1>1, <3>1, <3>2 DEF ECoresFollow
  <2> QED
    BY <2>3, <2>4
<1> QED
  BY <1>1, <1>2, <1>3 DEF SchemeFollows

\* What a shift writes are limits on both core types.
LEMMA ShiftLimits ==
    ASSUME TypeOK, TypeOK', maxFrequency # 0, Limited,
           NEW e \in {0, ECORE_OFFSET}, Shift(e)
    PROVE  Limited'
<1> DEFINE pl == [ac |-> ac', dc |-> dc']
           el == [ac |-> Minus(ac', e), dc |-> Minus(dc', e)]
<1>1. ac' # 0 /\ ac' \in Nat /\ (e = ECORE_OFFSET => ac' >= 1000)
  BY ConstantAssumption DEF Shift, ShiftValues, TypeOK, Uint32, FLOOR, ECORE_OFFSET
<1>2. Minus(ac', e) # 0
  BY <1>1, ShiftWrites DEF ECORE_OFFSET
<1>3. pl # Released /\ el # Released
  BY <1>1, <1>2 DEF Released
<1> HIDE DEF pl, el
<1>4. pl \in Limits /\ el \in Limits /\ power' \in SetLimits(power, pl, el)
  BY ShiftWrites DEF pl, el
<1> QED
  BY <1>3, <1>4, SetLimitsLimits DEF TypeOK, Limited

\* A release, wherever it comes from.
LEMMA ReleaseExact ==
    ASSUME TypeOK, ~faulty, Release
    PROVE  /\ power'.applied = power'.scheme
           /\ power'.scheme[PCORE] = Released
           /\ isHybrid => power'.scheme[ECORE] = Released
<1>1. Released \in Limits
  BY ZeroInUint32 DEF Released, Limits
<1> QED
  BY <1>1, SetLimitsExact DEF Release, TypeOK

\* Released, and no member of an object that remains says otherwise.
LEMMA ReleaseApplies ==
    ASSUME TypeOK, Release, UNCHANGED machine, alive' => ac' = 0 /\ dc' = 0
    PROVE  SchemeFollows'
<1>1. isHybrid' = isHybrid /\ faulty' = faulty
  BY DEF machine
<1>2. ASSUME ~faulty, alive', isHybrid PROVE ECoresFollow'
  <2>1. power'.scheme[ECORE] = [ac |-> ac', dc |-> dc'] /\ ac' = 0
    BY <1>2, ReleaseExact DEF Released
  <2> QED
    BY <2>1 DEF ECoresFollow, FLOOR
<1>3. ASSUME ~faulty, alive' PROVE power'.scheme[PCORE] = [ac |-> ac', dc |-> dc']
  BY <1>3, ReleaseExact DEF Released
<1> QED
  BY <1>1, <1>2, <1>3, ReleaseExact DEF SchemeFollows
-----------------------------------------------------------------------------
LimiterInv == TypeOK /\ MembersFollow /\ SchemeFollows

LEMMA LimiterInvInit == Init => MembersFollow /\ SchemeFollows
BY DEF Init, MachineInit, MembersFollow, SchemeFollows

\* One step for each action; the types hold after it already.
LEMMA LimiterInvStep == LimiterInv /\ TypeOK' /\ [Next]_vars => MembersFollow' /\ SchemeFollows'
<1> SUFFICES ASSUME LimiterInv, TypeOK', [Next]_vars PROVE MembersFollow' /\ SchemeFollows'
  OBVIOUS
<1> USE DEF LimiterInv
<1>1. CASE Construct
  <2>1. maxFrequency = 0 /\ ac = 0 /\ dc = 0
    BY <1>1, Numbers DEF Construct, MembersFollow
  <2>2. alive' /\ gear' = MAX_KNOBS /\ ac' = 0 /\ dc' = 0 /\ maxFrequency' \in Nat
    BY <1>1, <2>1, FrequencyAssumption, ConstantAssumption
    DEF Construct, CalculateFrequency, Uint32
  <2>3. MembersFollow'
    BY <2>2 DEF MembersFollow, MAX_KNOBS
  <2>4. Release /\ UNCHANGED machine
    BY <1>1 DEF Construct, IsIntelHybrid
  <2> QED
    BY <2>2, <2>3, <2>4, ReleaseApplies
<1>2. ASSUME NEW count \in DownCounts, GearDownStep(count)
      PROVE  MembersFollow' /\ SchemeFollows'
  BY <1>2, GearDownStepShifts, ShiftApplies
<1>3. ASSUME NEW count \in DownCounts, GearDownBottom(count)
      PROVE  MembersFollow' /\ SchemeFollows'
  BY <1>3, GearDownBottomShifts, ShiftApplies
<1>4. ASSUME NEW count \in UpCounts, GearUpStep(count)
      PROVE  MembersFollow' /\ SchemeFollows'
  BY <1>4, GearUpStepShifts, ShiftApplies
<1>5. ASSUME NEW count \in UpCounts, GearUpTop(count)
      PROVE  MembersFollow' /\ SchemeFollows'
  <2>1. /\ gear' = MAX_KNOBS /\ ac' = 0 /\ dc' = 0 /\ maxFrequency' = maxFrequency
        /\ Release /\ UNCHANGED machine /\ alive'
    BY <1>5 DEF GearUpTop, MayGearUp
  <2>2. MembersFollow'
    BY <2>1, Numbers DEF MembersFollow, MAX_KNOBS
  <2> QED
    BY <2>1, <2>2, ReleaseApplies
<1>6. ASSUME Vanish PROVE MembersFollow'
  BY <1>6 DEF Vanish, MembersFollow
<1>7. CASE Destroy
  <2>1. Release /\ UNCHANGED machine /\ ac' = 0 /\ dc' = 0
    BY <1>7 DEF Destroy, Vanish
  <2> QED
    BY <1>6, <1>7, <2>1, ReleaseApplies DEF Destroy
<1>8. CASE Crash
  <2>1. ~alive' /\ UNCHANGED machine /\ power' = power
    BY <1>8 DEF Crash, Vanish
  <2>2. SchemeFollows'
    BY <2>1 DEF SchemeFollows, machine
  <2> QED
    BY <1>6, <1>8, <2>2 DEF Crash
<1>9. CASE UNCHANGED vars
  BY <1>9 DEF vars, members, machine, MembersFollow, GearFollowed, SchemeFollows, ECoresFollow
<1> QED
  BY <1>1, <1>2, <1>3, <1>4, <1>5, <1>7, <1>8, <1>9
  DEF Next, GearDown, GearUp, GearDownIgnored, GearUpIgnored, vars

THEOREM LimiterInvHolds == Spec => []LimiterInv
<1>1. Init /\ TypeOK => LimiterInv
  BY LimiterInvInit DEF LimiterInv
<1>2. LimiterInv /\ TypeOK' /\ [Next]_vars => LimiterInv'
  BY LimiterInvStep DEF LimiterInv
<1> QED
  BY <1>1, <1>2, TypeCorrect, PTL DEF Spec

-----------------------------------------------------------------------------
\* On a machine whose writes succeed, and as long as no other process writes,
\* what is applied agrees with the members and with the gear: for every measured
\* frequency, all counts, and any crashes and restarts.
THEOREM PolicyAsIntended == Spec => []AppliedIsIntended
<1>1. LimiterInv => AppliedIsIntended
  <2> SUFFICES ASSUME LimiterInv, ~faulty, alive
               PROVE  PolicyMatchesMembers /\ PolicyFollowsGear
    BY DEF AppliedIsIntended
  <2> USE DEF LimiterInv
  <2>1. /\ power.applied = power.scheme
        /\ power.scheme[PCORE] = [ac |-> ac, dc |-> dc]
        /\ isHybrid => ECoresFollow
    BY DEF SchemeFollows
  <2>2. PolicyMatchesMembers
    <3>1. GetCoreMaxFrequency(PCORE) = power.scheme[PCORE]
      BY DEF GetCoreMaxFrequency, PCORE, ECORE
    <3>2. isHybrid => GetCoreMaxFrequency(ECORE) = power.scheme[ECORE]
      BY DEF GetCoreMaxFrequency
    <3>3. FLOOR # 0
      BY DEF FLOOR
    <3>4. ac \in Nat /\ (ac > FLOOR => ac # 0)
      BY Numbers DEF FLOOR
    <3> QED
      BY <2>1, <3>1, <3>2, <3>3, <3>4 DEF PolicyMatchesMembers, ECoresFollow
  <2>3. ASSUME gear # 0, maxFrequency # 0
        PROVE  LET p == power.applied[PCORE]
                   e == power.applied[ECORE]
                   s == Scaled[maxFrequency][gear]
               IN  /\ gear = MAX_KNOBS => p = Released /\ (isHybrid => e = Released)
                   /\ gear < MAX_KNOBS /\ s > FLOOR =>
                         /\ p = [ac |-> s, dc |-> s - 200]
                         /\ isHybrid => e = [ac |-> s - 100, dc |-> s - 300]
                   /\ gear < MAX_KNOBS /\ s <= FLOOR =>
                         /\ p.ac <= FLOOR
                         /\ isHybrid => e.ac <= FLOOR
                   /\ gear < MAX_KNOBS /\ s <= FLOOR /\ ~stepped =>
                         /\ p = [ac |-> FLOOR, dc |-> FLOOR]
                         /\ isHybrid => e = [ac |-> FLOOR, dc |-> FLOOR]
    <3> DEFINE e == power.scheme[ECORE]
               s == Scaled[maxFrequency][gear]
    <3>1. ac \in Nat /\ dc \in Nat /\ gear \in Nat /\ s \in Nat /\ maxFrequency >= 1500
      <4>1. gear \in Gears /\ maxFrequency \in MaxFrequencies
        BY <2>3, Numbers DEF TypeOK
      <4> QED
        BY <2>3, <4>1, ScaledBounds, Numbers
    <3>2. ASSUME gear = MAX_KNOBS PROVE ac = 0 /\ dc = 0 /\ (isHybrid => e = Released)
      <4>1. ac = 0 /\ dc = 0
        BY <2>3, <3>2 DEF MembersFollow
      <4> QED
        BY <2>1, <2>3, <4>1 DEF ECoresFollow, FLOOR, Released
    <3>3. ASSUME gear < MAX_KNOBS PROVE GearFollowed
      BY <2>3, <3>1, <3>3 DEF MembersFollow, MAX_KNOBS
    <3>4. ASSUME gear < MAX_KNOBS, s > FLOOR
          PROVE  /\ ac = s /\ dc = s - 200
                 /\ isHybrid => e = [ac |-> s - 100, dc |-> s - 300]
      <4>1. ac = s /\ dc = s - 200
        BY <3>1, <3>3, <3>4 DEF GearFollowed, DC_OFFSET
      <4>2. isHybrid => e = [ac |-> Minus(ac, ECORE_OFFSET), dc |-> Minus(dc, ECORE_OFFSET)]
        BY <2>1, <3>1, <3>4, <4>1 DEF ECoresFollow, FLOOR
      <4>3. Minus(ac, ECORE_OFFSET) = s - 100 /\ Minus(dc, ECORE_OFFSET) = s - 300
        BY <3>1, <3>4, <4>1 DEF Minus, ECORE_OFFSET, FLOOR
      <4> QED
        BY <4>1, <4>2, <4>3
    <3>5. ASSUME gear < MAX_KNOBS, s <= FLOOR
          PROVE  /\ ac <= FLOOR
                 /\ isHybrid => e.ac <= FLOOR
      <4>1. ac <= FLOOR /\ ac # 0
        BY <2>3, <3>1, <3>3, <3>5 DEF GearFollowed, MembersFollow, MAX_KNOBS
      <4>2. isHybrid => \/ e = [ac |-> ac, dc |-> dc]
                        \/ /\ e = [ac |-> Minus(ac, ECORE_OFFSET), dc |-> Minus(dc, ECORE_OFFSET)]
                           /\ ac = FLOOR
        BY <2>1, <3>1, <4>1 DEF ECoresFollow, FLOOR
      <4>3. ac = FLOOR => Minus(ac, ECORE_OFFSET) <= FLOOR
        BY DEF Minus, ECORE_OFFSET, FLOOR
      <4> QED
        BY <4>1, <4>2, <4>3
    <3>6. ASSUME gear < MAX_KNOBS, s <= FLOOR, ~stepped
          PROVE  /\ ac = FLOOR /\ dc = FLOOR
                 /\ isHybrid => e = [ac |-> FLOOR, dc |-> FLOOR]
      <4>1. ac = FLOOR /\ dc = FLOOR
        BY <3>3, <3>6 DEF GearFollowed
      <4> QED
        BY <2>1, <3>6, <4>1 DEF ECoresFollow, FLOOR
    <3> HIDE DEF s
    <3> QED
      BY <2>1, <3>2, <3>4, <3>5, <3>6 DEF s, Released
  <2> QED
    BY <2>2, <2>3 DEF PolicyFollowsGear
<1> QED
  BY <1>1, LimiterInvHolds, PTL

-----------------------------------------------------------------------------
\* Shifting down raises no limit but to the floor, and a release that was lost
\* stays lost until the object writes again: step by step
\* from the invariant, whether or not the writes succeed.
LEMMA ShiftDownRaises ==
    ASSUME LimiterInv, LimiterInv', ~faulty, alive, maxFrequency # 0,
           NEW count \in DownCounts, GearDown(count), gear' < gear, NEW c \in Core
    PROVE  LET old == power.applied[c]
               new == power'.applied[c]
           IN  /\ old.ac # 0 /\ new.ac > old.ac => new.ac = FLOOR
               /\ old.dc # 0 /\ new.dc > old.dc => new.dc = FLOOR
<1> USE DEF LimiterInv
<1> DEFINE old == power.applied[c]
           new == power'.applied[c]
<1>1. /\ ac \in Nat /\ dc \in Nat /\ ac' \in Nat /\ dc' \in Nat /\ gear \in Nat /\ gear <= 100
      /\ maxFrequency \in MaxFrequencies
  BY ConstantAssumption, Numbers DEF TypeOK, Uint32
<1>2. GearDownStep(count) \/ GearDownBottom(count)
  <2>1. ~GearDownIgnored(count)
    <3>1. gear' # gear
      BY <1>1
    <3> QED
      BY <3>1 DEF GearDownIgnored, vars, members
  <2> QED
    BY <2>1 DEF GearDown
<1>3. \E e \in {0, ECORE_OFFSET} : Shift(e)
  BY <1>2, GearDownStepShifts, GearDownBottomShifts
<1>4. isHybrid' = isHybrid /\ faulty' = faulty /\ alive' /\ maxFrequency' = maxFrequency
  BY <1>3 DEF Shift, machine
<1>5. /\ power.applied = power.scheme /\ power'.applied = power'.scheme
      /\ power'.scheme[PCORE] = [ac |-> ac', dc |-> dc'] /\ (isHybrid => ECoresFollow')
  BY <1>4 DEF SchemeFollows
<1>6. c \in {PCORE, ECORE} /\ PCORE # ECORE
  BY DEF Core, PCORE, ECORE
<1>7. ac = 0 \/ ac > FLOOR
  BY <1>2 DEF GearDownStep, GearDownBottom, MayGearDown
\* The cores that this machine has not are never written.
<1>8. CASE c = ECORE /\ ~isHybrid
  <2>1. PICK e \in {0, ECORE_OFFSET} : Shift(e)
    BY <1>3
  <2> DEFINE pl == [ac |-> ac', dc |-> dc']
             el == [ac |-> Minus(ac', e), dc |-> Minus(dc', e)]
  <2> HIDE DEF pl, el
  <2>2. pl \in Limits /\ el \in Limits /\ power' \in SetLimits(power, pl, el)
    BY <2>1, ShiftWrites DEF pl, el
  <2>3. power'.scheme[ECORE] = power.scheme[ECORE]
    BY <1>8, <2>2, SetLimitsExact DEF TypeOK
  <2>4. old = new /\ old.ac \in Nat /\ old.dc \in Nat
    BY <1>5, <1>6, <1>8, <2>3, ConstantAssumption DEF TypeOK, Power, Limits, Uint32, Core
  <2> HIDE DEF old, new
  <2>5. /\ old.ac # 0 /\ new.ac > old.ac => new.ac = FLOOR
        /\ old.dc # 0 /\ new.dc > old.dc => new.dc = FLOOR
    BY <2>4
  <2> QED
    BY <2>5 DEF old, new
\* Nothing was applied before.
<1>9. CASE (c = PCORE \/ isHybrid) /\ ac = 0
  <2>1. old = Released
    <3>1. dc = 0
      BY <1>1, <1>9 DEF MembersFollow
    <3>2. isHybrid => power.scheme[ECORE] = Released
      BY <1>9, <3>1 DEF SchemeFollows, ECoresFollow, FLOOR, Released
    <3>3. power.scheme[PCORE] = Released
      BY <1>9, <3>1 DEF SchemeFollows, Released
    <3> QED
      BY <1>5, <1>6, <1>9, <3>2, <3>3
  <2>2. old.ac = 0 /\ old.dc = 0
    BY <2>1 DEF Released
  <2> HIDE DEF old
  <2> QED
    BY <2>2 DEF old
\* The object regulates: it goes down from above the floor.
<1>10. CASE (c = PCORE \/ isHybrid) /\ ac # 0
  <2>1. ac > FLOOR /\ gear > 0 /\ gear \in Nat /\ gear # MAX_KNOBS
    BY <1>1, <1>2, <1>7, <1>10, Numbers
    DEF MembersFollow, GearDownStep, GearDownBottom, TypeOK, Gears, MAX_KNOBS
  <2>2. dc = ac - 200 /\ ac = Scaled[maxFrequency][gear] /\ ac > 1000
    <3>1. GearFollowed
      BY <2>1 DEF MembersFollow
    <3>2. gear \in Gears
      BY DEF TypeOK
    <3>3. Scaled[maxFrequency][gear] \in Nat
      BY <1>1, <2>1, <3>2, ScaledBounds
    <3> QED
      BY <1>1, <2>1, <3>1, <3>3 DEF GearFollowed, FLOOR, DC_OFFSET
  <2>3. /\ power.scheme[PCORE] = [ac |-> ac, dc |-> ac - 200]
        /\ isHybrid => power.scheme[ECORE] = [ac |-> ac - 100, dc |-> ac - 300]
    <3>1. isHybrid => power.scheme[ECORE] = [ac |-> Minus(ac, ECORE_OFFSET), dc |-> Minus(dc, ECORE_OFFSET)]
      BY <1>1, <1>10, <2>2 DEF SchemeFollows, ECoresFollow, FLOOR
    <3>2. Minus(ac, ECORE_OFFSET) = ac - 100 /\ Minus(dc, ECORE_OFFSET) = ac - 300
      BY <1>1, <2>2 DEF Minus, ECORE_OFFSET
    <3> QED
      BY <1>10, <2>2, <3>1, <3>2 DEF SchemeFollows
  <2>4. \/ ac' = FLOOR /\ dc' = FLOOR
        \/ ac' <= ac /\ ac' > FLOOR /\ dc' = ac' - 200
    <3>1. CASE GearDownStep(count)
      <4>1. CASE ac' = FLOOR /\ dc' = FLOOR
        BY <4>1
      <4>2. CASE ~(ac' = FLOOR /\ dc' = FLOOR)
        <5>1. /\ gear' \in 1 .. MAX_KNOBS - 1 /\ gear' < gear
              /\ ac' = Scaled[maxFrequency][gear'] /\ ac' > FLOOR /\ dc' = ac' - 200
          BY <3>1, <4>2, GearDownStepShifts DEF DC_OFFSET
        <5>2. gear' \in Gears /\ gear \in Gears
          BY DEF TypeOK
        <5>3. ac' <= ac
          BY <1>1, <2>2, <5>1, <5>2, ScaledGrows
        <5> QED
          BY <5>1, <5>3
      <4> QED
        BY <4>1, <4>2
    <3>2. CASE GearDownBottom(count)
      <4>1. ac' = ac /\ dc' = ac' - 200 /\ ac' > FLOOR
        BY <1>10, <3>2, GearDownBottomShifts DEF DC_OFFSET
      <4> QED
        BY <1>1, <4>1
    <3> QED
      BY <1>2, <3>1, <3>2
  <2>5. /\ power'.scheme[PCORE] = [ac |-> ac', dc |-> dc']
        /\ isHybrid => \/ power'.scheme[ECORE] = [ac |-> ac', dc |-> dc'] /\ ac' <= FLOOR
                       \/ power'.scheme[ECORE] = [ac |-> ac' - 100, dc |-> dc' - 100]
                          /\ dc' = ac' - 200 /\ ac' >= FLOOR
    <3>1. isHybrid => \/ power'.scheme[ECORE] = [ac |-> ac', dc |-> dc'] /\ ac' <= FLOOR
                      \/ /\ power'.scheme[ECORE] = [ac |-> Minus(ac', ECORE_OFFSET),
                                                    dc |-> Minus(dc', ECORE_OFFSET)]
                         /\ dc' = ac' - 200 /\ ac' >= FLOOR
      <4>1. ac' # 0 /\ ac' >= 1000
        <5>1. \A x \in Nat : x > 1000 \/ x = 1000 => x # 0 /\ x >= 1000
          OBVIOUS
        <5>2. ac' \in Nat /\ (ac' > 1000 \/ ac' = 1000)
          BY <1>1, <2>4, Zenon DEF FLOOR
        <5> QED
          BY <5>1, <5>2, Zenon
      <4>2. isHybrid => ECoresFollow'
        BY <1>5
      <4>3. DC_OFFSET = 200 /\ FLOOR = 1000
        BY DEF DC_OFFSET, FLOOR
      <4> QED
        BY <4>1, <4>2, <4>3, Zenon DEF ECoresFollow
    <3>2. dc' = ac' - 200 /\ ac' >= FLOOR =>
            Minus(ac', ECORE_OFFSET) = ac' - 100 /\ Minus(dc', ECORE_OFFSET) = dc' - 100
      BY <1>1, OffsetsFit DEF DC_OFFSET
    <3> QED
      BY <1>5, <3>1, <3>2
  <2> HIDE DEF old, new
  <2>6. CASE c = PCORE
    <3>1. old.ac = ac /\ old.dc = ac - 200 /\ new.ac = ac' /\ new.dc = dc'
      BY <1>5, <2>3, <2>5, <2>6 DEF old, new
    <3>2. /\ old.ac # 0 /\ new.ac > old.ac => new.ac = FLOOR
          /\ old.dc # 0 /\ new.dc > old.dc => new.dc = FLOOR
      <4>1. CASE ac' = FLOOR /\ dc' = FLOOR
        BY <3>1, <4>1
      <4>2. CASE ac' <= ac /\ ac' > FLOOR /\ dc' = ac' - 200
        <5>1. ~(ac' > ac)
          BY <1>1, <4>2
        <5>2. ~(ac' - 200 > ac - 200)
          <6>1. \A x, y \in Nat : x <= y => ~(x - 200 > y - 200)
            OBVIOUS
          <6> QED
            BY <1>1, <4>2, <6>1
        <5> QED
          BY <3>1, <4>2, <5>1, <5>2
      <4> QED
        BY <2>4, <4>1, <4>2
    <3> QED
      BY <3>2 DEF old, new
  <2>7. CASE c = ECORE /\ isHybrid
    <3>1. old.ac = ac - 100 /\ old.dc = ac - 300
      BY <1>5, <2>3, <2>7 DEF old
    <3>2. \/ new.ac = ac' /\ new.dc = dc' /\ ac' <= FLOOR
          \/ new.ac = ac' - 100 /\ new.dc = dc' - 100 /\ dc' = ac' - 200
      BY <1>5, <2>5, <2>7 DEF new
    <3>3. /\ old.ac # 0 /\ new.ac > old.ac => new.ac = FLOOR
          /\ old.dc # 0 /\ new.dc > old.dc => new.dc = FLOOR
      BY <1>1, <2>2, <2>4, <3>1, <3>2 DEF FLOOR
    <3> QED
      BY <3>3 DEF old, new
  <2> QED
    BY <1>6, <1>10, <2>6, <2>7
<1> QED
  BY <1>6, <1>8, <1>9, <1>10

\* For every measured frequency, all counts, with and without failures.
THEOREM LimitsKeptByEveryStep == Spec => StepsKeepLimits
<1>1. LimiterInv /\ LimiterInv' /\ [Next]_vars => DownRaises
  <2> SUFFICES ASSUME LimiterInv, LimiterInv', [Next]_vars, ~faulty, alive, alive', gear' < gear,
                      maxFrequency # 0, NEW c \in Core
               PROVE  LET old == power.applied[c]
                          new == power'.applied[c]
                      IN  /\ old.ac # 0 /\ new.ac > old.ac => new.ac = FLOOR
                          /\ old.dc # 0 /\ new.dc > old.dc => new.dc = FLOOR
    BY DEF DownRaises
  <2> USE DEF LimiterInv
  <2>1. gear \in Nat /\ gear <= 100
    BY Numbers
  <2>2. PICK count \in DownCounts : GearDown(count)
    <3>1. ~UNCHANGED gear
      BY <2>1
    <3>2. ~Construct /\ ~Destroy /\ ~Crash
      BY DEF Construct, Destroy, Crash, Vanish
    <3>3. ASSUME NEW count \in UpCounts PROVE ~GearUp(count)
      BY <2>1, <3>1, ConstantAssumption
      DEF GearUp, GearUpStep, GearUpTop, GearUpIgnored, MAX_KNOBS, vars, members
    <3> QED
      BY <3>1, <3>2, <3>3 DEF Next, vars, members
  <2> QED
    BY <2>2, ShiftDownRaises
<1>2. LimiterInv /\ LimiterInv' /\ [Next]_vars => ReleaseStaysLost
  <2> SUFFICES ASSUME LimiterInv, LimiterInv', [Next]_vars, alive, alive', maxFrequency # 0, ac = 0, Limited
               PROVE  Limited'
    BY DEF ReleaseStaysLost
  <2> USE DEF LimiterInv
  <2>2. ASSUME NEW e \in {0, ECORE_OFFSET}, Shift(e) PROVE Limited'
    BY <2>2, ShiftLimits
  <2>3. ~Construct /\ ~Destroy /\ ~Crash
    BY DEF Construct, Destroy, Crash, Vanish
  <2>5. ASSUME NEW count \in DownCounts, GearDown(count) PROVE Limited'
    <3>1. CASE GearDownIgnored(count)
      BY <3>1 DEF GearDownIgnored, vars, Limited
    <3> QED
      BY <2>2, <2>5, <3>1, GearDownStepShifts, GearDownBottomShifts DEF GearDown
  <2>6. ASSUME NEW count \in UpCounts, GearUp(count) PROVE Limited'
    BY <2>6 DEF GearUp, GearUpStep, GearUpTop, MayGearUp, GearUpIgnored, vars, Limited
  <2>7. CASE UNCHANGED vars
    BY <2>7 DEF vars, Limited
  <2> QED
    BY <2>3, <2>5, <2>6, <2>7 DEF Next
<1> QED
  BY <1>1, <1>2, LimiterInvHolds, PTL DEF Spec, StepsKeepLimits

-----------------------------------------------------------------------------
\* A call that writes sound limits leaves a sound policy, however far it gets.
LEMMA SetCoreSound ==
    ASSUME NEW s \in BOOLEAN, NEW p \in Power, SoundPower(p, s), NEW k \in Core,
           NEW l \in Limits, SoundLimits(l, s)
    PROVE  \A q \in SetCoreMaxFrequency(p, k, l) : SoundPower(q, s)
<1> DEFINE acOnly == [p.scheme EXCEPT ![k] = [ac |-> l.ac, dc |-> @.dc]]
           both   == [p.scheme EXCEPT ![k] = l]
<1>1. \A c \in Core : SoundLimits(acOnly[c], s) /\ SoundLimits(both[c], s)
  <2> SUFFICES ASSUME NEW c \in Core PROVE SoundLimits(acOnly[c], s) /\ SoundLimits(both[c], s)
    OBVIOUS
  <2>1. SoundLimits(p.scheme[c], s) /\ SoundLimits(p.scheme[k], s)
    BY DEF SoundPower
  <2>2. SoundLimits([ac |-> l.ac, dc |-> p.scheme[k].dc], s)
    BY <2>1 DEF SoundLimits
  <2>3. acOnly[c] = (IF c = k THEN [ac |-> l.ac, dc |-> p.scheme[k].dc] ELSE p.scheme[c])
        /\ both[c] = IF c = k THEN l ELSE p.scheme[c]
    BY DEF Power
  <2> HIDE DEF acOnly, both
  <2> QED
    BY <2>1, <2>2, <2>3
<1> HIDE DEF acOnly, both
<1>2. SoundPower([scheme |-> both, applied |-> both], s)
  BY <1>1 DEF SoundPower
<1>3. SoundPower([p EXCEPT !.scheme = acOnly], s) /\ SoundPower([p EXCEPT !.scheme = both], s)
  BY <1>1 DEF SoundPower, Power
<1>4. SetCoreMaxFrequency(p, k, l) \subseteq
        {[scheme |-> both, applied |-> both], p, [p EXCEPT !.scheme = acOnly], [p EXCEPT !.scheme = both]}
  BY DEF SetCoreMaxFrequency, acOnly, both
<1> QED
  BY <1>2, <1>3, <1>4

LEMMA SetLimitsSound ==
    ASSUME NEW s \in BOOLEAN, power \in Power, SoundPower(power, s),
           NEW pl \in Limits, SoundLimits(pl, s), NEW el \in Limits, SoundLimits(el, s)
    PROVE  \A q \in SetLimits(power, pl, el) : SoundPower(q, s)
<1> DEFINE afterP == SetCoreMaxFrequency(power, PCORE, pl)
<1>1. PCORE \in Core /\ ECORE \in Core
  BY DEF Core
<1>2. \A p \in afterP : p \in Power /\ SoundPower(p, s)
  BY <1>1, SetCoreType, SetCoreSound
<1>3. \A p \in afterP : \A q \in SetCoreMaxFrequency(p, ECORE, el) : SoundPower(q, s)
  BY <1>1, <1>2, SetCoreSound
<1> HIDE DEF afterP
<1>4. SetLimits(power, pl, el) = IF isHybrid THEN UNION {SetCoreMaxFrequency(r, ECORE, el) : r \in afterP}
                                       ELSE afterP
  BY DEF SetLimits, afterP
<1> QED
  BY <1>2, <1>3, <1>4

\* Zero is no limit, whatever the bound.
LEMMA ReleaseSound ==
    ASSUME NEW s \in BOOLEAN, power \in Power, SoundPower(power, s), Release
    PROVE  SoundPower(power', s)
<1>1. Released \in Limits /\ SoundLimits(Released, s)
  BY ZeroInUint32 DEF Released, Limits, SoundLimits, InRange
<1> QED
  BY <1>1, SetLimitsSound DEF Release

\* Once GearUp has been called with small counts the bounds are weaker.
LEMMA SoundAnyCounts ==
    ASSUME power \in Power, NEW s \in BOOLEAN, SoundPower(power, s)
    PROVE  SoundPower(power, TRUE)
<1>1. \A l \in Limits : SoundLimits(l, s) => SoundLimits(l, TRUE)
  <2>1. \A x \in Uint32 : InRange(x, 900) \/ InRange(x, 700) => InRange(x, 0)
    BY ConstantAssumption DEF InRange, Uint32
  <2> QED
    BY <2>1 DEF SoundLimits, Limits
<1>2. \A c \in Core : power.scheme[c] \in Limits /\ power.applied[c] \in Limits
  BY DEF Power
<1> QED
  BY <1>1, <1>2 DEF SoundPower

\* From the floor on, the limits with offsets are within range.
LEMMA OffsetsSound ==
    ASSUME NEW m \in MaxFrequencies, m \in Nat, NEW a \in Nat, a <= m, NEW s \in BOOLEAN,
           a > 1000 \/ (a = 1000 /\ s)
    PROVE  /\ InRange(a, IF s THEN 0 ELSE 900) /\ InRange(a - 200, IF s THEN 0 ELSE 700)
           /\ InRange(a - 100, IF s THEN 0 ELSE 900) /\ InRange(a - 300, IF s THEN 0 ELSE 700)
<1>1. CASE s
  <2>1. /\ a > 0 /\ a - 100 > 0 /\ a - 200 > 0 /\ a - 300 > 0
        /\ a - 100 <= m /\ a - 200 <= m /\ a - 300 <= m
    OBVIOUS
  <2> QED
    BY <1>1, <2>1 DEF InRange
<1>2. CASE ~s
  <2>1. /\ a > 900 /\ a - 100 > 900 /\ a - 200 > 700 /\ a - 300 > 700
        /\ a - 100 <= m /\ a - 200 <= m /\ a - 300 <= m
    BY <1>2
  <2> QED
    BY <1>2, <2>1 DEF InRange
<1> QED
  BY <1>1, <1>2

LEMMA ShiftSound ==
    ASSUME TypeOK, TypeOK', MembersFollow', NeverStarved,
           NEW e \in {0, ECORE_OFFSET}, Shift(e)
    PROVE  NeverStarved'
<1> DEFINE pl == [ac |-> ac', dc |-> dc']
           el == [ac |-> Minus(ac', e), dc |-> Minus(dc', e)]
<1>1. /\ ac' \in Nat /\ dc' \in Nat /\ ShiftValues(e) /\ maxFrequency \in MaxFrequencies
      /\ maxFrequency \in Nat /\ maxFrequency' = maxFrequency /\ Word \in Nat /\ Word > 1500
      /\ stepped \in BOOLEAN /\ stepped' \in BOOLEAN
  BY Numbers, ConstantAssumption DEF Shift, TypeOK, Uint32, ADL_TURBO
<1>2. ac' <= maxFrequency /\ (maxFrequency # 0 => dc' <= maxFrequency)
  BY <1>1 DEF MembersFollow
<1>3. SoundLimits(pl, stepped') /\ SoundLimits(el, stepped')
  <2> DEFINE la == IF stepped' THEN 0 ELSE 900
             ld == IF stepped' THEN 0 ELSE 700
  <2>1. /\ InRange(ac', la) /\ InRange(dc', ld)
        /\ InRange(Minus(ac', e), la) /\ InRange(Minus(dc', e), ld)
    <3>1. CASE e = 0 /\ ac' = 0 /\ dc' = 0
      BY <3>1, ShiftWrites DEF InRange
    <3>2. CASE e = 0 /\ ac' # 0 /\ (stepped' \/ (ac' = FLOOR /\ dc' = FLOOR))
      <4>1. maxFrequency # 0 /\ ac' <= maxFrequency /\ dc' <= maxFrequency
        BY <1>1, <1>2, <3>2
      <4>2. ac' > la /\ (dc' = 0 \/ dc' > ld)
        BY <1>1, <3>2 DEF FLOOR
      <4>3. InRange(ac', la) /\ InRange(dc', ld)
        BY <1>1, <4>1, <4>2 DEF InRange
      <4> QED
        BY <3>2, <4>3, ShiftWrites
    <3>3. CASE e = ECORE_OFFSET /\ dc' = ac' - 200 /\ (ac' > FLOOR \/ (ac' = FLOOR /\ stepped'))
      <4>1. ac' # 0 /\ ac' >= 1000
        BY <1>1, <3>3 DEF FLOOR
      <4>2. Minus(ac', e) = ac' - 100 /\ Minus(dc', e) = ac' - 300
        <5>1. Minus(ac', e) = ac' - 100 /\ Minus(dc', e) = dc' - 100
          BY <3>3, <4>1, ShiftWrites
        <5> QED
          BY <1>1, <3>3, <5>1
      <4>3. /\ InRange(ac', la) /\ InRange(ac' - 200, ld)
            /\ InRange(ac' - 100, la) /\ InRange(ac' - 300, ld)
        <5>1. ac' > 1000 \/ (ac' = 1000 /\ stepped')
          BY <3>3 DEF FLOOR
        <5> QED
          BY <1>1, <1>2, <5>1, OffsetsSound
      <4> QED
        BY <3>3, <4>2, <4>3
    <3>4. CASE e = ECORE_OFFSET /\ ac' = 0 /\ dc' = Word - 200 /\ maxFrequency = 0
      <4>1. Minus(ac', e) = Word - 100 /\ Minus(dc', e) = Word - 300 /\ 0 \in MaxFrequencies
        BY <1>1, <3>4, ShiftWrites
      <4>2. dc' \in WrappedLimits /\ Minus(ac', e) \in WrappedLimits /\ Minus(dc', e) \in WrappedLimits
        BY <1>1, <3>4, <4>1 DEF WrappedLimits, ECORE_OFFSET, DC_OFFSET
      <4> QED
        BY <3>4, <4>1, <4>2 DEF InRange
    <3> QED
      BY <1>1, <3>1, <3>2, <3>3, <3>4 DEF ShiftValues, DC_OFFSET
  <2> QED
    BY <2>1 DEF SoundLimits
<1>4. SoundPower(power, stepped')
  <2>1. stepped' = stepped \/ stepped' = TRUE
    BY <1>1 DEF Shift
  <2>2. SoundPower(power, stepped) /\ power \in Power
    BY DEF NeverStarved, TypeOK
  <2> QED
    BY <1>1, <2>1, <2>2, SoundAnyCounts
<1> HIDE DEF pl, el
<1>5. pl \in Limits /\ el \in Limits /\ power' \in SetLimits(power, pl, el)
  BY ShiftWrites DEF pl, el
<1> QED
  BY <1>1, <1>3, <1>4, <1>5, SetLimitsSound DEF NeverStarved, TypeOK

\* Whatever failed writes, crashes and restarts leave behind,
\* no limit is below the floor less its offsets (unless GearUp was called with
\* small counts) or has wrapped, except where nothing was measured; for every
\* machine and any counts, if what a previous run left is no limit of another
\* kind.
THEOREM LimitsNeverStarve ==
    ASSUME \A l \in StoredLimits : InRange(l, 900)
    PROVE  Spec => []NeverStarved
<1>1. Init => NeverStarved
  <2> SUFFICES ASSUME Init PROVE NeverStarved
    OBVIOUS
  <2>1. PICK l \in [ac : StoredLimits, dc : StoredLimits] :
            power = [scheme |-> [c \in Core |-> l], applied |-> [c \in Core |-> l]]
    BY DEF Init, MachineInit
  <2>2. InRange(l.ac, 900) /\ InRange(l.dc, 900) /\ l.dc \in Uint32
    BY ConstantAssumption
  <2>3. SoundLimits(l, stepped)
    BY <2>2, ConstantAssumption DEF SoundLimits, InRange, Uint32, Init
  <2> QED
    BY <2>1, <2>3 DEF NeverStarved, SoundPower
<1>2. NeverStarved /\ LimiterInv /\ LimiterInv' /\ [Next]_vars => NeverStarved'
  <2> SUFFICES ASSUME NeverStarved, LimiterInv, LimiterInv', [Next]_vars PROVE NeverStarved'
    OBVIOUS
  <2> USE DEF LimiterInv
  <2>1. ASSUME NEW e \in {0, ECORE_OFFSET}, Shift(e) PROVE NeverStarved'
    BY <2>1, ShiftSound
  <2>2. ASSUME Release, stepped' = stepped PROVE NeverStarved'
    BY <2>2, ReleaseSound DEF NeverStarved, TypeOK
  <2>3. ASSUME power' = power, stepped' = stepped PROVE NeverStarved'
    BY <2>3 DEF NeverStarved
  <2>4. ASSUME NEW count \in DownCounts, GearDown(count) PROVE NeverStarved'
    <3>1. CASE GearDownIgnored(count)
      BY <2>3, <3>1 DEF GearDownIgnored, vars
    <3> QED
      BY <2>1, <2>4, <3>1, GearDownStepShifts, GearDownBottomShifts DEF GearDown
  <2>5. ASSUME NEW count \in UpCounts, GearUp(count) PROVE NeverStarved'
    <3>1. CASE GearUpStep(count)
      BY <2>1, <3>1, GearUpStepShifts
    <3>2. CASE GearUpTop(count)
      BY <2>2, <3>2 DEF GearUpTop
    <3>3. CASE GearUpIgnored(count)
      BY <2>3, <3>3 DEF GearUpIgnored, vars
    <3> QED
      BY <2>5, <3>1, <3>2, <3>3 DEF GearUp
  <2>6. Construct \/ Destroy => NeverStarved'
    BY <2>2 DEF Construct, Destroy, Vanish
  <2>7. Crash \/ UNCHANGED vars => NeverStarved'
    BY <2>3 DEF Crash, Vanish, vars
  <2> QED
    BY <2>4, <2>5, <2>6, <2>7 DEF Next
<1> QED
  BY <1>1, <1>2, LimiterInvHolds, PTL DEF Spec
-----------------------------------------------------------------------------
(* The objects of several processes, call by call (SharedPowerScheme). *)

Sources == {"ac", "dc"}

\* Process p is still going to write this value of its sequence.
Pending(p, c, source) ==
    /\ ~Idle(p)
    /\ \/ core[p] = PCORE /\ c = ECORE
       \/ c = core[p] /\ (call[p] = "ac" \/ call[p] = source)

\* An object that is gone, or never was, has asked for no limits.
InSequence ==
    \A p \in Processes :
        /\ Idle(p) => core[p] = PCORE
        /\ core[p] = ECORE => isHybrid
        /\ ~object[p] => asked[p] = NoLimits

\* What is stored by a process is what it asked for, unless it will write it
\* again; what is applied too, unless it has not returned; and it has not returned
\* while what it stored is not applied.
Accounted ==
    \A p \in Processes, c \in Core, source \in Sources :
        /\ by.scheme[c][source] = p =>
              /\ c = ECORE => isHybrid
              /\ power.scheme[c][source] = asked[p][c][source] \/ Pending(p, c, source)
              /\ Idle(p) => power.scheme[c][source] = power.applied[c][source]
        /\ by.applied[c][source] = p =>
              power.applied[c][source] = asked[p][c][source] \/ ~Idle(p)

\* What SetCoreMaxFrequency(c, l) has made of q when its next call is this one.
Partly(q, c, next, l) ==
    [q EXCEPT !.scheme[c] = [ac |-> IF next = "ac" THEN @.ac ELSE l.ac,
                             dc |-> IF next = "apply" THEN l.dc ELSE @.dc]]

\* SetCoreMaxFrequency and SetLimits, with the machine as a parameter.
Outcomes(f, q, c, l) ==
    LET acOnly == [q.scheme EXCEPT ![c] = [ac |-> l.ac, dc |-> @.dc]]
        both   == [q.scheme EXCEPT ![c] = l]
    IN  {[scheme |-> both, applied |-> both]}
          \cup IF f THEN {q, [q EXCEPT !.scheme = acOnly], [q EXCEPT !.scheme = both]} ELSE {}

AllOutcomes(h, f, q, pl, el) ==
    IF h THEN UNION {Outcomes(f, r, ECORE, el) : r \in Outcomes(f, q, PCORE, pl)}
         ELSE Outcomes(f, q, PCORE, pl)

\* The calls of process p, of which none but its own have come since b.
AloneSince(p, b) ==
    /\ Idle(p) => power \in AllOutcomes(isHybrid, faulty, b, asked[p][PCORE], asked[p][ECORE])
    /\ ~Idle(p) /\ core[p] = PCORE => power = Partly(b, PCORE, call[p], asked[p][PCORE])
    /\ ~Idle(p) /\ core[p] = ECORE =>
         \E q \in Outcomes(faulty, b, PCORE, asked[p][PCORE]) :
             power = Partly(q, ECORE, call[p], asked[p][ECORE])

Undisturbed == \A p \in Processes : \A b \in before[p] : AloneSince(p, b)

SharedInv == SharedTypeOK /\ InSequence /\ (~faulty => Accounted) /\ Undisturbed

LEMMA Cores == PCORE \in Core /\ ECORE \in Core /\ PCORE # ECORE /\ Core = {PCORE, ECORE}
BY DEF Core, PCORE, ECORE

LEMMA NoLimitsType == NoLimits \in [Core -> Limits] /\ Released \in Limits
BY ZeroInUint32 DEF NoLimits, Released, Limits

\* A single value of the pairs of both core types.
WithCell(m, k, source, v) == [m EXCEPT ![k][source] = v]
Pairs(S) == [Core -> [ac : S, dc : S]]

LEMMA OneCell ==
    ASSUME NEW S, NEW m \in Pairs(S), NEW k \in Core, NEW source \in Sources, NEW v \in S
    PROVE  /\ WithCell(m, k, source, v) \in Pairs(S)
           /\ \A c \in Core, s \in Sources :
                  WithCell(m, k, source, v)[c][s] =
                      IF c = k /\ s = source THEN v ELSE m[c][s]
<1> DEFINE r == [m[k] EXCEPT ![source] = v]
<1>1. m[k] \in [ac : S, dc : S]
  BY DEF Pairs
<1>2. r \in [ac : S, dc : S] /\ \A s \in Sources : r[s] = IF s = source THEN v ELSE m[k][s]
  BY <1>1 DEF Sources
<1> HIDE DEF r
<1>3. WithCell(m, k, source, v) = [m EXCEPT ![k] = r]
  BY DEF r, WithCell
<1> QED
  BY <1>2, <1>3 DEF Pairs

\* What one of the two writes changes.
LEMMA WriteFacts ==
    ASSUME SharedTypeOK, NEW p \in Processes, NEW source \in Sources, NEW next,
           PowerWriteValueIndex(p, source, next)
    PROVE  /\ power' \in Power /\ power'.applied = power.applied
           /\ by' \in [scheme : [Core -> Cells], applied : [Core -> Cells]]
           /\ by'.applied = by.applied
           /\ \A c \in Core, s \in Sources :
                 /\ power'.scheme[c][s] = IF c = core[p] /\ s = source
                                          THEN asked[p][c][s] ELSE power.scheme[c][s]
                 /\ by'.scheme[c][s] = IF c = core[p] /\ s = source
                                       THEN p ELSE by.scheme[c][s]
<1>1. core[p] \in Core /\ asked[p][core[p]] \in Limits /\ asked[p][core[p]][source] \in Uint32
  BY DEF SharedTypeOK, Limits, Sources
<1> DEFINE v == asked[p][core[p]][source]
           n == WithCell(power.scheme, core[p], source, v)
           w == WithCell(by.scheme, core[p], source, p)
<1>2. power.scheme \in Pairs(Uint32) /\ power.applied \in Pairs(Uint32)
  BY DEF SharedTypeOK, Power, Limits, Pairs
<1>3. by.scheme \in Pairs(Processes \cup {Former})
  BY DEF SharedTypeOK, Cells, Pairs
<1>4. power' = [power EXCEPT !.scheme = n] /\ by' = [by EXCEPT !.scheme = w]
  BY DEF PowerWriteValueIndex, WithCell
<1>5. v \in Uint32 /\ p \in Processes \cup {Former}
  BY <1>1
<1> HIDE DEF v
<1>6. /\ n \in Pairs(Uint32)
      /\ \A c \in Core, s \in Sources :
             n[c][s] = IF c = core[p] /\ s = source THEN v ELSE power.scheme[c][s]
  BY <1>1, <1>2, <1>5, OneCell
<1>7. /\ w \in Pairs(Processes \cup {Former})
      /\ \A c \in Core, s \in Sources :
             w[c][s] = IF c = core[p] /\ s = source THEN p ELSE by.scheme[c][s]
  BY <1>1, <1>3, <1>5, OneCell
<1> HIDE DEF n, w
<1>8. /\ power' \in Power /\ power'.applied = power.applied /\ power'.scheme = n
  BY <1>2, <1>4, <1>6 DEF SharedTypeOK, Power, Limits, Pairs
<1>9. /\ by' \in [scheme : [Core -> Cells], applied : [Core -> Cells]]
      /\ by'.applied = by.applied /\ by'.scheme = w
  BY <1>3, <1>4, <1>7 DEF SharedTypeOK, Cells, Pairs
<1> QED
  BY <1>6, <1>7, <1>8, <1>9 DEF v

LEMMA SameOutcomes ==
    ASSUME NEW b, NEW pl, NEW el
    PROVE  SetLimits(b, pl, el) = AllOutcomes(isHybrid, faulty, b, pl, el)
<1>1. \A q, c, l : SetCoreMaxFrequency(q, c, l) = Outcomes(faulty, q, c, l)
  BY DEF SetCoreMaxFrequency, Outcomes
<1> QED
  BY <1>1 DEF SetLimits, AllOutcomes

\* The calls of one SetCoreMaxFrequency, one after the other.
LEMMA OutcomesType ==
    ASSUME NEW f \in BOOLEAN, NEW q \in Power, NEW c \in Core, NEW l \in Limits
    PROVE  Outcomes(f, q, c, l) \subseteq Power
<1> DEFINE acOnly == [q.scheme EXCEPT ![c] = [ac |-> l.ac, dc |-> @.dc]]
           both   == [q.scheme EXCEPT ![c] = l]
<1>1. acOnly \in [Core -> Limits] /\ both \in [Core -> Limits]
  BY DEF Power, Limits
<1>2. Outcomes(f, q, c, l) \subseteq {[scheme |-> both, applied |-> both], q,
                                     [q EXCEPT !.scheme = acOnly], [q EXCEPT !.scheme = both]}
  BY DEF Outcomes
<1> HIDE DEF acOnly, both
<1>3. /\ [scheme |-> both, applied |-> both] \in Power
      /\ [q EXCEPT !.scheme = acOnly] \in Power /\ [q EXCEPT !.scheme = both] \in Power
  BY <1>1 DEF Power
<1> QED
  BY <1>2, <1>3

LEMMA NothingWritten ==
    ASSUME NEW q \in Power, NEW c \in Core, NEW l \in Limits
    PROVE  Partly(q, c, "ac", l) = q
<1> DEFINE pair == [ac |-> q.scheme[c].ac, dc |-> q.scheme[c].dc]
<1>1. q.scheme \in [Core -> Limits] /\ q.scheme[c] \in Limits
  BY DEF Power
<1>2. pair = q.scheme[c]
  BY <1>1 DEF Limits
<1> HIDE DEF pair
<1>3. [q.scheme EXCEPT ![c] = pair] = q.scheme
  BY <1>1, <1>2
<1>4. Partly(q, c, "ac", l) = [q EXCEPT !.scheme = [q.scheme EXCEPT ![c] = pair]]
  BY DEF Partly, pair
<1> QED
  BY <1>3, <1>4 DEF Power

LEMMA OneMoreWritten ==
    ASSUME NEW q \in Power, NEW c \in Core, NEW l \in Limits,
           NEW source \in Sources, NEW next,
           next = IF source = "ac" THEN "dc" ELSE "apply",
           NEW y, y = Partly(q, c, source, l)
    PROVE  [y EXCEPT !.scheme[c][source] = l[source]] = Partly(q, c, next, l)
<1> DEFINE old == [ac |-> IF source = "ac" THEN q.scheme[c].ac ELSE l.ac, dc |-> q.scheme[c].dc]
           new == [ac |-> l.ac, dc |-> IF next = "apply" THEN l.dc ELSE q.scheme[c].dc]
           from == [q.scheme EXCEPT ![c] = old]
<1>1. q.scheme \in [Core -> Limits] /\ q.scheme[c] \in Limits
  BY DEF Power
<1>2. old \in Limits /\ new \in Limits /\ [old EXCEPT ![source] = l[source]] = new
  BY <1>1 DEF Limits, Sources
<1>3. y = [q EXCEPT !.scheme = from]
  BY DEF Partly, Sources
<1>4. Partly(q, c, next, l) = [q EXCEPT !.scheme = [q.scheme EXCEPT ![c] = new]]
  BY DEF Partly, Sources
<1> HIDE DEF old, new
<1>5. from \in [Core -> Limits] /\ from[c] = old
  BY <1>1, <1>2
<1>6. [from EXCEPT ![c][source] = l[source]] = [q.scheme EXCEPT ![c] = new]
  BY <1>1, <1>2, <1>5
<1> HIDE DEF from
<1>7. y.scheme = from /\ y.applied = q.applied /\ y \in [scheme : [Core -> Limits], applied : [Core -> Limits]]
  BY <1>3, <1>5 DEF Power
<1>8. [y EXCEPT !.scheme[c][source] = l[source]] = [y EXCEPT !.scheme = [from EXCEPT ![c][source] = l[source]]]
  BY <1>7
<1> QED
  BY <1>3, <1>4, <1>6, <1>7, <1>8 DEF Power

LEMMA Applied ==
    ASSUME NEW f \in BOOLEAN, NEW q \in Power, NEW c \in Core, NEW l \in Limits,
           NEW y, y = Partly(q, c, "apply", l)
    PROVE  [y EXCEPT !.applied = y.scheme] \in Outcomes(f, q, c, l)
<1> DEFINE both == [q.scheme EXCEPT ![c] = l]
<1>1. l = [ac |-> l.ac, dc |-> l.dc]
  BY DEF Limits
<1>2. y = [q EXCEPT !.scheme = both]
  BY <1>1 DEF Partly
<1>3. [scheme |-> both, applied |-> both] \in Outcomes(f, q, c, l)
  BY DEF Outcomes
<1> HIDE DEF both
<1>4. [y EXCEPT !.applied = y.scheme] = [scheme |-> both, applied |-> both]
  BY <1>2 DEF Power
<1> QED
  BY <1>3, <1>4

LEMMA GivenUp ==
    ASSUME NEW q \in Power, NEW c \in Core, NEW l \in Limits, NEW next \in {"ac", "dc", "apply"}
    PROVE  Partly(q, c, next, l) \in Outcomes(TRUE, q, c, l)
<1>1. l = [ac |-> l.ac, dc |-> l.dc]
  BY DEF Limits
<1>2. CASE next = "ac"
  BY <1>2, NothingWritten DEF Outcomes
<1>3. CASE next = "dc"
  BY <1>3 DEF Outcomes, Partly
<1>4. CASE next = "apply"
  BY <1>1, <1>4 DEF Outcomes, Partly
<1> QED
  BY <1>2, <1>3, <1>4

\* The types hold in every state.
LEMMA SharedTypeInit == SharedInit => SharedTypeOK /\ InSequence
<1> SUFFICES ASSUME SharedInit PROVE SharedTypeOK /\ InSequence
  OBVIOUS
<1>1. power \in Power
  <2>1. PICK l \in [ac : StoredLimits, dc : StoredLimits] :
            power = [scheme |-> [c \in Core |-> l], applied |-> [c \in Core |-> l]]
    BY DEF SharedInit, MachineInit
  <2>2. l \in Limits
    BY <2>1, SchemeAssumption DEF Limits
  <2> QED
    BY <2>1, <2>2 DEF Power
<1>2. by \in [scheme : [Core -> Cells], applied : [Core -> Cells]]
  BY DEF SharedInit, Cells
<1>3. asked \in [Processes -> [Core -> Limits]] /\ core \in [Processes -> Core]
  BY NoLimitsType, Cores DEF SharedInit
<1> QED
  BY <1>1, <1>2, <1>3, Cores DEF SharedInit, MachineInit, SharedTypeOK, InSequence, Idle

LEMMA BeginFacts ==
    ASSUME SharedTypeOK, NEW p \in Processes, BeginConstruct(p) \/ BeginShift(p) \/ BeginDestroy(p)
    PROVE  \E limits \in [Core -> Limits] :
              /\ Begin(p, limits)
              /\ object' \in [Processes -> BOOLEAN]
              /\ \A q \in Processes \ {p} : object'[q] = object[q]
              /\ ~object'[p] => limits = NoLimits
<1>1. CASE BeginConstruct(p)
  BY <1>1, NoLimitsType DEF BeginConstruct, SharedTypeOK
<1>2. CASE BeginShift(p)
  BY <1>2, ProcessAssumption DEF BeginShift, SharedTypeOK
<1>3. CASE BeginDestroy(p)
  BY <1>3, NoLimitsType DEF BeginDestroy, SharedTypeOK
<1> QED
  BY <1>1, <1>2, <1>3

LEMMA SharedTypeStep ==
    ASSUME SharedTypeOK, InSequence, [SharedNext]_sharedVars
    PROVE  SharedTypeOK' /\ InSequence'
<1> USE Cores
<1>1. ASSUME NEW p \in Processes, BeginConstruct(p) \/ BeginShift(p) \/ BeginDestroy(p)
      PROVE  SharedTypeOK' /\ InSequence'
  <2>1. PICK limits \in [Core -> Limits] :
              /\ Begin(p, limits)
              /\ object' \in [Processes -> BOOLEAN]
              /\ \A q \in Processes \ {p} : object'[q] = object[q]
              /\ ~object'[p] => limits = NoLimits
    BY <1>1, BeginFacts
  <2>2. SharedTypeOK'
    BY <2>1 DEF SharedTypeOK, Begin, machine
  <2>3. InSequence'
    BY <2>1 DEF SharedTypeOK, InSequence, Begin, Idle, machine
  <2> QED
    BY <2>2, <2>3
<1>2. ASSUME NEW p \in Processes, NEW source \in Sources, NEW next \in {"dc", "apply"},
             PowerWriteValueIndex(p, source, next)
      PROVE  SharedTypeOK' /\ InSequence'
  <2>1. /\ power' \in Power
        /\ by' \in [scheme : [Core -> Cells], applied : [Core -> Cells]]
    BY <1>2, WriteFacts
  <2>2. before' \in [Processes -> SUBSET Power]
    BY <1>2 DEF PowerWriteValueIndex, OthersDisturbed, SharedTypeOK
  <2> QED
    BY <1>2, <2>1, <2>2 DEF PowerWriteValueIndex, SharedTypeOK, InSequence, Idle, machine, Sources
<1>3. ASSUME NEW p \in Processes, PowerSetActiveScheme(p) PROVE SharedTypeOK' /\ InSequence'
  <2>1. power' \in Power /\ by' \in [scheme : [Core -> Cells], applied : [Core -> Cells]]
    BY <1>3 DEF PowerSetActiveScheme, SharedTypeOK, Power
  <2>2. before' \in [Processes -> SUBSET Power]
    BY <1>3 DEF PowerSetActiveScheme, OthersDisturbed, SharedTypeOK
  <2> QED
    BY <1>3, <2>1, <2>2 DEF PowerSetActiveScheme, Return, SharedTypeOK, InSequence, Idle, machine
<1>4. ASSUME NEW p \in Processes, CallFails(p) PROVE SharedTypeOK' /\ InSequence'
  BY <1>4 DEF CallFails, Return, SharedTypeOK, InSequence, Idle, machine
<1>5. ASSUME NEW p \in Processes, Killed(p) PROVE SharedTypeOK' /\ InSequence'
  <2>1. \A m \in [Core -> Cells] : Disowned(m, p) \in [Core -> Cells]
    BY DEF Disowned, Cells
  <2>2. by' \in [scheme : [Core -> Cells], applied : [Core -> Cells]]
    BY <1>5, <2>1 DEF Killed, SharedTypeOK
  <2> QED
    BY <1>5, <2>2, NoLimitsType DEF Killed, SharedTypeOK, InSequence, Idle, machine
<1>6. CASE UNCHANGED sharedVars
  BY <1>6 DEF sharedVars, processes, machine, SharedTypeOK, InSequence, Idle
<1> QED
  BY <1>1, <1>2, <1>3, <1>4, <1>5, <1>6
  DEF SharedNext, PowerWriteACValueIndex, PowerWriteDCValueIndex, Sources

\* Whoever wrote a value last has asked for it, or will write it again.
LEMMA AccountedStep ==
    ASSUME SharedTypeOK, InSequence, SharedTypeOK', InSequence', [SharedNext]_sharedVars,
           ~faulty => Accounted
    PROVE  ~faulty' => Accounted'
<1> SUFFICES ASSUME ~faulty' PROVE Accounted'
  OBVIOUS
<1> USE Cores
<1>1. ASSUME NEW p \in Processes, BeginConstruct(p) \/ BeginShift(p) \/ BeginDestroy(p)
      PROVE  Accounted'
  <2>1. PICK limits \in [Core -> Limits] : Begin(p, limits)
    BY <1>1, BeginFacts
  <2>2. Accounted /\ UNCHANGED <<power, by, machine>>
    BY <2>1 DEF Begin, machine
  <2>3. \A q \in Processes \ {p} : asked'[q] = asked[q] /\ core'[q] = core[q] /\ call'[q] = call[q]
    BY <2>1 DEF Begin, SharedTypeOK
  <2>4. core'[p] = PCORE /\ call'[p] = "ac"
    BY <2>1 DEF Begin, SharedTypeOK
  <2> QED
    BY <2>2, <2>3, <2>4 DEF Accounted, Pending, Idle, machine
<1>2. ASSUME NEW p \in Processes, NEW source \in Sources, NEW next,
             next = IF source = "ac" THEN "dc" ELSE "apply",
             PowerWriteValueIndex(p, source, next)
      PROVE  Accounted'
  <2>1. Accounted /\ UNCHANGED <<machine, asked, core>> /\ call[p] = source
    BY <1>2 DEF PowerWriteValueIndex, machine
  <2>2. call'[p] = next /\ \A q \in Processes \ {p} : call'[q] = call[q]
    BY <1>2 DEF PowerWriteValueIndex, SharedTypeOK
  <2> SUFFICES ASSUME NEW q \in Processes, NEW c \in Core, NEW s \in Sources
               PROVE  /\ by'.scheme[c][s] = q =>
                            /\ c = ECORE => isHybrid
                            /\ power'.scheme[c][s] = asked[q][c][s] \/ Pending(q, c, s)'
                            /\ Idle(q)' => power'.scheme[c][s] = power'.applied[c][s]
                      /\ by'.applied[c][s] = q =>
                            power'.applied[c][s] = asked[q][c][s] \/ ~Idle(q)'
    BY <2>1 DEF Accounted, machine
  <2>3. /\ power'.applied = power.applied /\ by'.applied = by.applied
        /\ power'.scheme[c][s] = IF c = core[p] /\ s = source THEN asked[p][c][s] ELSE power.scheme[c][s]
        /\ by'.scheme[c][s] = IF c = core[p] /\ s = source THEN p ELSE by.scheme[c][s]
    BY <1>2, WriteFacts
  <2>4. /\ by.scheme[c][s] = q =>
              /\ c = ECORE => isHybrid
              /\ power.scheme[c][s] = asked[q][c][s] \/ Pending(q, c, s)
              /\ Idle(q) => power.scheme[c][s] = power.applied[c][s]
        /\ by.applied[c][s] = q => power.applied[c][s] = asked[q][c][s] \/ ~Idle(q)
    BY <2>1 DEF Accounted
  <2>5. CASE c = core[p] /\ s = source
    BY <1>2, <2>1, <2>2, <2>3, <2>4, <2>5 DEF InSequence, Idle, Sources
  <2>6. CASE ~(c = core[p] /\ s = source) /\ q = p
    BY <1>2, <2>1, <2>2, <2>3, <2>4, <2>6 DEF Pending, Idle, Sources
  <2>7. CASE ~(c = core[p] /\ s = source) /\ q # p
    BY <2>1, <2>2, <2>3, <2>4, <2>7 DEF Pending, Idle
  <2> QED
    BY <2>5, <2>6, <2>7
<1>3. ASSUME NEW p \in Processes, PowerSetActiveScheme(p) PROVE Accounted'
  <2>1. Accounted /\ UNCHANGED <<machine, asked>> /\ call[p] = "apply"
    BY <1>3 DEF PowerSetActiveScheme, machine
  <2>2. \A q \in Processes \ {p} : call'[q] = call[q] /\ core'[q] = core[q]
    BY <1>3 DEF PowerSetActiveScheme, Return, SharedTypeOK
  <2>3. /\ core[p] = PCORE /\ isHybrid => core'[p] = ECORE /\ call'[p] = "ac"
        /\ core[p] = ECORE \/ ~isHybrid => call'[p] = "none"
    BY <1>3 DEF PowerSetActiveScheme, Return, SharedTypeOK
  <2>4. /\ power'.scheme = power.scheme /\ power'.applied = power.scheme
        /\ by'.scheme = by.scheme /\ by'.applied = by.scheme
    BY <1>3 DEF PowerSetActiveScheme, SharedTypeOK, Power
  <2> SUFFICES ASSUME NEW q \in Processes, NEW c \in Core, NEW s \in Sources, by.scheme[c][s] = q
               PROVE  /\ c = ECORE => isHybrid
                      /\ power.scheme[c][s] = asked[q][c][s] \/ Pending(q, c, s)'
                      /\ power.scheme[c][s] = asked[q][c][s] \/ ~Idle(q)'
    BY <2>1, <2>4 DEF Accounted, machine
  <2>5. /\ c = ECORE => isHybrid
        /\ power.scheme[c][s] = asked[q][c][s] \/ Pending(q, c, s)
    BY <2>1 DEF Accounted
  <2>6. CASE q = p
    BY <2>1, <2>3, <2>5, <2>6 DEF Pending, Idle, Sources
  <2>7. CASE q # p
    BY <2>2, <2>5, <2>7 DEF Pending, Idle
  <2> QED
    BY <2>6, <2>7
<1>4. ASSUME NEW p \in Processes, CallFails(p) PROVE FALSE
  BY <1>4 DEF CallFails, machine
<1>5. ASSUME NEW p \in Processes, Killed(p) PROVE Accounted'
  <2>1. Accounted /\ UNCHANGED <<machine, power>>
    BY <1>5 DEF Killed, machine
  <2>2. \A q \in Processes \ {p} : asked'[q] = asked[q] /\ core'[q] = core[q] /\ call'[q] = call[q]
    BY <1>5 DEF Killed, SharedTypeOK
  <2>3. \A m \in [Core -> Cells], c \in Core, s \in Sources :
            Disowned(m, p)[c][s] = IF m[c][s] = p THEN Former ELSE m[c][s]
    BY DEF Disowned, Cells, Sources
  <2>4. \A c \in Core, s \in Sources :
            /\ by'.scheme[c][s] = IF by.scheme[c][s] = p THEN Former ELSE by.scheme[c][s]
            /\ by'.applied[c][s] = IF by.applied[c][s] = p THEN Former ELSE by.applied[c][s]
    <3>1. by.scheme \in [Core -> Cells] /\ by.applied \in [Core -> Cells]
      BY DEF SharedTypeOK
    <3>2. by'.scheme = Disowned(by.scheme, p) /\ by'.applied = Disowned(by.applied, p)
      BY <1>5 DEF Killed
    <3> QED
      BY <2>3, <3>1, <3>2
  <2>5. \A q \in Processes : q # Former
    BY ProcessAssumption
  <2> QED
    BY <2>1, <2>2, <2>4, <2>5 DEF Accounted, Pending, Idle, machine
<1>6. CASE UNCHANGED sharedVars
  BY <1>6 DEF sharedVars, processes, machine, Accounted, Pending, Idle
<1> QED
  BY <1>1, <1>2, <1>3, <1>4, <1>5, <1>6
  DEF SharedNext, PowerWriteACValueIndex, PowerWriteDCValueIndex, Sources

\* A sequence whose calls nobody interrupts goes on as SetLimits says.
LEMMA UndisturbedStep ==
    ASSUME SharedTypeOK, InSequence, SharedTypeOK', [SharedNext]_sharedVars, Undisturbed
    PROVE  Undisturbed'
<1> USE Cores
<1>0. /\ faulty \in BOOLEAN /\ isHybrid \in BOOLEAN
      /\ \A p \in Processes : before[p] \subseteq Power
      /\ \A p \in Processes, c \in Core : asked[p][c] \in Limits
  BY DEF SharedTypeOK
<1>1. ASSUME NEW p \in Processes, BeginConstruct(p) \/ BeginShift(p) \/ BeginDestroy(p)
      PROVE  Undisturbed'
  <2>1. PICK limits \in [Core -> Limits] : Begin(p, limits)
    BY <1>1, BeginFacts
  <2>2. UNCHANGED <<power, isHybrid, faulty>> /\ power \in Power /\ limits[PCORE] \in Limits
    BY <2>1 DEF Begin, machine, SharedTypeOK
  <2>3. \A q \in Processes \ {p} : /\ asked'[q] = asked[q] /\ core'[q] = core[q]
                                   /\ call'[q] = call[q] /\ before'[q] = before[q]
    BY <2>1 DEF Begin, SharedTypeOK
  <2>4. core'[p] = PCORE /\ call'[p] = "ac" /\ asked'[p] = limits /\ before'[p] = {power}
    BY <2>1 DEF Begin, SharedTypeOK
  <2>5. Partly(power, PCORE, "ac", limits[PCORE]) = power
    BY <2>2, NothingWritten
  <2>6. \A b \in before'[p] : AloneSince(p, b)'
    BY <2>2, <2>4, <2>5 DEF AloneSince, Idle
  <2>7. \A q \in Processes \ {p} : \A b \in before'[q] : AloneSince(q, b)'
    BY <2>2, <2>3 DEF AloneSince, Idle, Undisturbed
  <2> QED
    BY <2>6, <2>7 DEF Undisturbed
<1>2. ASSUME NEW p \in Processes, NEW source \in Sources, NEW next,
             next = IF source = "ac" THEN "dc" ELSE "apply",
             PowerWriteValueIndex(p, source, next)
      PROVE  Undisturbed'
  <2>1. /\ call[p] = source /\ UNCHANGED <<isHybrid, faulty, asked, core>> /\ core[p] \in Core
        /\ call'[p] = next
        /\ power' = [power EXCEPT !.scheme[core[p]][source] = asked[p][core[p]][source]]
    BY <1>2 DEF PowerWriteValueIndex, machine, SharedTypeOK
  <2>2. before'[p] = before[p] /\ \A q \in Processes \ {p} : before'[q] = {}
    BY <1>2 DEF PowerWriteValueIndex, OthersDisturbed
  <2>3. ASSUME NEW x \in Power, power = Partly(x, core[p], source, asked[p][core[p]])
        PROVE  power' = Partly(x, core[p], next, asked[p][core[p]])
    BY <1>0, <1>2, <2>1, <2>3, OneMoreWritten
  <2>4. ASSUME NEW b \in before[p] PROVE AloneSince(p, b)'
    <3>1. ~Idle(p) /\ ~Idle(p)'
      BY <1>2, <2>1 DEF Idle, Sources
    <3>2. AloneSince(p, b) /\ b \in Power
      BY <1>0, <2>4 DEF Undisturbed
    <3>3. CASE core[p] = PCORE
      BY <2>1, <2>3, <3>1, <3>2, <3>3 DEF AloneSince
    <3>4. CASE core[p] = ECORE
      <4>1. PICK q \in Outcomes(faulty, b, PCORE, asked[p][PCORE]) :
                power = Partly(q, ECORE, source, asked[p][ECORE])
        BY <2>1, <3>1, <3>2, <3>4 DEF AloneSince
      <4>2. q \in Power
        BY <1>0, <3>2, <4>1, OutcomesType
      <4> QED
        BY <2>1, <2>3, <3>1, <3>4, <4>1, <4>2 DEF AloneSince
    <3> QED
      BY <2>1, <3>3, <3>4
  <2> QED
    BY <2>2, <2>4 DEF Undisturbed
\* A SetCoreMaxFrequency of p returns.
<1>3. ASSUME NEW p \in Processes, Return(p), UNCHANGED <<isHybrid, faulty, asked>>, ~Idle(p),
             NEW b \in before[p],
             \A x \in Power : power = Partly(x, core[p], call[p], asked[p][core[p]]) =>
                                  power' \in Outcomes(faulty, x, core[p], asked[p][core[p]])
      PROVE  AloneSince(p, b)'
  <2>1. AloneSince(p, b) /\ b \in Power /\ power' \in Power /\ core[p] \in Core
    BY <1>0, <1>3 DEF Undisturbed, SharedTypeOK
  <2>2. CASE core[p] = PCORE
    <3>1. power' \in Outcomes(faulty, b, PCORE, asked[p][PCORE])
      BY <1>3, <2>1, <2>2 DEF AloneSince
    <3>2. CASE isHybrid
      <4>1. core'[p] = ECORE /\ call'[p] = "ac"
        BY <1>3, <2>2, <3>2 DEF Return, SharedTypeOK
      <4>2. power' = Partly(power', ECORE, "ac", asked[p][ECORE])
        BY <1>0, <2>1, NothingWritten
      <4> QED
        BY <1>3, <3>1, <4>1, <4>2 DEF AloneSince, Idle
    <3>3. CASE ~isHybrid
      <4>1. core'[p] = PCORE /\ call'[p] = "none"
        BY <1>3, <3>3 DEF Return, SharedTypeOK
      <4> QED
        BY <1>3, <3>1, <3>3, <4>1 DEF AloneSince, Idle, AllOutcomes
    <3> QED
      BY <3>2, <3>3
  <2>3. CASE core[p] = ECORE
    <3>1. isHybrid /\ core'[p] = PCORE /\ call'[p] = "none"
      BY <1>3, <2>3 DEF Return, SharedTypeOK, InSequence
    <3>2. PICK q \in Outcomes(faulty, b, PCORE, asked[p][PCORE]) :
              power = Partly(q, ECORE, call[p], asked[p][ECORE])
      BY <1>3, <2>1, <2>3 DEF AloneSince
    <3>3. q \in Power
      BY <1>0, <2>1, <3>2, OutcomesType
    <3>4. power' \in Outcomes(faulty, q, ECORE, asked[p][ECORE])
      BY <1>3, <2>3, <3>2, <3>3
    <3>5. power' \in AllOutcomes(isHybrid, faulty, b, asked[p][PCORE], asked[p][ECORE])
      BY <3>1, <3>2, <3>4 DEF AllOutcomes
    <3> QED
      BY <1>3, <3>1, <3>5 DEF AloneSince, Idle
  <2> QED
    BY <2>1, <2>2, <2>3
<1>4. ASSUME NEW p \in Processes, PowerSetActiveScheme(p) PROVE Undisturbed'
  <2>1. /\ call[p] = "apply" /\ UNCHANGED <<isHybrid, faulty, asked>> /\ core[p] \in Core
        /\ power' = [power EXCEPT !.applied = power.scheme] /\ Return(p)
    BY <1>4 DEF PowerSetActiveScheme, machine, SharedTypeOK
  <2>2. before'[p] = before[p] /\ \A q \in Processes \ {p} : before'[q] = {}
    BY <1>4 DEF PowerSetActiveScheme, OthersDisturbed
  <2>3. \A x \in Power : power = Partly(x, core[p], call[p], asked[p][core[p]]) =>
                             power' \in Outcomes(faulty, x, core[p], asked[p][core[p]])
    BY <1>0, <2>1, Applied
  <2>4. ~Idle(p)
    BY <2>1 DEF Idle
  <2>5. \A b \in before[p] : AloneSince(p, b)'
    BY <1>3, <2>1, <2>3, <2>4
  <2> QED
    BY <2>2, <2>5 DEF Undisturbed
<1>5. ASSUME NEW p \in Processes, CallFails(p) PROVE Undisturbed'
  <2>1. /\ faulty /\ UNCHANGED <<isHybrid, faulty, asked, power, before>> /\ core[p] \in Core
        /\ ~Idle(p) /\ Return(p) /\ call[p] \in {"ac", "dc", "apply"}
    BY <1>5 DEF CallFails, machine, SharedTypeOK, Idle
  <2>2. \A x \in Power : power = Partly(x, core[p], call[p], asked[p][core[p]]) =>
                             power' \in Outcomes(faulty, x, core[p], asked[p][core[p]])
    BY <1>0, <2>1, GivenUp
  <2>3. \A b \in before[p] : AloneSince(p, b)'
    BY <1>3, <2>1, <2>2
  <2>4. \A q \in Processes \ {p} : core'[q] = core[q] /\ call'[q] = call[q]
    BY <2>1 DEF Return, SharedTypeOK
  <2>5. \A q \in Processes \ {p} : \A b \in before[q] : AloneSince(q, b)'
    BY <2>1, <2>4 DEF AloneSince, Idle, Undisturbed
  <2> QED
    BY <2>1, <2>3, <2>5 DEF Undisturbed
<1>6. ASSUME NEW p \in Processes, Killed(p) PROVE Undisturbed'
  <2>1. UNCHANGED <<isHybrid, faulty, power>> /\ before'[p] = {}
    BY <1>6 DEF Killed, machine, SharedTypeOK
  <2>2. \A q \in Processes \ {p} : /\ asked'[q] = asked[q] /\ core'[q] = core[q]
                                   /\ call'[q] = call[q] /\ before'[q] = before[q]
    BY <1>6 DEF Killed, SharedTypeOK
  <2>3. \A q \in Processes \ {p} : \A b \in before'[q] : AloneSince(q, b)'
    BY <2>1, <2>2 DEF AloneSince, Idle, Undisturbed
  <2> QED
    BY <2>1, <2>3 DEF Undisturbed
<1>7. CASE UNCHANGED sharedVars
  BY <1>7 DEF sharedVars, processes, machine, Undisturbed, AloneSince, Idle
<1> QED
  BY <1>1, <1>2, <1>4, <1>5, <1>6, <1>7
  DEF SharedNext, PowerWriteACValueIndex, PowerWriteDCValueIndex, Sources

LEMMA SharedInvHolds == SharedSpec => []SharedInv
<1>1. SharedInit => SharedInv
  <2> SUFFICES ASSUME SharedInit PROVE SharedInv
    OBVIOUS
  <2>1. \A q \in Processes : q # Former /\ before[q] = {}
    BY ProcessAssumption DEF SharedInit
  <2>2. \A c \in Core, s \in Sources : by.scheme[c][s] = Former /\ by.applied[c][s] = Former
    <3> DEFINE nobody == [c \in Core |-> [ac |-> Former, dc |-> Former]]
    <3>1. \A c \in Core, s \in Sources : nobody[c][s] = Former
      BY DEF Sources
    <3>2. by = [scheme |-> nobody, applied |-> nobody]
      BY DEF SharedInit
    <3> HIDE DEF nobody
    <3> QED
      BY <3>1, <3>2
  <2>3. Accounted /\ Undisturbed
    BY <2>1, <2>2 DEF Accounted, Undisturbed
  <2> QED
    BY <2>3, SharedTypeInit DEF SharedInv
<1>2. SharedInv /\ [SharedNext]_sharedVars => SharedInv'
  <2> SUFFICES ASSUME SharedInv, [SharedNext]_sharedVars PROVE SharedInv'
    OBVIOUS
  <2>1. SharedTypeOK' /\ InSequence'
    BY SharedTypeStep DEF SharedInv
  <2> QED
    BY <2>1, AccountedStep, UndisturbedStep DEF SharedInv
<1> QED
  BY <1>1, <1>2, PTL DEF SharedSpec

\* However many processes there are, whatever they ask for, and between whichever
\* calls they interrupt each other, fail or are killed: what is applied belongs to
\* those who asked for it once all have returned, and a sequence that nobody
\* interrupted is the one step FrequencyLimiter takes it for.
THEOREM SharedSchemeSettlesAlways == SharedSpec => []SharedSchemeSettles
<1>1. SharedInv => LimitsHaveOwners
  <2> SUFFICES ASSUME SharedInv, ~faulty, Quiet, NEW c \in Core, NEW source \in Sources
               PROVE  LET owner == by.applied[c][source]
                      IN  /\ owner # Former =>
                                /\ power.applied[c][source] = asked[owner][c][source]
                                /\ ~object[owner] => power.applied[c][source] = 0
                          /\ by.scheme[c][source] # Former =>
                                power.scheme[c][source] = power.applied[c][source]
    BY DEF LimitsHaveOwners, Sources
  <2>1. /\ by.applied[c][source] \in Processes \cup {Former}
        /\ by.scheme[c][source] \in Processes \cup {Former}
    BY DEF SharedInv, SharedTypeOK, Cells, Sources
  <2>2. ASSUME NEW p \in Processes, by.applied[c][source] = p
        PROVE  /\ power.applied[c][source] = asked[p][c][source]
               /\ ~object[p] => power.applied[c][source] = 0
    <3>1. power.applied[c][source] = asked[p][c][source]
      BY <2>2 DEF SharedInv, Accounted, Quiet
    <3>2. ~object[p] => asked[p][c][source] = 0
      BY DEF SharedInv, InSequence, NoLimits, Released, Sources
    <3> QED
      BY <3>1, <3>2
  <2>3. ASSUME NEW p \in Processes, by.scheme[c][source] = p
        PROVE  power.scheme[c][source] = power.applied[c][source]
    BY <2>3 DEF SharedInv, Accounted, Quiet
  <2> QED
    BY <2>1, <2>2, <2>3
<1>2. SharedInv => AloneIsAtomic
  BY SameOutcomes DEF SharedInv, Undisturbed, AloneSince, AloneIsAtomic
<1> QED
  BY <1>1, <1>2, SharedInvHolds, PTL DEF SharedSchemeSettles
=============================================================================
