------------------------ MODULE DeviceCapacityProofs ------------------------
(***************************************************************************)
(* What TLC checks of DeviceCapacity with a period of 4, for every period, *)
(* word and set of loads, and for whatever the members are born with.      *)
(***************************************************************************)
EXTENDS DeviceCapacity, TLAPS

(* Arithmetic of the modulus. *)
LEMMA Division ==
    ASSUME NEW a \in Int, NEW d \in Int, d > 0
    PROVE  a = (a \div d) * d + (a % d)
OBVIOUS

LEMMA DivisionType ==
    ASSUME NEW a \in Nat, NEW d \in Nat, d > 0
    PROVE  a \div d \in Nat /\ a % d \in 0 .. d - 1
<1>1. a \div d \in Nat
  OBVIOUS
<1>2. a % d \in 0 .. d - 1
  OBVIOUS
<1> QED
  BY <1>1, <1>2

LEMMA RemainderIsUnique ==
    ASSUME NEW a \in Nat, NEW d \in Nat \ {0}, NEW q \in Nat, NEW r \in 0 .. d - 1,
           a = d * q + r
    PROVE  a % d = r
OBVIOUS

\* The remainder of a counter that wraps at a multiple of the period.
LEMMA NextRemainder ==
    ASSUME NEW c \in 0 .. Word - 1
    PROVE  /\ c % IdlePeriod \in 0 .. IdlePeriod - 1
           /\ (c + 1) % Word \in 0 .. Word - 1
           /\ ((c + 1) % Word) % IdlePeriod =
                 IF c % IdlePeriod = IdlePeriod - 1 THEN 0 ELSE (c % IdlePeriod) + 1
<1> DEFINE q == c \div IdlePeriod
           m == c % IdlePeriod
           w == Word \div IdlePeriod
<1>1. IdlePeriod \in Nat /\ IdlePeriod > 1 /\ Word \in Nat /\ Word > IdlePeriod /\ c \in Nat
  BY CapacityAssumption, WeightAssumption
<1>2. q \in Nat /\ m \in 0 .. IdlePeriod - 1 /\ c = q * IdlePeriod + m
  BY <1>1, Division, DivisionType
<1>3. w \in Nat /\ Word = w * IdlePeriod
  BY <1>1, Division, DivisionType, CapacityAssumption, WeightAssumption
<1> HIDE DEF q, m, w
<1>4. CASE c + 1 < Word
  <2>1. (c + 1) % Word = c + 1
    BY <1>1, <1>4
  <2>2. CASE m = IdlePeriod - 1
    <3>1. c + 1 = IdlePeriod * (q + 1) + 0
      BY <1>1, <1>2, <2>2
    <3>2. (c + 1) % IdlePeriod = 0
      BY <1>1, <1>2, <3>1, RemainderIsUnique
    <3> QED
      BY <1>1, <1>2, <1>4, <2>1, <2>2, <3>2 DEF m
  <2>3. CASE m # IdlePeriod - 1
    <3>1. c + 1 = IdlePeriod * q + (m + 1) /\ m + 1 \in 0 .. IdlePeriod - 1
      BY <1>1, <1>2, <2>3
    <3>2. (c + 1) % IdlePeriod = m + 1
      BY <1>1, <1>2, <3>1, RemainderIsUnique
    <3> QED
      BY <1>1, <1>2, <1>4, <2>1, <2>3, <3>2 DEF m
  <2> QED
    BY <2>2, <2>3
<1>5. CASE c + 1 = Word
  <2>1. (c + 1) % Word = 0 /\ 0 % IdlePeriod = 0
    BY <1>1, <1>5
  <2>2. w \in Nat /\ w >= 1
    BY <1>1, <1>3, <1>5
  <2>3. PICK u \in Nat : u = w - 1
    BY <2>2
  <2>4. c % IdlePeriod = IdlePeriod - 1
    <3>1. Word = IdlePeriod * u + IdlePeriod
      BY <1>1, <1>3, <2>2, <2>3
    <3>2. c = IdlePeriod * u + (IdlePeriod - 1)
      BY <1>1, <1>5, <3>1
    <3>3. IdlePeriod - 1 \in 0 .. IdlePeriod - 1 /\ IdlePeriod \in Nat \ {0}
      BY <1>1
    <3> QED
      BY <1>1, <3>2, <3>3, RemainderIsUnique
  <2>5. c % IdlePeriod \in 0 .. IdlePeriod - 1 /\ (c + 1) % Word \in 0 .. Word - 1
    BY <1>1, <2>1, <2>4
  <2>6. ((c + 1) % Word) % IdlePeriod = 0
    BY <2>1, Zenon
  <2> QED
    BY <2>4, <2>5, <2>6, Zenon
<1> QED
  BY <1>1, <1>4, <1>5
-----------------------------------------------------------------------------
(* Types. *)
LEMMA WeighedType ==
    ASSUME NEW load \in Loads, NEW w \in Int \cup {NaN}, NEW v \in Weighed(load, w)
    PROVE  IF w = NaN THEN v = NaN ELSE v \in Int /\ v # NaN
<1>1. CASE w = NaN
  BY <1>1 DEF Weighed
<1>2. CASE w # NaN
  <2>1. \A low, up \in Int : \A x \in low .. up : x \in Int
    OBVIOUS
  <2>2. load \in Int /\ DecayPercent \in Int /\ w \in Int /\ NaN \notin Int
    BY <1>2, CapacityAssumption, WeightAssumption
  <2>3. DecayPercent * load + (100 - DecayPercent) * w \in Int
    BY <2>2
  <2>4. v \in Int
    BY <1>2, <2>1, <2>2, <2>3 DEF Weighed
  <2> QED
    BY <1>2, <2>2, <2>4
<1> QED
  BY <1>1, <1>2

LEMMA CountType ==
    ASSUME NEW band \in Capacity, NEW count \in 0 .. Word - 1
    PROVE  CountAfter(band, count) \in 0 .. Word - 1
<1>1. 1 \in 0 .. Word - 1
  BY CapacityAssumption, WeightAssumption
<1> QED
  BY <1>1, NextRemainder DEF CountAfter

LEMMA BandType == ASSUME NEW w PROVE Band(w) \in Capacity
BY DEF Band, Capacity, kCapacityIdle, kCapacityUnder, kCapacityMeet, kCapacityOver

LEMMA SteadyType ==
    ASSUME NEW load \in Loads, NEW w,
           NEW s \in [load : Loads \cup {-1}, samples : 0 .. SteadyBound, ranged : BOOLEAN]
    PROVE  SteadyAfter(s, load, w)
             \in [load : Loads \cup {-1}, samples : 0 .. SteadyBound, ranged : BOOLEAN]
<1>1. (w \in 0 .. Scale) \in BOOLEAN
  OBVIOUS
<1>2. PICK b \in BOOLEAN : b = (w \in 0 .. Scale)
  BY <1>1, Zenon
<1>3. CASE s.load # load
  <2>1. SteadyAfter(s, load, w) = [load |-> load, samples |-> 1, ranged |-> b]
    BY <1>2, <1>3, Zenon DEF SteadyAfter
  <2>2. 1 \in 0 .. SteadyBound
    BY DEF SteadyBound
  <2> QED
    BY <2>1, <2>2
<1>4. CASE s.load = load /\ s.samples < SteadyBound
  <2>1. SteadyAfter(s, load, w) = [s EXCEPT !.samples = s.samples + 1]
    BY <1>4, Zenon DEF SteadyAfter
  <2>2. s.samples + 1 \in 0 .. SteadyBound
    BY <1>4 DEF SteadyBound
  <2> QED
    BY <2>1, <2>2
<1>5. CASE s.load = load /\ ~(s.samples < SteadyBound)
  BY <1>5, Zenon DEF SteadyAfter
<1> QED
  BY <1>3, <1>4, <1>5

\* What one sample does to the thread that takes it and to the others.
SampledAs(t, load, w, hint) ==
    /\ weighted' = [weighted EXCEPT ![t] = w]
    /\ idle_count' = [idle_count EXCEPT ![t] = CountAfter(Band(w), @)]
    /\ IF Sends(Band(w), idle_count[t]) THEN hint # NoHint /\ hint.capacity = Band(w)
                                        ELSE hint = NoHint
    /\ RememberSample(t, load, hint)

Sampled(t, load) ==
    \E w \in Weighed(load, weighted[t]) : \E hint : SampledAs(t, load, w, hint)

LEMMA SampleOutcome ==
    ASSUME TypeOK, NEW t \in Trackers, NEW load \in Loads, SetCapacityNow(t, load)
    PROVE  Sampled(t, load) \/ UNCHANGED <<weighted, idle_count, history>>
<1>0. PICK later \in {now, (now + 1) % TickModulus} : \E hint \in HintsAt(t, later) :
          /\ SetCapacity(t, load, now, later, hint)
          /\ IF Repeated(t, now) THEN UNCHANGED history ELSE RememberSample(t, load, hint)
  BY DEF SetCapacityNow
<1>1. PICK hint \in HintsAt(t, later) :
          /\ SetCapacity(t, load, now, later, hint)
          /\ IF Repeated(t, now) THEN UNCHANGED history ELSE RememberSample(t, load, hint)
  BY <1>0
<1>2. CASE Sample(t, load, now, later, hint)
  <2>1. PICK w \in Weighed(load, weighted[t]) :
          /\ weighted' = [weighted EXCEPT ![t] = w]
          /\ idle_count' = [idle_count EXCEPT ![t] = CountAfter(Band(w), @)]
          /\ hint = IF Sends(Band(w), idle_count[t])
                    THEN [tick |-> later, from |-> t, capacity |-> Band(w)] ELSE NoHint
    BY <1>2 DEF Sample, BandSent
  <2>2. Sends(Band(w), idle_count[t]) => hint # NoHint /\ hint.capacity = Band(w)
    <3>1. Band(w) # -1
      BY BandType DEF Capacity, kCapacityIdle, kCapacityOver
    <3> QED
      BY <2>1, <3>1 DEF NoHint
  <2>3. RememberSample(t, load, hint)
    BY <1>1, <1>2 DEF Sample
  <2> QED
    BY <2>1, <2>2, <2>3 DEF Sampled, SampledAs
<1>3. CASE SampleLost(t, now, hint)
  BY <1>1, <1>3 DEF SampleLost, members
<1> QED
  BY <1>1, <1>2, <1>3 DEF SetCapacity
\* The types hold for all garbage the members may be born with.
THEOREM CapacityTypeCorrect == Spec => []TypeOK
<1>1. Init => TypeOK
  <2> SUFFICES ASSUME Init PROVE TypeOK
    OBVIOUS
  <2>1. /\ high \in [Trackers -> Int \cup {NaN}] /\ weighted \in [Trackers -> Int \cup {NaN}]
        /\ idle_count \in [Trackers -> 0 .. Word - 1]
    BY CapacityAssumption, WeightAssumption DEF Init
  <2>2. steady \in [Trackers -> [load : Loads \cup {-1}, samples : 0 .. SteadyBound,
                                 ranged : BOOLEAN]]
    BY DEF Init, SteadyBound
  <2> QED
    BY <2>1, <2>2 DEF Init, TypeOK
<1>2. TypeOK /\ [Next]_vars => TypeOK'
  <2> SUFFICES ASSUME TypeOK, [Next]_vars PROVE TypeOK'
    OBVIOUS
  <2>1. (now + 1) % TickModulus \in Ticks /\ now \in Ticks
    BY CapacityAssumption, WeightAssumption DEF TypeOK, Ticks
  <2>2. CASE Tick
    BY <2>1, <2>2 DEF Tick, members, history, TypeOK
  <2>3. ASSUME NEW t \in Trackers, NEW load \in Loads, SetCapacityNow(t, load)
        PROVE  TypeOK'
    <3>1. PICK later \in {now, (now + 1) % TickModulus} : \E hint \in HintsAt(t, later) :
              now' = later /\ SetCapacity(t, load, now, later, hint)
      BY <2>3 DEF SetCapacityNow
    <3>2. now' \in Ticks
      BY <2>1, <3>1
    <3>3. /\ high' \in [Trackers -> Int \cup {NaN}]
          /\ previous_tick' \in [Trackers -> Ticks] /\ same_thread' \in [Trackers -> BOOLEAN]
      <4>1. load \in Int
        BY CapacityAssumption, WeightAssumption
      <4>2. PICK hint : SetCapacity(t, load, now, later, hint)
        BY <3>1
      <4>3. CASE Sample(t, load, now, later, hint)
        <5>1. \E h \in {load, high[t]} : high' = [high EXCEPT ![t] = h]
          BY <4>3 DEF Sample
        <5>2. high' \in [Trackers -> Int \cup {NaN}]
          BY <4>1, <5>1 DEF TypeOK
        <5> QED
          BY <2>1, <4>3, <5>2 DEF Sample, TypeOK
      <4>4. CASE SampleLost(t, now, hint)
        BY <4>4 DEF SampleLost, members, TypeOK
      <4> QED
        BY <4>2, <4>3, <4>4 DEF SetCapacity
    <3>4. CASE UNCHANGED <<weighted, idle_count, history>>
      BY <3>2, <3>3, <3>4 DEF history, TypeOK
    <3>5. CASE Sampled(t, load)
      <4>0. PICK w \in Weighed(load, weighted[t]) : \E hint : SampledAs(t, load, w, hint)
        BY <3>5 DEF Sampled
      <4>1. PICK hint : SampledAs(t, load, w, hint)
        BY <4>0
      <4>2. w \in Int \cup {NaN} /\ Band(w) \in Capacity
        BY WeighedType, BandType DEF TypeOK
      <4>3. CountAfter(Band(w), idle_count[t]) \in 0 .. Word - 1
        BY <4>2, CountType DEF TypeOK
      <4>4. /\ weighted' \in [Trackers -> Int \cup {NaN}]
            /\ idle_count' \in [Trackers -> 0 .. Word - 1]
        BY <4>1, <4>2, <4>3 DEF SampledAs, TypeOK
      <4>5. lastSent' \in [Trackers -> Capacity \cup {-1}] /\ silent' \in [Trackers -> Nat]
        BY <4>1, <4>2 DEF SampledAs, RememberSample, TypeOK
      <4>6. steady' \in [Trackers -> [load : Loads \cup {-1}, samples : 0 .. SteadyBound,
                                     ranged : BOOLEAN]]
        <5> DEFINE S == [load : Loads \cup {-1}, samples : 0 .. SteadyBound, ranged : BOOLEAN]
        <5>1. steady[t] \in S
          BY DEF TypeOK
        <5>2. SteadyAfter(steady[t], load, weighted[t]) \in S
          BY <5>1, SteadyType
        <5> QED
          BY <4>1, <5>2 DEF SampledAs, RememberSample, TypeOK
      <4> QED
        BY <3>2, <3>3, <4>4, <4>5, <4>6 DEF TypeOK
    <3> QED
      BY <2>3, <3>4, <3>5, SampleOutcome
  <2>4. CASE UNCHANGED vars
    BY <2>4 DEF vars, members, history, TypeOK
  <2> QED
    BY <2>2, <2>3, <2>4 DEF Next
<1> QED
  BY <1>1, <1>2, PTL DEF Spec

-----------------------------------------------------------------------------
(* Silence, and what the service knows. *)

\* A thread has been silent for less samples than idle_count_ has counted since
\* it was a multiple of the period.
SilenceCounted(t) ==
    silent[t] < IF idle_count[t] % IdlePeriod = 0 THEN IdlePeriod
                ELSE idle_count[t] % IdlePeriod

\* The last hint is the band of the thread, or the thread is idle and has been
\* silent since.
HintKnown(t) ==
    lastSent[t] \in {-1, Band(weighted[t])}
        \/ (Band(weighted[t]) = kCapacityIdle /\ silent[t] > 0)

\* A NaN never goes away again.
NaNKnown(t) == weighted[t] = NaN => lastSent[t] \in {-1, kCapacityIdle}

ReportInv == \A t \in Trackers : SilenceCounted(t) /\ HintKnown(t) /\ NaNKnown(t)

LEMMA NaNIsIdle == Band(NaN) = kCapacityIdle
BY DEF Band, AtLeast

LEMMA ReportInvHolds == Spec => []ReportInv
<1>1. Init => ReportInv
  <2> SUFFICES ASSUME Init, NEW t \in Trackers
               PROVE  SilenceCounted(t) /\ HintKnown(t) /\ NaNKnown(t)
    BY DEF ReportInv
  <2>1. idle_count[t] \in 0 .. Word - 1 /\ silent[t] = 0 /\ lastSent[t] = -1
    BY CapacityAssumption, WeightAssumption DEF Init
  <2>2. idle_count[t] % IdlePeriod \in 0 .. IdlePeriod - 1 /\ IdlePeriod > 1 /\ IdlePeriod \in Nat
    BY <2>1, NextRemainder, CapacityAssumption, WeightAssumption
  <2> QED
    BY <2>1, <2>2 DEF SilenceCounted, HintKnown, NaNKnown
<1>2. TypeOK /\ ReportInv /\ [Next]_vars => ReportInv'
  <2> SUFFICES ASSUME TypeOK, ReportInv, [Next]_vars, NEW x \in Trackers
               PROVE  (SilenceCounted(x) /\ HintKnown(x) /\ NaNKnown(x))'
    BY DEF ReportInv
  <2>0. SilenceCounted(x) /\ HintKnown(x) /\ NaNKnown(x)
    BY DEF ReportInv
  <2>1. CASE UNCHANGED <<weighted, idle_count, history>>
    BY <2>0, <2>1 DEF history, SilenceCounted, HintKnown, NaNKnown
  <2>2. ASSUME NEW t \in Trackers, NEW load \in Loads, Sampled(t, load)
        PROVE  (SilenceCounted(x) /\ HintKnown(x) /\ NaNKnown(x))'
    <3>0. PICK w \in Weighed(load, weighted[t]) : \E hint : SampledAs(t, load, w, hint)
      BY <2>2 DEF Sampled
    <3>1. PICK hint : SampledAs(t, load, w, hint)
      BY <3>0
    <3>2. CASE x # t
      BY <2>0, <3>1, <3>2
      DEF SampledAs, RememberSample, TypeOK, SilenceCounted, HintKnown, NaNKnown
    <3>3. CASE x = t
      <4> DEFINE band == Band(w)
                 count == idle_count[t]
      <4>1. /\ weighted'[x] = w /\ idle_count'[x] = CountAfter(band, count)
            /\ lastSent'[x] = IF hint # NoHint THEN hint.capacity ELSE lastSent[x]
            /\ silent'[x] = IF hint # NoHint THEN 0 ELSE silent[x] + 1
        BY <3>1, <3>3 DEF SampledAs, RememberSample, TypeOK
      <4>2. silent[x] \in Nat /\ count \in 0 .. Word - 1 /\ band \in Capacity
        BY BandType DEF TypeOK
      <4>3. /\ Sends(band, count) => lastSent'[x] = band /\ silent'[x] = 0
            /\ ~Sends(band, count) => lastSent'[x] = lastSent[x] /\ silent'[x] = silent[x] + 1
        BY <3>1, <4>1 DEF SampledAs
      <4>4. w = NaN => band = kCapacityIdle /\ weighted[x] = NaN
        BY <3>3, NaNIsIdle, WeighedType DEF TypeOK
      <4>5. ~Sends(band, count) => band = kCapacityIdle /\ count % IdlePeriod # 0
        BY DEF Sends, IdleDue
      <4> HIDE DEF band
      <4>6. HintKnown(x)' /\ NaNKnown(x)'
        <5>1. Band(w) = band
          BY DEF band
        <5> QED
          BY <2>0, <4>1, <4>2, <4>3, <4>4, <4>5, <5>1 DEF HintKnown, NaNKnown
      <4>7. SilenceCounted(x)'
        <5>0. IdlePeriod \in Nat /\ IdlePeriod > 1 /\ count % IdlePeriod \in 0 .. IdlePeriod - 1
          BY <4>2, NextRemainder, CapacityAssumption, WeightAssumption
        <5>1. CASE band # kCapacityIdle
          BY <4>1, <4>3, <5>0, <5>1 DEF Sends, CountAfter, SilenceCounted
        <5>2. CASE band = kCapacityIdle /\ count % IdlePeriod = 0
          <6>1. 1 % IdlePeriod = 1
            BY <5>0
          <6> QED
            BY <4>1, <4>3, <5>0, <5>2, <6>1 DEF Sends, IdleDue, CountAfter, SilenceCounted
        <5>3. CASE band = kCapacityIdle /\ count % IdlePeriod # 0
          <6>1. idle_count'[x] = (count + 1) % Word /\ silent'[x] = silent[x] + 1
            BY <4>1, <4>3, <5>3 DEF Sends, IdleDue, CountAfter
          <6>2. silent[x] < count % IdlePeriod
            BY <2>0, <3>3, <5>3 DEF SilenceCounted
          <6>3. idle_count'[x] % IdlePeriod =
                  IF count % IdlePeriod = IdlePeriod - 1 THEN 0 ELSE (count % IdlePeriod) + 1
            BY <4>2, <6>1, NextRemainder
          <6> QED
            BY <4>2, <5>0, <6>1, <6>2, <6>3 DEF SilenceCounted
        <5> QED
          BY <5>1, <5>2, <5>3
      <4> QED
        BY <4>6, <4>7
    <3> QED
      BY <3>2, <3>3
  <2>3. Tick \/ UNCHANGED vars => UNCHANGED <<weighted, idle_count, history>>
    BY DEF Tick, vars, members, history
  <2> QED
    BY <2>1, <2>2, <2>3, SampleOutcome DEF Next
<1> QED
  BY <1>1, <1>2, CapacityTypeCorrect, PTL DEF Spec

\* No idle_count_ an object is born with, no wrap of it and no way in and out of
\* the idle band makes it silent for a whole period of samples.
THEOREM NeverSilentForLong == Spec => []SilenceBounded
<1>1. TypeOK /\ ReportInv => SilenceBounded
  <2> SUFFICES ASSUME TypeOK, ReportInv, NEW t \in Trackers PROVE silent[t] < IdlePeriod
    BY DEF SilenceBounded
  <2>1. /\ silent[t] \in Nat /\ idle_count[t] % IdlePeriod \in 0 .. IdlePeriod - 1
        /\ IdlePeriod \in Nat /\ SilenceCounted(t)
    BY NextRemainder, CapacityAssumption, WeightAssumption DEF TypeOK, ReportInv
  <2> QED
    BY <2>1 DEF SilenceCounted
<1> QED
  BY <1>1, ReportInvHolds, CapacityTypeCorrect, PTL

\* What the service was told last is the band of the thread's load, but for an
\* idle thread between its hints; and a thread whose weighted_capacity_ is born
\* as a NaN is reported idle for ever.
THEOREM HintsFollowLoad == Spec => []LastHintIsBand
<1>1. ReportInv => LastHintIsBand
  <2> SUFFICES ASSUME ReportInv, NEW t \in Trackers,
                      lastSent[t] # -1, lastSent[t] # Band(weighted[t])
               PROVE  Band(weighted[t]) = kCapacityIdle /\ weighted[t] # NaN /\ silent[t] > 0
    BY DEF LastHintIsBand
  <2>1. HintKnown(t) /\ NaNKnown(t)
    BY DEF ReportInv
  <2>2. weighted[t] # NaN
    BY <2>1, NaNIsIdle DEF NaNKnown
  <2> QED
    BY <2>1, <2>2 DEF HintKnown
<1> QED
  BY <1>1, ReportInvHolds, PTL

-----------------------------------------------------------------------------
(* How soon a thread's band follows a steady load.  After k samples a bound on *)
(* what is left of the earlier load, and on what has come of the new one, in   *)
(* ten-thousandths: each sample keeps 85 hundredths of the old.  All that      *)
(* rounding adds or takes away stays below six units of Scale (seven, where it *)
(* is rounded down).                                                           *)

Left(k) ==
    CASE k = 0 -> 10000
      [] k = 1 -> 8500 [] k = 2 -> 7225 [] k = 3 -> 6142 [] k = 4 -> 5221
      [] k = 5 -> 4438 [] k = 6 -> 3773 [] k = 7 -> 3208 [] k = 8 -> 2727
      [] k = 9 -> 2318 [] k = 10 -> 1971 [] k = 11 -> 1676 [] k = 12 -> 1425
      [] k = 13 -> 1212 [] k = 14 -> 1031 [] k = 15 -> 877 [] k = 16 -> 746
      [] k = 17 -> 635 [] k = 18 -> 540 [] k = 19 -> 459
      [] OTHER -> 391

Gained(k) == CASE k = 0 -> 0 [] k = 1 -> 1500 [] k = 2 -> 2775 [] OTHER -> 3858

FadedTo(c, w) == 10000 * w <= c * Scale + 56700
Fading(s, w) == FadedTo(Left(s.samples), w)

\* One sample of a full load, and what it adds at least to the weight and to the table.
Rises(w, v) == 100 * v + 100 >= 15 * Scale + 85 * w
Grows(c, e) == 85 * c + 150000 >= 100 * e

GainedTo(c, w) == 10000 * w + 66700 >= c * Scale
Gaining(s, w) == GainedTo(Gained(s.samples), w)

\* Of a load that set in while the weight was one of a load.
SteadyFits(s, w) ==
    s.ranged => /\ w \in 0 .. Scale
                /\ s.load = 0 => Fading(s, w)
                /\ s.load = Scale => Gaining(s, w)

SteadyInv == \A t \in Trackers : SteadyFits(steady[t], weighted[t])
\* The fractions of two samples in a row.
LEMMA LeftAndGained ==
    ASSUME NEW k \in 0 .. SteadyBound
    PROVE  /\ Left(k) \in Nat /\ Gained(k) \in Nat
           /\ 85 * Left(k) <= 100 * Left(k)
           /\ k < SteadyBound => 85 * Left(k) <= 100 * Left(k + 1)
           /\ 85 * Gained(k) + 150000 >= 100 * Gained(k)
           /\ k < SteadyBound => 85 * Gained(k) + 150000 >= 100 * Gained(k + 1)
<1>1. Left(k) \in Nat /\ Gained(k) \in 0 .. 3858
  BY DEF Left, Gained, SteadyBound
<1>2. k < SteadyBound => 85 * Left(k) <= 100 * Left(k + 1)
  BY DEF Left, SteadyBound
<1>3. k < SteadyBound => 85 * Gained(k) + 150000 >= 100 * Gained(k + 1)
  BY DEF Gained, SteadyBound
<1>4. \A l \in Nat : 85 * l <= 100 * l
  OBVIOUS
<1>5. \A g \in 0 .. 3858 : g \in Nat /\ 85 * g + 150000 >= 100 * g
  OBVIOUS
<1>6. Left(k) \in Nat /\ 85 * Left(k) <= 100 * Left(k)
  <2>1. PICK l \in Nat : l = Left(k)
    BY <1>1
  <2>2. 85 * l <= 100 * l
    BY <1>4
  <2> QED
    BY <2>1, <2>2
<1>7. Gained(k) \in Nat /\ 85 * Gained(k) + 150000 >= 100 * Gained(k)
  <2>1. PICK g \in 0 .. 3858 : g = Gained(k)
    BY <1>1
  <2>2. g \in Nat /\ 85 * g + 150000 >= 100 * g
    BY <1>5
  <2> QED
    BY <2>1, <2>2
<1> QED
  BY <1>1, <1>2, <1>3, <1>6, <1>7

\* Multiplying by Scale keeps the order.
LEMMA ScaledOrder ==
    ASSUME NEW a \in Int, NEW b \in Int, a <= b, NEW n \in Nat
    PROVE  a * n <= b * n
<1>1. PICK d \in Nat : b = a + d
  <2>1. b - a \in Nat /\ b = a + (b - a)
    OBVIOUS
  <2> QED
    BY <2>1
<1>2. d * n \in Nat /\ a * n \in Int
  OBVIOUS
<1>3. b * n = a * n + d * n
  BY <1>1
<1> QED
  BY <1>2, <1>3

\* What is left of the weight when there is no load.
LEMMA FadesOn ==
    ASSUME NEW w \in Nat, NEW v \in Int, 100 * v <= 85 * w + 85, Scale \in Nat,
           NEW c \in Nat, NEW e \in Nat, 85 * c <= 100 * e,
           FadedTo(c, w)
    PROVE  FadedTo(e, v)
<1> USE DEF FadedTo
<1> DEFINE x == c * Scale
           y == e * Scale
<1>1. x \in Nat /\ y \in Nat
  OBVIOUS
<1>2. 85 * x <= 100 * y
  <2>1. (85 * c) * Scale <= (100 * e) * Scale
    BY ScaledOrder
  <2> QED
    BY <2>1
<1>3. 10000 * w <= x + 56700
  OBVIOUS
<1> HIDE DEF x, y
<1>4. 10000 * v <= y + 56700
  BY <1>1, <1>2, <1>3
<1> QED
  BY <1>4 DEF y

\* What has come of a full load.
LEMMA GainsOn ==
    ASSUME NEW w \in Nat, NEW v \in Int, Scale \in Nat,
           Rises(w, v), NEW c \in Nat, NEW e \in Nat, Grows(c, e), GainedTo(c, w)
    PROVE  GainedTo(e, v)
<1> USE DEF GainedTo, Rises, Grows
<1> DEFINE x == c * Scale
           y == e * Scale
<1>1. x \in Nat /\ y \in Nat
  OBVIOUS
<1>2. 85 * x + 150000 * Scale >= 100 * y
  <2>1. (100 * e) * Scale <= (85 * c + 150000) * Scale
    BY ScaledOrder
  <2> QED
    BY <2>1
<1>3. 10000 * w + 66700 >= x
  OBVIOUS
<1> HIDE DEF x, y
<1>4. 10000 * v + 66700 >= y
  BY <1>1, <1>2, <1>3
<1> QED
  BY <1>4 DEF y

\* The bounds on the average of a load and a weight.
LEMMA WeighedBounds ==
    ASSUME DecayPercent = 15, NEW load \in Loads, NEW w \in 0 .. Scale, NEW v \in Weighed(load, w)
    PROVE  /\ v \in 0 .. Scale
           /\ 100 * v >= 15 * load + 85 * w - 100
           /\ 100 * v <= 15 * load + 85 * w + 85
<1>1. load \in 0 .. Scale /\ Scale \in Nat /\ w # NaN
  BY CapacityAssumption, WeightAssumption
<1>2. PICK sum \in Nat : sum = 15 * load + 85 * w
  BY <1>1
<1>3. v \in (sum - 1) \div 100 .. (sum + 85) \div 100 /\ v >= 0
  BY <1>1, <1>2 DEF Weighed
<1>4. 100 * v >= sum - 100 /\ 100 * v <= sum + 85
  <2>1. \A a \in Int : a \div 100 \in Int /\ 100 * (a \div 100) <= a /\ 100 * (a \div 100) >= a - 99
    OBVIOUS
  <2>2. v \in Int /\ (sum - 1) \div 100 <= v /\ v <= (sum + 85) \div 100
    BY <1>3, <2>1
  <2> QED
    BY <2>1, <2>2
<1>5. v \in 0 .. Scale
  <2>1. v \in Int
    BY <1>3
  <2> QED
    BY <1>1, <1>2, <1>3, <1>4, <2>1
<1> QED
  BY <1>1, <1>2, <1>4, <1>5

\* One more sample of a thread.
LEMMA SteadyStep ==
    ASSUME DecayPercent = 15, NEW load \in Loads, NEW w \in Int \cup {NaN},
           NEW v \in Weighed(load, w),
           NEW s \in [load : Loads \cup {-1}, samples : 0 .. SteadyBound, ranged : BOOLEAN],
           SteadyFits(s, w)
    PROVE  SteadyFits(SteadyAfter(s, load, w), v)
<1> DEFINE a == SteadyAfter(s, load, w)
<1>1. load \in Nat /\ Scale \in Nat
  BY CapacityAssumption, WeightAssumption
<1>2. CASE s.load # load
  <2>1. a.load = load /\ a.samples = 1 /\ a.ranged = (w \in 0 .. Scale)
    BY <1>2 DEF SteadyAfter
  <2> SUFFICES ASSUME a.ranged PROVE SteadyFits(a, v)
    BY DEF SteadyFits
  <2> HIDE DEF a
  <2>2. w \in 0 .. Scale
    BY <2>1
  <2>3. /\ v \in 0 .. Scale
        /\ 100 * v >= 15 * load + 85 * w - 100
        /\ 100 * v <= 15 * load + 85 * w + 85
    BY <2>2, WeighedBounds
  <2>4. a.load = 0 => Fading(a, v)
    BY <1>1, <2>1, <2>2, <2>3 DEF Fading, FadedTo, Left
  <2>5. a.load = Scale => Gaining(a, v)
    BY <1>1, <2>1, <2>2, <2>3 DEF Gaining, GainedTo, Gained
  <2> QED
    BY <2>3, <2>4, <2>5 DEF SteadyFits
<1>3. CASE s.load = load
  <2>1. /\ a.load = load /\ a.ranged = s.ranged
        /\ a.samples = s.samples \/ (s.samples < SteadyBound /\ a.samples = s.samples + 1)
    BY <1>3 DEF SteadyAfter
  <2> SUFFICES ASSUME a.ranged PROVE SteadyFits(a, v)
    BY DEF SteadyFits
  <2> HIDE DEF a
  <2>2. w \in 0 .. Scale /\ (load = 0 => Fading(s, w)) /\ (load = Scale => Gaining(s, w))
    BY <1>3, <2>1 DEF SteadyFits
  <2>3. /\ v \in 0 .. Scale
        /\ 100 * v >= 15 * load + 85 * w - 100
        /\ 100 * v <= 15 * load + 85 * w + 85
    BY <2>2, WeighedBounds
  <2>4. s.samples \in 0 .. SteadyBound /\ a.samples \in 0 .. SteadyBound
    BY <2>1 DEF SteadyBound
  <2>5. /\ Left(s.samples) \in Nat /\ Left(a.samples) \in Nat
        /\ 85 * Left(s.samples) <= 100 * Left(a.samples)
    BY <2>1, <2>4, LeftAndGained
  <2>6. /\ Gained(s.samples) \in Nat /\ Gained(a.samples) \in Nat
        /\ 85 * Gained(s.samples) + 150000 >= 100 * Gained(a.samples)
    BY <2>1, <2>4, LeftAndGained
  <2>7. w \in Nat /\ v \in Int
    BY <1>1, <2>2, <2>3
  <2>8. load = 0 => Fading(a, v)
    <3> SUFFICES ASSUME load = 0 PROVE Fading(a, v)
      OBVIOUS
    <3>1. 100 * v <= 85 * w + 85
      BY <2>3, <2>7
    <3>2. FadedTo(Left(s.samples), w)
      BY <2>2 DEF Fading
    <3> QED
      BY <1>1, <2>5, <2>7, <3>1, <3>2, FadesOn DEF Fading
  <2>9. load = Scale => Gaining(a, v)
    <3> SUFFICES ASSUME load = Scale PROVE Gaining(a, v)
      OBVIOUS
    <3>1. Rises(w, v)
      BY <2>3, <2>7, <1>1 DEF Rises
    <3>2. Grows(Gained(s.samples), Gained(a.samples))
      BY <2>6 DEF Grows
    <3>3. GainedTo(Gained(s.samples), w)
      BY <2>2 DEF Gaining
    <3>4. Scale \in Nat /\ Gained(s.samples) \in Nat /\ Gained(a.samples) \in Nat
      BY <1>1, <2>6
    <3>5. GainedTo(Gained(a.samples), v)
      BY <2>7, <3>1, <3>2, <3>3, <3>4, GainsOn, Zenon
    <3> QED
      BY <3>5 DEF Gaining
  <2> QED
    BY <2>1, <2>3, <2>8, <2>9 DEF SteadyFits
<1> QED
  BY <1>2, <1>3

LEMMA SteadyInvHolds ==
    ASSUME DecayPercent = 15
    PROVE  Spec => []SteadyInv
<1>1. Init => SteadyInv
  BY DEF Init, SteadyInv, SteadyFits
<1>2. TypeOK /\ SteadyInv /\ [Next]_vars => SteadyInv'
  <2> SUFFICES ASSUME TypeOK, SteadyInv, [Next]_vars, NEW x \in Trackers
               PROVE  SteadyFits(steady'[x], weighted'[x])
    BY DEF SteadyInv
  <2>0. SteadyFits(steady[x], weighted[x])
    BY DEF SteadyInv
  <2>1. CASE UNCHANGED <<weighted, idle_count, history>>
    BY <2>0, <2>1 DEF history
  <2>2. ASSUME NEW t \in Trackers, NEW load \in Loads, Sampled(t, load)
        PROVE  SteadyFits(steady'[x], weighted'[x])
    <3>0. PICK w \in Weighed(load, weighted[t]) : \E hint : SampledAs(t, load, w, hint)
      BY <2>2 DEF Sampled
    <3>1. /\ weighted' = [weighted EXCEPT ![t] = w]
          /\ steady' = [steady EXCEPT ![t] = SteadyAfter(@, load, weighted[t])]
      BY <3>0 DEF SampledAs, RememberSample
    <3>2. CASE x # t
      BY <2>0, <3>1, <3>2 DEF TypeOK
    <3>3. CASE x = t
      <4>1. weighted'[x] = w /\ steady'[x] = SteadyAfter(steady[x], load, weighted[x])
        BY <3>1, <3>3 DEF TypeOK
      <4>2. /\ weighted[x] \in Int \cup {NaN}
            /\ steady[x] \in [load : Loads \cup {-1}, samples : 0 .. SteadyBound, ranged : BOOLEAN]
        BY DEF TypeOK
      <4> QED
        BY <2>0, <3>3, <4>1, <4>2, SteadyStep
    <3> QED
      BY <3>2, <3>3
  <2>3. Tick \/ UNCHANGED vars => UNCHANGED <<weighted, idle_count, history>>
    BY DEF Tick, vars, members, history
  <2> QED
    BY <2>1, <2>2, <2>3, SampleOutcome DEF Next
<1> QED
  BY <1>1, <1>2, CapacityTypeCorrect, PTL DEF Spec

\* With the code's kWeightDecay of 0.15, and loads told apart to a hundredth, three
\* full samples suffice for a thread to be over capacity and SteadyBound empty ones
\* for it to be idle, whatever its load was before, with every rounding.
THEOREM LoadIsFollowed ==
    ASSUME DecayPercent = 15, Scale >= 100
    PROVE  Spec => []ReactsToLoad
<1>1. TypeOK /\ SteadyInv => ReactsToLoad
  <2> SUFFICES ASSUME TypeOK, SteadyInv, NEW t \in Trackers, steady[t].ranged
               PROVE  /\ steady[t].load = Scale /\ steady[t].samples >= 3 =>
                           Band(weighted[t]) = kCapacityOver
                      /\ steady[t].load = 0 /\ steady[t].samples = SteadyBound =>
                           Band(weighted[t]) = kCapacityIdle
    BY DEF ReactsToLoad
  <2> DEFINE w == weighted[t]
             s == steady[t]
  <2>1. Scale \in Nat /\ NaN \notin Int /\ s.samples \in 0 .. SteadyBound
    BY CapacityAssumption, WeightAssumption DEF TypeOK
  <2>2. /\ w \in 0 .. Scale
        /\ s.load = 0 => Fading(s, w)
        /\ s.load = Scale => Gaining(s, w)
    BY DEF SteadyInv, SteadyFits
  <2> HIDE DEF w, s
  <2>3. w \in Nat /\ w # NaN
    BY <2>1, <2>2
  <2>4. s.load = Scale /\ s.samples >= 3 => Band(w) = kCapacityOver
    <3> SUFFICES ASSUME s.load = Scale, s.samples >= 3 PROVE Band(w) = kCapacityOver
      OBVIOUS
    <3>1. Gained(s.samples) = 3858
      BY <2>1 DEF Gained, SteadyBound
    <3>2. 10000 * w + 66700 >= 3858 * Scale
      BY <2>2, <3>1 DEF Gaining, GainedTo
    <3>3. 100 * w >= 30 * Scale
      BY <2>1, <2>3, <3>2
    <3>4. AtLeast(w, 30) /\ AtLeast(w, 15)
      BY <2>1, <2>3, <3>3 DEF AtLeast
    <3> QED
      BY <3>4 DEF Band
  <2>5. s.load = 0 /\ s.samples = SteadyBound => Band(w) = kCapacityIdle
    <3> SUFFICES ASSUME s.load = 0, s.samples = SteadyBound PROVE Band(w) = kCapacityIdle
      OBVIOUS
    <3>1. Left(s.samples) = 391
      BY DEF Left, SteadyBound
    <3>2. 10000 * w <= 391 * Scale + 56700
      BY <2>2, <3>1 DEF Fading, FadedTo
    <3>3. 100 * w < 10 * Scale
      BY <2>1, <2>3, <3>2
    <3>4. ~AtLeast(w, 10) /\ ~AtLeast(w, 15) /\ ~AtLeast(w, 30)
      BY <2>1, <2>3, <3>3 DEF AtLeast
    <3> QED
      BY <3>4 DEF Band
  <2> QED
    BY <2>4, <2>5 DEF w, s
<1> QED
  BY <1>1, SteadyInvHolds, CapacityTypeCorrect, PTL
=============================================================================
