--------------------------- MODULE DeviceCapacity ---------------------------
(***************************************************************************)
(* The class DeviceCapacity of the Blink scheduler: one object per thread  *)
(* load tracker.  SetCapacity smooths the load of its thread into          *)
(* weighted_capacity_ and sends the capacity it falls in to the device     *)
(* service; idle threads send only one hint in IdlePeriod samples.         *)
(*                                                                         *)
(* The constructor initialises nothing, so the first values are garbage; a *)
(* float may even be a NaN, which no comparison is true of.                *)
(*                                                                         *)
(* No threshold is a binary fraction, so x > 0.30 holds of a float exactly *)
(* if Scale * x >= Scale * 0.30 holds of the integer that represents it.   *)
(***************************************************************************)
EXTENDS CapacityWeight

CONSTANTS
    Trackers,           \* the threads that track their load
    Loads,              \* Load() * Scale
    IdlePeriod,         \* 64
    Word,               \* 2^32, the modulus of uint32_t
    TickModulus,        \* 2^32, where GetTickCount() wraps
    GarbageCounts       \* what an uninitialised idle_count_ may hold

ASSUME CapacityAssumption ==
    /\ Loads \subseteq 0 .. Scale
    /\ IdlePeriod \in Nat /\ IdlePeriod > 1
    /\ Word \in Nat /\ Word > IdlePeriod /\ Word % IdlePeriod = 0
    /\ TickModulus \in Nat \ {0}
    /\ GarbageCounts \subseteq 0 .. Word - 1

kCapacityIdle  == 0
kCapacityUnder == 1
kCapacityMeet  == 2
kCapacityOver  == 3
Capacity == kCapacityIdle .. kCapacityOver

VARIABLES
    now,                \* GetTickCount()
    high,               \* high_capacity_
    weighted,           \* weighted_capacity_
    idle_count,         \* idle_count_
    previous_tick,      \* previous_tick_count_
    same_thread,        \* does previous_thread_id_ hold the thread's id?
    \* History, for the properties only.
    lastSent,           \* the last capacity sent, -1 if none
    silent,             \* samples taken since
    steady              \* the last load, for how many samples it has held, and
                        \* whether the weight was a load when it set in

members == <<high, weighted, idle_count, previous_tick, same_thread>>
history == <<lastSent, silent, steady>>
vars    == <<now, members, history>>

Ticks  == 0 .. TickModulus - 1
NoHint == [tick |-> -1, from |-> NaN, capacity |-> -1]

SteadyBound == 20       \* steady counts no further

TypeOK ==
    /\ now \in Ticks
    /\ high \in [Trackers -> Int \cup {NaN}]
    /\ weighted \in [Trackers -> Int \cup {NaN}]
    /\ idle_count \in [Trackers -> 0 .. Word - 1]
    /\ previous_tick \in [Trackers -> Ticks]
    /\ same_thread \in [Trackers -> BOOLEAN]
    /\ lastSent \in [Trackers -> Capacity \cup {-1}]
    /\ silent \in [Trackers -> Nat]
    /\ steady \in [Trackers -> [load : Loads \cup {-1}, samples : 0 .. SteadyBound,
                             ranged : BOOLEAN]]

Init ==
    /\ now \in Ticks
    /\ high \in [Trackers -> GarbageWeights]
    /\ weighted \in [Trackers -> GarbageWeights]
    /\ idle_count \in [Trackers -> GarbageCounts]
    /\ previous_tick \in [Trackers -> Ticks]
    /\ same_thread \in [Trackers -> BOOLEAN]
    /\ lastSent = [t \in Trackers |-> -1]
    /\ silent = [t \in Trackers |-> 0]
    /\ steady = [t \in Trackers |-> [load |-> -1, samples |-> 0, ranged |-> FALSE]]

-----------------------------------------------------------------------------
AtLeast(w, percent) == w # NaN /\ 100 * w >= percent * Scale

\* The thresholds 0.30, 0.15 and 0.10; a NaN falls through to Idle.
Band(w) ==
    CASE AtLeast(w, 30) -> kCapacityOver
      [] AtLeast(w, 15) /\ ~AtLeast(w, 30) -> kCapacityMeet
      [] AtLeast(w, 10) /\ ~AtLeast(w, 15) -> kCapacityUnder
      [] OTHER -> kCapacityIdle

\* An idle sample is reported when idle_count_ is a multiple of the period.
\* Leaving the idle band does not touch idle_count_.
OnlyFirstIdle(count) == count = 0                                \* mutant
IdleDue(count) == count % IdlePeriod = 0

Sends(band, count) == band # kCapacityIdle \/ IdleDue(count)

CountStuck(band, count) ==                                       \* mutant
    IF band = kCapacityIdle /\ IdleDue(count) THEN 1 ELSE count
CountAfter(band, count) ==
    CASE band # kCapacityIdle -> count
      [] band = kCapacityIdle /\ IdleDue(count) -> 1
      [] OTHER -> (count + 1) % Word

Repeated(t, tick) == tick = previous_tick[t] /\ same_thread[t]

\* One sample, taken at tick; the hint carries a tick that is read again later.
\* The band compared is that of the smoothed load.
BandOfLoad(load, w) == Band(load)                                \* mutant
BandSent(load, w) == Band(w)

Sample(t, load, tick, later, hint) ==
    /\ ~Repeated(t, tick)
    /\ previous_tick' = [previous_tick EXCEPT ![t] = tick]
    /\ same_thread' = [same_thread EXCEPT ![t] = TRUE]
    /\ high' = [high EXCEPT ![t] = IF @ # NaN /\ load > @ THEN load ELSE @]
    /\ \E w \in Weighed(load, weighted[t]) :
         /\ weighted' = [weighted EXCEPT ![t] = w]
         /\ LET band == BandSent(load, w)
            IN  /\ idle_count' = [idle_count EXCEPT ![t] = CountAfter(band, @)]
                /\ hint = IF Sends(band, idle_count[t])
                          THEN [tick |-> later, from |-> t, capacity |-> band]
                          ELSE NoHint

\* A second sample in the tick of the one before is lost.
SampleLost(t, tick, hint) ==
    /\ Repeated(t, tick)
    /\ hint = NoHint
    /\ UNCHANGED members

\* SetCapacity(load), called at tick; hint is what it sends.
SetCapacity(t, load, tick, later, hint) ==
    Sample(t, load, tick, later, hint) \/ SampleLost(t, tick, hint)

HintsAt(t, tick) == {[tick |-> tick, from |-> t, capacity |-> c] : c \in Capacity} \cup {NoHint}

SteadyAfter(s, load, w) ==
    CASE s.load # load -> [load |-> load, samples |-> 1, ranged |-> w \in 0 .. Scale]
      [] s.load = load /\ s.samples < SteadyBound -> [s EXCEPT !.samples = @ + 1]
      [] OTHER -> s

RememberSample(t, load, hint) ==
    /\ lastSent' = [lastSent EXCEPT ![t] = IF hint # NoHint THEN hint.capacity ELSE @]
    /\ silent' = [silent EXCEPT ![t] = IF hint # NoHint THEN 0 ELSE @ + 1]
    /\ steady' = [steady EXCEPT ![t] = SteadyAfter(@, load, weighted[t])]

\* The clock may advance between the two reads of it.
SetCapacityNow(t, load) ==
    \E later \in {now, (now + 1) % TickModulus} : \E hint \in HintsAt(t, later) :
        /\ now' = later
        /\ SetCapacity(t, load, now, later, hint)
        /\ IF Repeated(t, now) THEN UNCHANGED history ELSE RememberSample(t, load, hint)

Tick ==
    /\ now' = (now + 1) % TickModulus
    /\ UNCHANGED <<members, history>>

Next == Tick \/ \E t \in Trackers, load \in Loads : SetCapacityNow(t, load)

Spec == Init /\ [][Next]_vars
-----------------------------------------------------------------------------
\* Whatever idle_count_ started with and however often the thread entered and
\* left the idle band, at most IdlePeriod - 1 samples in a row send nothing.
SilenceBounded == \A t \in Trackers : silent[t] < IdlePeriod

\* What the service was told last is the band the thread is in now, but for an
\* idle thread between two of its hints, which may still be known as anything.
\* An object whose weight began as a NaN is excepted from that: whatever the load
\* of its thread, it never reports anything but idleness.
LastHintIsBand ==
    \A t \in Trackers :
        lastSent[t] # -1 /\ lastSent[t] # Band(weighted[t]) =>
            Band(weighted[t]) = kCapacityIdle /\ weighted[t] # NaN /\ silent[t] > 0

\* A thread fully loaded for three samples is over capacity and one without
\* load for SteadyBound samples is idle, whatever its load was before.  (This is
\* so once weighted_capacity_ is the weight of a load at all: a garbage value
\* that is not, however large, only fades with time, and a NaN never.)
ReactsToLoad ==
    \A t \in Trackers : steady[t].ranged =>
        /\ steady[t].load = Scale /\ steady[t].samples >= 3 => Band(weighted[t]) = kCapacityOver
        /\ steady[t].load = 0 /\ steady[t].samples = SteadyBound => Band(weighted[t]) = kCapacityIdle
=============================================================================
