------------------------------ MODULE Governor ------------------------------
(***************************************************************************)
(* What the device service promises about the frequency of the processor   *)
(* (switch "frequency"), without threads, pipes, providers, remembered     *)
(* frequencies or a power scheme that is stored and applied: one level, a  *)
(* limit for each level, and one peak of what was heard since the level    *)
(* was decided last.                                                       *)
(***************************************************************************)
EXTENDS Integers

CONSTANTS
    MaxFrequencies, \* what the processor may be measured at
    Scaled,         \* Scaled[m][l]: l per cent of m
    Top,            \* the level without a limit
    Step,           \* by how much a decision lowers the level
    Floor,          \* no level limits the P cores on AC below this
    Wait,           \* a hint decides if it is later than the last decision by more
    Late,           \* no hint is heard later than this after it was made
    Forever,        \* ages are counted up to this
    Garbage         \* what the peak may be before the first decision

Idle == 0
Over == 3
Capacity == Idle .. Over

VARIABLES
    hybrid,         \* does the processor have E cores?
    started,        \* does the service run?
    frequency,      \* what it has measured
    level,          \* 0 .. Top
    applied,        \* the limits the processor runs at
    served,         \* has anybody asked for the service?
    peak,           \* the highest capacity heard since the last decision
    age             \* the age of the hint that made the last decision

vars == <<hybrid, started, frequency, level, applied, served, peak, age>>

Pair(high, low) == [ac |-> high, dc |-> low]
Both(p, e) == [core \in {0, 1} |-> IF core = 0 THEN p ELSE e]

Higher(a, b) == IF a > b THEN a ELSE b

\* The limit of the lowest step holds for all levels below it.
High(l) == Scaled[frequency][Higher(l, Step)]

NoLimit == Both(Pair(0, 0), Pair(0, 0))

\* The P cores get more than the E cores and AC more than DC, but at the floor.
LimitOf(l) ==
    LET h == High(l)
        e == h - 100
    IN  CASE l = Top -> NoLimit
          [] l # Top /\ h > Floor ->
               Both(Pair(h, h - 200), IF hybrid THEN Pair(e, e - 200) ELSE Pair(0, 0))
          [] OTHER ->
               Both(Pair(Floor, Floor), IF hybrid THEN Pair(Floor, Floor) ELSE Pair(0, 0))

Init ==
    /\ hybrid \in BOOLEAN
    /\ started = FALSE /\ frequency = 0
    /\ level = Top /\ applied = NoLimit
    /\ served = FALSE /\ peak = Idle /\ age = Forever

-----------------------------------------------------------------------------
Start ==
    /\ ~started /\ started' = TRUE
    /\ frequency' \in MaxFrequencies
    /\ UNCHANGED <<hybrid, level, applied, served, peak, age>>

Serve ==
    /\ ~served /\ served' = TRUE
    /\ peak' \in Garbage
    /\ UNCHANGED <<hybrid, started, frequency, level, applied, age>>

\* A hint that decides nothing.
Hear(c) ==
    /\ started /\ served
    /\ peak' = Higher(c, peak)
    /\ UNCHANGED <<hybrid, started, frequency, level, applied, served, age>>

\* Whoever was overloaded lifts the limit for all.  If nobody was even met it
\* comes down by one step, unless it is at the floor.
Shifted(p) ==
    CASE p = Over -> Top
      [] p \in {Idle, Idle + 1} /\ (level = Top \/ High(level) > Floor) ->
           Higher(level - Step, 0)
      [] OTHER -> level

Decide(c, late) ==
    /\ started /\ served
    /\ age - late > Wait
    /\ level' = Shifted(Higher(c, peak))
    /\ applied' = LimitOf(level')
    /\ peak' = Idle /\ age' = late
    /\ UNCHANGED <<hybrid, started, frequency, served>>

Age ==
    /\ age < Forever /\ age' = age + 1
    /\ UNCHANGED <<hybrid, started, frequency, level, applied, served, peak>>

Next ==
    \/ Start \/ Serve \/ Age
    \/ \E c \in Capacity : Hear(c) \/ \E late \in 0 .. Late : Decide(c, late)

Spec == Init /\ [][Next]_vars
=============================================================================
