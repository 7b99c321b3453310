-------------------------- MODULE FrequencyLimiter --------------------------
(***************************************************************************)
(* The class frequencyLimiter of services/device/device_service: it keeps  *)
(* a "gear" out of MAX_KNOBS and translates it into processor frequency    *)
(* limits that it writes into the power scheme of the machine.             *)
(*                                                                         *)
(* The module follows the one object of the one process that shifts gears. *)
(* That process handles its hints on one sequence, so between two handlers *)
(* nothing of it runs, and where no other process writes, each sequence of *)
(* Power* calls has one of the outcomes of SetLimits: a handler is one     *)
(* step.  SharedPowerScheme shows that, and what holds when the objects of *)
(* other processes write between any two of the calls.                     *)
(***************************************************************************)
EXTENDS PowerScheme

CONSTANTS
    MaxFrequencies, \* what CalculateFrequency may measure; 0 = it failed
    Scaled,         \* Scaled[m][g]: the binary32 value of (g/100)*m, truncated
    DownCounts,     \* arguments GearDown is called with
    UpCounts        \* arguments GearUp is called with

MAX_KNOBS    == 100
ECORE_OFFSET == 100
ADL_TURBO    == 1500
DC_OFFSET    == 200   \* dcOffset when it is not 0
FLOOR        == 1000  \* no gear goes below this AC frequency

Gears == 0 .. MAX_KNOBS

\* A negative count would pass the tests of GearDown and GearUp; the service
\* only uses 10 and 100.
ASSUME ConstantAssumption ==
    /\ Word \in Nat /\ Word > ADL_TURBO
    /\ DownCounts \subseteq Nat /\ UpCounts \subseteq Nat
    /\ StoredLimits \subseteq Uint32

\* ADL_TURBO is added to every sample.
ASSUME FrequencyAssumption ==
    \A m \in MaxFrequencies : m \in Uint32 /\ (m = 0 \/ m >= ADL_TURBO)

\* A frequency is scaled in single precision: the result may be one below
\* the exact quotient, never above it.
ASSUME ScaledAssumption ==
    /\ Scaled \in [MaxFrequencies -> [Gears -> Uint32]]
    /\ \A m \in MaxFrequencies, g \in Gears :
           /\ 100 * Scaled[m][g] <= g * m
           /\ g * m <= 100 * Scaled[m][g] + 100

VARIABLES
    alive,          \* is there a constructed object?
    maxFrequency,   \* m_MaxFrequency
    gear,           \* m_CurrentGear
    ac, dc,         \* m_CurrentACFrequency, m_CurrentDCFrequency
    stepped         \* history: has GearUp ever stopped below the top?

members == <<maxFrequency, gear, ac, dc>>
vars    == <<alive, machine, members, power, stepped>>

TypeOK ==
    /\ alive \in BOOLEAN /\ isHybrid \in BOOLEAN /\ faulty \in BOOLEAN
    /\ maxFrequency \in IF alive THEN MaxFrequencies ELSE {0}
    /\ gear \in Gears
    /\ ac \in Uint32 /\ dc \in Uint32
    /\ power \in Power
    /\ stepped \in BOOLEAN

-----------------------------------------------------------------------------
Minus(a, b) == IF a >= b THEN a - b ELSE a - b + Word   \* unsigned a - b

\* GearDown and GearUp write the E cores eOffset below the P cores.
WriteGear(a, d, eOffset) ==
    power' \in SetLimits(power, [ac |-> a, dc |-> d],
                                [ac |-> Minus(a, eOffset), dc |-> Minus(d, eOffset)])

Release == power' \in SetLimits(power, Released, Released)

\* Reads the stored values of the active scheme back from the registry; there
\* are none for the E cores of a machine that is not hybrid.
NON_HYBRID_CORE_ECORE_REQUEST == -2
GetCoreMaxFrequency(core) ==
    IF core = ECORE /\ ~isHybrid THEN NON_HYBRID_CORE_ECORE_REQUEST
                                 ELSE power.scheme[core]

-----------------------------------------------------------------------------
\* Before the object exists its static storage is zero; the scheme holds
\* whatever was stored last.
Init ==
    /\ alive = FALSE
    /\ MachineInit
    /\ maxFrequency = 0 /\ gear = 0 /\ ac = 0 /\ dc = 0
    /\ stepped = FALSE

\* Fifteen samples of the time stamp counter, plus ADL_TURBO; 0 if there is no
\* performance counter.
CalculateFrequency == maxFrequency' \in MaxFrequencies

\* A cpuid bit: the answer is the same at every start.
IsIntelHybrid == UNCHANGED machine

\* The constructor: calibrate, then remove whatever limit is in the scheme.
Construct ==
    /\ ~alive /\ alive' = TRUE
    /\ gear' = MAX_KNOBS
    /\ CalculateFrequency
    /\ IsIntelHybrid
    /\ Release
    /\ UNCHANGED <<ac, dc, stepped>>

ValidCount(count) == count # 0 /\ count <= MAX_KNOBS

\* GearDown does nothing once the AC frequency is at the floor.
MayGearDown(count) == alive /\ ValidCount(count) /\ (ac = 0 \/ ac > FLOOR)

\* A scaled frequency at or below the floor becomes the floor, without offsets.
AtFloor(scaled) == scaled # 0 /\ scaled <= FLOOR

Clamp(scaled) == IF AtFloor(scaled) THEN FLOOR ELSE scaled

OffsetKept(scaled, offset) == offset                             \* mutant
OffsetFor(scaled, offset) == IF AtFloor(scaled) THEN 0 ELSE offset

GearDownStep(count) ==
    /\ MayGearDown(count)
    /\ gear - count > 0
    /\ gear' = gear - count
    /\ LET scaled == Scaled[maxFrequency][gear - count]
       IN  /\ ac' = Clamp(scaled)
           /\ dc' = Minus(ac', OffsetFor(scaled, DC_OFFSET))
           /\ WriteGear(ac', dc', OffsetFor(scaled, ECORE_OFFSET))
    /\ UNCHANGED <<alive, machine, maxFrequency, stepped>>

\* There is no gear left: the AC frequency stays what it was.
GearDownBottom(count) ==
    /\ MayGearDown(count)
    /\ gear - count <= 0
    /\ gear' = 0
    /\ ac' = IF ac = 0 THEN maxFrequency ELSE ac
    /\ dc' = Minus(ac', IF ac' > FLOOR THEN DC_OFFSET ELSE 0)
    /\ WriteGear(ac', dc', IF ac' > FLOOR THEN ECORE_OFFSET ELSE 0)
    /\ UNCHANGED <<alive, machine, maxFrequency, stepped>>

GearDownIgnored(count) == alive /\ ~MayGearDown(count) /\ UNCHANGED vars

GearDown(count) == GearDownStep(count) \/ GearDownBottom(count) \/ GearDownIgnored(count)

\* GearUp does nothing while there is no AC limit.
MayGearUpUnlimited(count) == alive /\ ValidCount(count)          \* mutant
MayGearUp(count) == alive /\ ValidCount(count) /\ ac # 0

\* Below the floor the DC frequency keeps its old value.
DcAlwaysOffset(a) == Minus(a, DC_OFFSET)                         \* mutant
DcAfterUp(a) == IF a >= FLOOR THEN Minus(a, DC_OFFSET) ELSE dc

GearUpStep(count) ==
    /\ MayGearUp(count)
    /\ gear + count < MAX_KNOBS
    /\ gear' = gear + count
    /\ ac' = Scaled[maxFrequency][gear + count]
    /\ dc' = DcAfterUp(ac')
    /\ WriteGear(ac', dc', IF ac' >= FLOOR THEN ECORE_OFFSET ELSE 0)
    /\ UNCHANGED <<alive, machine, maxFrequency>>
    /\ stepped' = TRUE

GearUpTop(count) ==
    /\ MayGearUp(count)
    /\ gear + count >= MAX_KNOBS
    /\ gear' = MAX_KNOBS
    /\ Release
    /\ ac' = 0 /\ dc' = 0
    /\ UNCHANGED <<alive, machine, maxFrequency, stepped>>

GearUpIgnored(count) == alive /\ ~MayGearUp(count) /\ UNCHANGED vars

GearUp(count) == GearUpStep(count) \/ GearUpTop(count) \/ GearUpIgnored(count)

\* The process is gone and its static storage with it.
Vanish ==
    /\ alive /\ alive' = FALSE
    /\ maxFrequency' = 0 /\ gear' = 0 /\ ac' = 0 /\ dc' = 0
    /\ UNCHANGED <<machine, stepped>>

Destroy == Vanish /\ Release

\* Between two handlers: what is applied stays.
Crash == Vanish /\ UNCHANGED power

Next ==
    \/ Construct
    \/ \E count \in DownCounts : GearDown(count)
    \/ \E count \in UpCounts : GearUp(count)
    \/ Destroy
    \/ Crash

Spec == Init /\ [][Next]_vars
-----------------------------------------------------------------------------
\* Every write reaches the machine and the members say what is applied: the
\* scheme is never left half applied, the P cores run at the remembered pair,
\* the E cores at that pair or ECORE_OFFSET below it, and no limit is applied
\* when the object believes there is none.  (GearDown, GearUp and the
\* constructor each rewrite both core types.)
PolicyMatchesMembers ==
    /\ power.applied = power.scheme
    /\ GetCoreMaxFrequency(PCORE) = [ac |-> ac, dc |-> dc]
    /\ isHybrid =>
         \/ GetCoreMaxFrequency(ECORE) = [ac |-> ac, dc |-> dc]
         \/ /\ ac # 0 \/ maxFrequency = 0
            /\ GetCoreMaxFrequency(ECORE) = [ac |-> Minus(ac, ECORE_OFFSET),
                                             dc |-> Minus(dc, ECORE_OFFSET)]

\* What the machine runs at is a function of the gear alone, however the hints
\* came: no limit at all in the top gear, even right after the restart that
\* follows a crash; the scaled frequency with its offsets where that is above
\* the floor; and at most the floor below, exactly the floor without any offset
\* unless GearUp has come back up step by step.  (Gear 0 keeps the frequency of
\* the gear before it; a machine whose frequency is not known has no limits.)
PolicyFollowsGear ==
    gear # 0 /\ maxFrequency # 0 =>
      LET p == power.applied[PCORE]
          e == power.applied[ECORE]
          s == Scaled[maxFrequency][gear]
      IN  /\ gear = MAX_KNOBS => p = Released /\ (isHybrid => e = Released)
          /\ gear < MAX_KNOBS /\ s > FLOOR =>
                /\ p = [ac |-> s, dc |-> s - 200]
                /\ isHybrid => e = [ac |-> s - 100, dc |-> s - 300]
          /\ gear < MAX_KNOBS /\ s <= FLOOR =>
                /\ p.ac <= FLOOR
                /\ isHybrid => e.ac <= FLOOR
          /\ gear < MAX_KNOBS /\ s <= FLOOR /\ ~stepped =>
                /\ p = [ac |-> FLOOR, dc |-> FLOOR]
                /\ isHybrid => e = [ac |-> FLOOR, dc |-> FLOOR]

\* On a machine whose writes succeed, and as long as no other process writes:
\* what is applied agrees with the object and with its gear, for any counts,
\* measurements, crashes and restarts.
AppliedIsIntended ==
    ~faulty /\ alive => PolicyMatchesMembers /\ PolicyFollowsGear

\* Whatever mix of old and new values failed writes, crashes and restarts leave
\* behind, no core type is held below 1000 - 100 MHz on AC or
\* 1000 - 300 MHz on DC, unless GearUp was called with small counts; and
\* whatever the counts, no subtraction of an offset has wrapped around, except
\* where the frequency could not be measured (m_MaxFrequency stays 0, the error
\* is ignored): the wrapped limits are then so high that they limit nothing.
WrappedLimits == {Word - ECORE_OFFSET, Word - DC_OFFSET, Word - ECORE_OFFSET - DC_OFFSET}
InRange(limit, low) ==
    \/ limit = 0
    \/ limit > low /\ \E m \in MaxFrequencies : limit <= m
    \/ limit \in WrappedLimits /\ 0 \in MaxFrequencies
SoundLimits(l, anyCounts) ==
    /\ InRange(l.ac, IF anyCounts THEN 0 ELSE 900)
    /\ InRange(l.dc, IF anyCounts THEN 0 ELSE 700)
SoundPower(p, anyCounts) ==
    \A c \in Core : SoundLimits(p.scheme[c], anyCounts) /\ SoundLimits(p.applied[c], anyCounts)
NeverStarved == SoundPower(power, stepped)

\* Shifting down never raises a limit, except to the floor: where the AC value
\* is clamped to 1000 the offsets are dropped, and the DC and E core limits,
\* which were 200 and 100 lower, go up to 1000.
DownRaises ==
    ~faulty /\ alive /\ alive' /\ gear' < gear /\ maxFrequency # 0 =>
        \A c \in Core :
            LET old == power.applied[c]
                new == power'.applied[c]
            IN  /\ old.ac # 0 /\ new.ac > old.ac => new.ac = FLOOR
                /\ old.dc # 0 /\ new.dc > old.dc => new.dc = FLOOR

\* A release that failed is not repaired by asking again: GearUp returns early
\* because the object believes that there is no limit, so a machine that is
\* still limited stays so at least until GearDown has limited it anew.  (Where no frequency was measured GearDown
\* itself may write the release.)
Limited == \E c \in Core : power.applied[c] # Released
ReleaseStaysLost ==
    alive /\ alive' /\ maxFrequency # 0 /\ ac = 0 /\ Limited => Limited'

\* No step raises a limit that should fall, or lifts one that was to be lifted.
StepsKeepLimits == [][DownRaises /\ ReleaseStaysLost]_vars
=============================================================================
