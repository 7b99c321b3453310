------------------------- MODULE SharedPowerScheme -------------------------
(***************************************************************************)
(* Every process that loads the code has a frequencyLimiter, a global      *)
(* object, and all of them write the one power scheme without a lock.      *)
(* Each Power* call is a step here: between any two of the up to six calls *)
(* of a constructor, a gear shift or a destructor other processes may make *)
(* theirs, a call may fail, and the process may be killed.                 *)
(*                                                                         *)
(* FrequencyLimiter follows one such object, with the values it computes,  *)
(* and takes each sequence as one step; AloneIsAtomic is why it may.       *)
(***************************************************************************)
EXTENDS PowerScheme

CONSTANTS
    Processes,      \* those that have loaded the code
    GearLimits      \* what a gear shift may ask for: limits of each core type

Former   == "former"    \* whoever wrote before, or is killed now
NoLimits == [c \in Core |-> Released]
Cells    == [ac : Processes \cup {Former}, dc : Processes \cup {Former}]

ASSUME ProcessAssumption ==
    Former \notin Processes /\ GearLimits \subseteq [Core -> Limits]

VARIABLES
    object,         \* does the process have its object?
    asked,          \* the limits of its last sequence of calls
    core,           \* the Core of the SetCoreMaxFrequency it is in
    call,           \* the call it makes next: "ac", "dc", "apply", or "none"
    \* History, for the properties only.
    by,             \* who wrote the values that are stored and applied
    before          \* {what power was when its last sequence of calls began},
                    \* {} once another process has written since

processes  == <<object, asked, core, call>>
sharedVars == <<machine, power, processes, by, before>>

SharedTypeOK ==
    /\ isHybrid \in BOOLEAN /\ faulty \in BOOLEAN /\ power \in Power
    /\ object \in [Processes -> BOOLEAN]
    /\ asked \in [Processes -> [Core -> Limits]]
    /\ core \in [Processes -> Core]
    /\ call \in [Processes -> {"ac", "dc", "apply", "none"}]
    /\ by \in [scheme : [Core -> Cells], applied : [Core -> Cells]]
    /\ before \in [Processes -> SUBSET Power]

SharedInit ==
    /\ MachineInit
    /\ object = [p \in Processes |-> FALSE]
    /\ asked = [p \in Processes |-> NoLimits]
    /\ core = [p \in Processes |-> PCORE]
    /\ call = [p \in Processes |-> "none"]
    /\ LET nobody == [c \in Core |-> [ac |-> Former, dc |-> Former]]
       IN  by = [scheme |-> nobody, applied |-> nobody]
    /\ before = [p \in Processes |-> {}]

-----------------------------------------------------------------------------
Idle(p) == call[p] = "none"

\* A method of the object calls SetCoreMaxFrequency for PCORE and then, if the
\* machine is hybrid, for ECORE.
Begin(p, limits) ==
    /\ Idle(p)
    /\ asked' = [asked EXCEPT ![p] = limits]
    /\ core' = [core EXCEPT ![p] = PCORE]
    /\ call' = [call EXCEPT ![p] = "ac"]
    /\ before' = [before EXCEPT ![p] = {power}]
    /\ UNCHANGED <<machine, power, by>>

BeginConstruct(p) == ~object[p] /\ object' = [object EXCEPT ![p] = TRUE] /\ Begin(p, NoLimits)

\* GearDown or GearUp, of the process that has the device service.
BeginShift(p) == object[p] /\ UNCHANGED object /\ \E limits \in GearLimits : Begin(p, limits)

\* mutant: the destructor leaves the limit in the scheme
DestroyedOnly(p) ==
    /\ object[p] /\ object' = [object EXCEPT ![p] = FALSE] /\ Idle(p)
    /\ UNCHANGED <<machine, power, asked, core, call, by, before>>

BeginDestroy(p) == object[p] /\ object' = [object EXCEPT ![p] = FALSE] /\ Begin(p, NoLimits)

\* SetCoreMaxFrequency has returned, whatever its ReturnValue.
Return(p) ==
    IF core[p] = PCORE /\ isHybrid
    THEN core' = [core EXCEPT ![p] = ECORE] /\ call' = [call EXCEPT ![p] = "ac"]
    ELSE core' = [core EXCEPT ![p] = PCORE] /\ call' = [call EXCEPT ![p] = "none"]

OthersDisturbed(p) == [q \in Processes |-> IF q = p THEN before[q] ELSE {}]

\* One of the two writes of a SetCoreMaxFrequency, and the call that follows it.
PowerWriteValueIndex(p, source, next) ==
    /\ call[p] = source
    /\ power' = [power EXCEPT !.scheme[core[p]][source] = asked[p][core[p]][source]]
    /\ by' = [by EXCEPT !.scheme[core[p]][source] = p]
    /\ call' = [call EXCEPT ![p] = next]
    /\ before' = OthersDisturbed(p)
    /\ UNCHANGED <<machine, object, asked, core>>

PowerWriteACValueIndex(p) == PowerWriteValueIndex(p, "ac", "dc")
PowerWriteDCValueIndex(p) == PowerWriteValueIndex(p, "dc", "apply")

PowerSetActiveScheme(p) ==
    /\ call[p] = "apply"
    /\ power' = [power EXCEPT !.applied = power.scheme]
    /\ by' = [by EXCEPT !.applied = by.scheme]
    /\ Return(p)
    /\ before' = OthersDisturbed(p)
    /\ UNCHANGED <<machine, object, asked>>

\* goto GracefulExit
CallFails(p) ==
    /\ faulty /\ ~Idle(p)
    /\ Return(p)
    /\ UNCHANGED <<machine, power, object, asked, by, before>>

\* What the process wrote stands, with nobody left who could lift it.
Disowned(cells, p) ==
    [c \in Core |-> [ac |-> IF cells[c].ac = p THEN Former ELSE cells[c].ac,
                     dc |-> IF cells[c].dc = p THEN Former ELSE cells[c].dc]]

Killed(p) ==
    /\ object[p] \/ ~Idle(p)
    /\ object' = [object EXCEPT ![p] = FALSE]
    /\ asked' = [asked EXCEPT ![p] = NoLimits]
    /\ core' = [core EXCEPT ![p] = PCORE]
    /\ call' = [call EXCEPT ![p] = "none"]
    /\ by' = [scheme |-> Disowned(by.scheme, p), applied |-> Disowned(by.applied, p)]
    /\ before' = [before EXCEPT ![p] = {}]
    /\ UNCHANGED <<machine, power>>

SharedNext ==
    \E p \in Processes :
        \/ BeginConstruct(p) \/ BeginShift(p) \/ BeginDestroy(p)
        \/ PowerWriteACValueIndex(p) \/ PowerWriteDCValueIndex(p) \/ PowerSetActiveScheme(p)
        \/ CallFails(p)
        \/ Killed(p)

SharedSpec == SharedInit /\ [][SharedNext]_sharedVars
-----------------------------------------------------------------------------
Quiet == \A p \in Processes : Idle(p)

\* However the calls of several processes interleave: once none of them is in
\* the middle of its sequence, on a machine whose writes succeed, every single
\* value that is applied is what the process that wrote it asked for last, it is
\* no limit if that process has destroyed its object, and what is stored is
\* applied.  So a process may lose its limit, and the scheme may be mixed (the P
\* cores released by one process, the E cores limited by another, an AC limit
\* without the DC limit), but no limit outlives the object that set it.  (What a
\* killed process wrote, or half wrote, stands until another writes over it.)
LimitsHaveOwners ==
    ~faulty /\ Quiet =>
        \A c \in Core, source \in {"ac", "dc"} :
            LET owner == by.applied[c][source]
            IN  /\ owner # Former =>
                      /\ power.applied[c][source] = asked[owner][c][source]
                      /\ ~object[owner] => power.applied[c][source] = 0
                /\ by.scheme[c][source] # Former =>
                      power.scheme[c][source] = power.applied[c][source]

\* A sequence into which no other process has written ends in one of the
\* outcomes of SetLimits, also where any of its calls may fail: what
\* FrequencyLimiter takes as one step of the process it follows.
AloneIsAtomic ==
    \A p \in Processes :
        Idle(p) => \A b \in before[p] :
                       power \in SetLimits(b, asked[p][PCORE], asked[p][ECORE])

SharedSchemeSettles == LimitsHaveOwners /\ AloneIsAtomic
=============================================================================
