---------------------------- MODULE PowerScheme ----------------------------
(***************************************************************************)
(* The active Windows power scheme as class frequencyLimiter writes it:    *)
(* processor frequency limits (MHz, 0 = no limit), an AC and a DC value    *)
(* for the P cores and, on a hybrid machine, for the E cores.              *)
(*                                                                         *)
(* The scheme belongs to the machine: it outlives every process, and       *)
(* PowerSetActiveScheme applies everything it holds at that time, not only *)
(* what the caller wrote.  The return codes of the writes are ignored by   *)
(* every caller, so a write that fails is a silent outcome.                *)
(***************************************************************************)
EXTENDS Integers

CONSTANTS
    Word,           \* 2^32, the modulus of uint32_t
    StoredLimits    \* limits a previous run may have left in the scheme

PCORE == 0
ECORE == 1
Core  == {PCORE, ECORE}

Uint32   == 0 .. Word - 1
Limits   == [ac : Uint32, dc : Uint32]
Released == [ac |-> 0, dc |-> 0]
Power    == [scheme : [Core -> Limits], applied : [Core -> Limits]]

ASSUME SchemeAssumption == Word \in Nat \ {0} /\ StoredLimits \subseteq Uint32

VARIABLES
    isHybrid,       \* does the machine have E cores?
    faulty,         \* may PowerWrite*ValueIndex, PowerSetActiveScheme fail?
    power           \* the scheme as stored and as applied

machine == <<isHybrid, faulty>>

MachineInit ==
    /\ isHybrid \in BOOLEAN /\ faulty \in BOOLEAN
    /\ \E l \in [ac : StoredLimits, dc : StoredLimits] :
           power = [scheme |-> [c \in Core |-> l], applied |-> [c \in Core |-> l]]

\* What one call SetCoreMaxFrequency(core, l.ac, l.dc) can leave of p when no
\* other process writes meanwhile: all done, or, when a call fails: nothing
\* written, only the AC value written, or both written and the scheme not
\* applied.
SetCoreMaxFrequency(p, core, l) ==
    LET acOnly == [p.scheme EXCEPT ![core] = [ac |-> l.ac, dc |-> @.dc]]
        both   == [p.scheme EXCEPT ![core] = l]
    IN  {[scheme |-> both, applied |-> both]}
          \cup IF faulty
               THEN {p, [p EXCEPT !.scheme = acOnly], [p EXCEPT !.scheme = both]}
               ELSE {}

\* The P cores are written first and, on a hybrid machine, the E cores next,
\* whatever the first call returned.
SetLimits(p, pl, el) ==
    LET afterP == SetCoreMaxFrequency(p, PCORE, pl)
    IN  IF isHybrid THEN UNION {SetCoreMaxFrequency(q, ECORE, el) : q \in afterP}
                    ELSE afterP
=============================================================================
