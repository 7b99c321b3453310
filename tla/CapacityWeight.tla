--------------------------- MODULE CapacityWeight ---------------------------
(***************************************************************************)
(* How the class DeviceCapacity of the Blink scheduler smooths the load of *)
(* a thread, as its own hints and ThreadLoadTracker's reports use it.      *)
(*                                                                         *)
(* A float x is represented by the integer below Scale * x; the average of *)
(* a represented float is one of the few integers Weighed allows, a        *)
(* rounding error included.                                                *)
(***************************************************************************)
EXTENDS Integers

CONSTANTS
    Scale,
    DecayPercent,       \* kWeightDecay * 100
    NaN,
    GarbageWeights      \* what uninitialised floats may hold

ASSUME WeightAssumption ==
    /\ Scale \in Nat
    /\ DecayPercent \in 1 .. 100
    /\ NaN \notin Int /\ GarbageWeights \subseteq Int \cup {NaN}

\* load * kWeightDecay + weight * (1 - kWeightDecay)
WeighedWithoutDecay(load, w) ==                                  \* mutant
    IF w = NaN THEN {NaN} ELSE {(DecayPercent * load + 100 * w) \div 100}
Weighed(load, w) ==
    IF w = NaN THEN {NaN}
    ELSE LET sum == DecayPercent * load + (100 - DecayPercent) * w
             low == (sum - 1) \div 100
         IN  {v \in low .. (sum + 100 - DecayPercent) \div 100 : w >= 0 => v >= 0}
=============================================================================
