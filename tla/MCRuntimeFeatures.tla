-------------------------- MODULE MCRuntimeFeatures --------------------------
(* Instances of RuntimeFeatures for TLC. *)
EXTENDS RuntimeFeatures
==============================================================================
