--------------------------- MODULE MCRolloutFile ---------------------------
(* Instances of RolloutFile for TLC. *)
EXTENDS RolloutFile, TLC

\* Callers are interchangeable.
Symmetry == Permutations(Callers)
=============================================================================
