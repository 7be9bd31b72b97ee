--------------------------- MODULE MCSessionTurns ---------------------------
(* Instances of SessionTurns for TLC. *)
EXTENDS SessionTurns, TLC

\* User inputs are interchangeable.
Symmetry == Permutations(Inputs)
=============================================================================
