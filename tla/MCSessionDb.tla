---------------------------- MODULE MCSessionDb ----------------------------
(* A small session for TLC. *)
EXTENDS SessionDb, TLC

Symmetry == Permutations(Hashes) \cup Permutations(Calls) \cup Permutations(Selections)
=============================================================================
