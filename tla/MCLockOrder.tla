------------------------------ MODULE MCLockOrder ------------------------------
(* LockOrder for TLC: interchangeable threads, two shards. *)
EXTENDS LockOrder, TLC

Symmetry == Permutations(Thread)
=============================================================================
