--------------------------- MODULE MCManagedTorrent ---------------------------
(* ManagedTorrent for TLC: a few calls of start(), two selections. *)
EXTENDS ManagedTorrent
=============================================================================
