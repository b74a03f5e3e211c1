---------------------------- MODULE MCFastResume ----------------------------
(* Two pieces in two files, one of which reaches into both pieces. *)
EXTENDS FastResume

MCFilePieces == [f \in Files |-> IF f = 1 THEN {1, 2} ELSE {2}]
=============================================================================
