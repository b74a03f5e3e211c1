----------------------------- MODULE MCStreams -----------------------------
(* Two pieces, the second one short; the second file starts within the first. *)
EXTENDS Streams

MCOffset == [f \in File |-> IF f = 1 THEN 0 ELSE 1]
MCLen == [f \in File |-> f]
=============================================================================
