----------------------------- MODULE PieceBoard -----------------------------
(***************************************************************************)
(* What the bookkeeping of pieces promises, without peers' connections,    *)
(* queues, locks or chunks: a piece is missing, claimed by one peer, being *)
(* checked, or had. Its bytes are written only while it is claimed, it is  *)
(* had only if the bytes that were checked are right, and what is had      *)
(* stays: nobody claims, writes or loses it until the torrent fails. The   *)
(* start after a failure may know less than before, but never claims a     *)
(* piece that is not intact.                                               *)
(***************************************************************************)
CONSTANTS Peer, Piece, None

VARIABLES
  status,  \* "missing", "claimed", "checking" or "had"
  owner,   \* the peer that claims the piece, or None
  intact,  \* pieces whose bytes on disk are the right ones
  failed   \* the torrent stopped with an error

vars == <<status, owner, intact, failed>>

Init ==
  /\ status = [x \in Piece |-> "missing"]
  /\ owner = [x \in Piece |-> None]
  /\ intact = {}
  /\ failed = FALSE

\* A peer is given a missing piece, or takes a claimed one over.
Claim(p, x) ==
  /\ ~failed /\ status[x] \in {"missing", "claimed"}
  /\ status' = [status EXCEPT ![x] = "claimed"]
  /\ owner' = [owner EXCEPT ![x] = p]
  /\ UNCHANGED <<intact, failed>>

\* Right or wrong bytes are written into a claimed piece.
Write(x) ==
  /\ status[x] = "claimed"
  /\ intact' \in {intact, intact \cup {x}, intact \ {x}}
  /\ UNCHANGED <<status, owner, failed>>

\* A claimed piece has all its bytes: it is nobody's while it is checked.
Submit(x) ==
  /\ status[x] = "claimed"
  /\ status' = [status EXCEPT ![x] = "checking"]
  /\ owner' = [owner EXCEPT ![x] = None]
  /\ UNCHANGED <<intact, failed>>

\* The verdict of the check is the truth about the bytes.
Judge(x) ==
  /\ status[x] = "checking"
  /\ status' = [status EXCEPT ![x] = IF x \in intact THEN "had" ELSE "missing"]
  /\ UNCHANGED <<owner, intact, failed>>

\* Claimed pieces are given back.
GiveBack(s) ==
  /\ \A x \in s : status[x] = "claimed"
  /\ status' = [x \in Piece |-> IF x \in s THEN "missing" ELSE status[x]]
  /\ owner' = [x \in Piece |-> IF x \in s THEN None ELSE owner[x]]
  /\ UNCHANGED <<intact, failed>>

\* The torrent stops, paused or with an error: no claim and no check survives.
Stop ==
  /\ ~failed /\ failed' \in BOOLEAN
  /\ status' = [x \in Piece |-> IF status[x] = "had" THEN "had" ELSE "missing"]
  /\ owner' = [x \in Piece |-> None]
  /\ UNCHANGED intact

\* A failed torrent starts again, from what it remembers or from a check of all pieces.
\* What it had is intact, so neither claims too much.
Reload ==
  LET had == {x \in Piece : status[x] = "had"}
  IN /\ failed /\ failed' = FALSE
     /\ had \subseteq intact
     /\ \E h \in (SUBSET had) \cup {intact} :
           status' = [x \in Piece |-> IF x \in h THEN "had" ELSE "missing"]
     /\ UNCHANGED <<owner, intact>>

Next ==
  \/ \E x \in Piece : \/ \E p \in Peer : Claim(p, x)
                      \/ Write(x) \/ Submit(x) \/ Judge(x)
  \/ \E s \in SUBSET Piece : GiveBack(s)
  \/ Stop \/ Reload

Spec == Init /\ [][Next]_vars
=============================================================================
