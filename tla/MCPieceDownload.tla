--------------------------- MODULE MCPieceDownload ---------------------------
(* Small instances of PieceDownload: two files that share a piece, peers     *)
(* that are seeds.                                                           *)
EXTENDS PieceDownload, TLC

CONSTANTS p1, p2, x1, x2

TwoFiles == 1..2

\* File 1 lies in piece x1, file 2 in x1 and x2.
SharedPieces == (1 :> {x1}) @@ (2 :> {x1, x2})

OneFile == 1 :> {x1}

AllSeeds == [p \in Peer |-> Piece]

PeerSymmetry == Permutations(Peer)
=============================================================================
