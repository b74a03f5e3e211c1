----------------------------- MODULE MCPieceLive -----------------------------
(* PieceDownload with a budget of faults: after finitely many of them, the   *)
(* tasks finish the download.                                                *)
EXTENDS MCPieceDownload

CONSTANT MaxFaults   \* bound on the number of faults in a behaviour

VARIABLE faults      \* faults so far

\* One peer has everything, the other one only piece x2.
SeedAndLeech == (p1 :> {x1, x2}) @@ (p2 :> {x2})

\* A connection lost, a choke, a steal, or wrong bytes written.
IsFault ==
  \/ \E p \in Peer : conn[p] = "live" /\ at[p] \in {"idle", "check"} /\ conn'[p] = "none"
  \/ \E p \in Peer : conn[p] # "none" /\ conn' = conn /\ ~choked[p] /\ choked'[p]
  \/ \E p \in Peer : victim[p] = None /\ victim'[p] # None
  \/ \E p \in Peer : /\ at[p] = "write" /\ at'[p] = "mark"
                     /\ job[p][2] \notin disk'[job[p][1]]

\* A steal is announced before its piece is stolen again: the announcement
\* follows without an await, the next steal waits for a multiple of a peer's
\* average piece time. Without this, the late announcement makes the peer that
\* stole the piece back forget the requests it has just sent.
PromptAnnouncement ==
  \A p, q \in Peer : victim[p] # None /\ victim[q] = None /\ victim'[q] # None
                      => victim'[q][2] # victim[p][2]

BoundedInit == Init /\ faults = 0

BoundedNext ==
  /\ Next /\ PromptAnnouncement
  /\ IF IsFault THEN faults < MaxFaults /\ faults' = faults + 1 ELSE UNCHANGED faults

\* The executor keeps polling every task, a lost peer is dialled again, and a
\* connected peer unchokes us and answers the requests it holds.
Fairness ==
  \A p \in Peer :
    /\ WF_vars(Connect(p)) /\ WF_vars(SetChoked(p, FALSE))
    /\ WF_vars(CheckFinished(p)) /\ WF_vars(AcquireNothing(p))
    /\ WF_vars(\E z \in Piece : Reserve(p, z))
    /\ WF_vars(OnSteal(p))
    /\ WF_vars(\E r \in todo[p] : RequestChunk(p, r))
    /\ WF_vars(\E r \in requests[p] : ReceiveChunk(p, r))
    /\ WF_vars(WriterStep(p))
    /\ WF_vars(PeerDied(p) /\ (at[p] = "dying" \/ conn[p] = "dropped"))

BoundedSpec == BoundedInit /\ [][BoundedNext]_<<vars, faults>> /\ Fairness

\* However faults, steals and deaths interleave, every selected piece is in the
\* end downloaded and stays so, and nothing stays in flight.
DownloadCompletes == <>[](selected \subseteq have /\ \A z \in Piece : inflight[z] = None)
=============================================================================
