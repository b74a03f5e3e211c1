------------------------- MODULE PieceDownloadProofs -------------------------
(* Machine-checked proofs about PieceDownload, for any number of peers,      *)
(* pieces, chunks and files.                                                 *)
EXTENDS PieceDownload, FiniteSetTheorems, TLAPS

\* Every set of pieces is finite, so counting it gives a natural number.
LEMMA PieceCount == \A s \in SUBSET Piece : Cardinality(s) \in Nat
  BY FS_Subset, FS_CardinalityType, ConstantsAssumption DEF ConstantsAssumption

\* The initial state is well typed.
LEMMA TypeInit == Init => TypeOK
<1>1. SUFFICES ASSUME Init PROVE TypeOK
  OBVIOUS
<1>2. selected \in SUBSET Piece
  BY <1>1, ConstantsAssumption DEF Init, SelectedPieces, ConstantsAssumption
<1>3. Cardinality(selected) \in Nat
  BY <1>2, PieceCount
<1> QED
  BY <1>1, <1>2, <1>3 DEF Init, TypeOK, Stages

\* Steps of a peer's requester and connection keep the types.
LEMMA TypeRequester ==
  ASSUME TypeOK, NEW p \in Peer,
         \/ Connect(p) \/ (\E b \in BOOLEAN : SetChoked(p, b))
         \/ RequesterStep(p) \/ (\E r \in requests[p] : ReceiveChunk(p, r))
  PROVE  TypeOK'
<1>1. CASE Connect(p)
  BY <1>1 DEF TypeOK, Connect, tracker, writer
<1>2. ASSUME NEW b \in BOOLEAN, SetChoked(p, b) PROVE TypeOK'
  BY <1>2 DEF TypeOK, SetChoked, tracker, writer
<1>3. ASSUME NEW x \in Piece, Reserve(p, x) PROVE TypeOK'
  BY <1>3 DEF TypeOK, Reserve, writer
<1>4. ASSUME NEW x \in Piece, Steal(p, x) PROVE TypeOK'
  BY <1>4 DEF TypeOK, Steal, tracker, writer
<1>5. CASE CheckFinished(p)
  BY <1>5 DEF TypeOK, CheckFinished, tracker, writer
<1>6. CASE AcquireNothing(p)
  BY <1>6 DEF TypeOK, AcquireNothing, tracker, writer
<1>7. CASE OnSteal(p)
  BY <1>7 DEF TypeOK, OnSteal, tracker, writer
<1>8. ASSUME NEW r \in todo[p], RequestChunk(p, r) PROVE TypeOK'
  BY <1>8 DEF TypeOK, RequestChunk, tracker, writer
<1>9. ASSUME NEW r \in requests[p], ReceiveChunk(p, r) PROVE TypeOK'
  <2>1. r \in Piece \X Chunk /\ r # None
    BY <1>9, ConstantsAssumption DEF TypeOK, ConstantsAssumption
  <2> QED
    BY <1>9, <2>1 DEF TypeOK, ReceiveChunk, tracker, Stages
<1> QED
  BY <1>1, <1>2, <1>3, <1>4, <1>5, <1>6, <1>7, <1>8, <1>9 DEF RequesterStep

\* Steps of write_to_disk and the death of a peer keep the types.
LEMMA TypeWriter ==
  ASSUME TypeOK, NEW p \in Peer, WriterStep(p) \/ PeerDied(p)
  PROVE  TypeOK'
<1>1. at[p] \notin {"idle", "dying"} => job[p] \in Piece \X Chunk
  BY DEF TypeOK
<1>2. CASE CheckSteal(p)
  BY <1>2 DEF TypeOK, CheckSteal, GoTo, Finish, tracker, requester, Stages
<1>3. CASE WriteChunk(p)
  BY <1>1, <1>3 DEF TypeOK, WriteChunk, GoTo, tracker, requester, Stages
<1>4. CASE WriteError(p)
  BY <1>4 DEF TypeOK, WriteError, Fail, tracker, requester, Stages
<1>5. CASE MarkChunk(p)
  <2>1. /\ at[p] = "mark" /\ job[p] \in Piece \X Chunk
        /\ UNCHANGED <<have, queued, selected, needed, perFile, conn, requester,
                       disk, streamed, phase>>
    BY <1>1, <1>5 DEF MarkChunk
  <2>2. done' \in [Piece -> SUBSET Chunk]
    BY <1>5, <2>1 DEF TypeOK, MarkChunk
  <2>3. inflight' \in [Piece -> Peer \cup {None}]
    BY <1>5, <2>1 DEF TypeOK, MarkChunk
  <2>4. GoTo(p, "hash") \/ Finish(p)
    BY <1>5, Zenon DEF MarkChunk
  <2> QED
    BY <2>1, <2>2, <2>3, <2>4 DEF TypeOK, GoTo, Finish, requester, Stages
<1>6. CASE HashCheck(p)
  BY <1>6 DEF TypeOK, HashCheck, GoTo, Fail, tracker, requester, Stages
<1>7. CASE MarkHashOk(p)
  BY <1>1, <1>7 DEF TypeOK, MarkHashOk, GoTo, requester, Stages
<1>8. CASE MarkHashFailed(p)
  BY <1>1, <1>8 DEF TypeOK, MarkHashFailed, MarkBroken, Fail, requester, Stages
<1>9. CASE OnPieceCompleted(p)
  <2>1. perFile' \in [File -> Nat]
    BY <1>9 DEF TypeOK, OnPieceCompleted
  <2>2. GoTo(p, "disconnect") \/ Finish(p)
    BY <1>9, Zenon DEF OnPieceCompleted
  <2>3. UNCHANGED <<have, queued, done, selected, needed, inflight, conn,
                    requester, disk, streamed, phase>> /\ at[p] = "completed"
    BY <1>9 DEF OnPieceCompleted
  <2> QED
    BY <2>1, <2>2, <2>3 DEF TypeOK, GoTo, Finish, requester, Stages
<1>10. CASE DisconnectSeeds(p)
  BY <1>10 DEF TypeOK, DisconnectSeeds, Finish, tracker, Stages
<1>11. CASE PeerDied(p)
  BY <1>11 DEF TypeOK, PeerDied, ReleasePieces, MarkBroken, Finish, Stages
<1> QED
  BY <1>2, <1>3, <1>4, <1>5, <1>6, <1>7, <1>8, <1>9, <1>10, <1>11 DEF WriterStep

\* Steps of the user and of the torrent as a whole keep the types.
LEMMA TypeTorrent == TypeOK /\ TorrentStep => TypeOK'
<1> SUFFICES ASSUME TypeOK, TorrentStep PROVE TypeOK'
  OBVIOUS
<1>1. ASSUME NEW files \in SUBSET File, UpdateOnlyFiles(files) PROVE TypeOK'
  <2>1. SelectedPieces(files) \in SUBSET Piece
    BY ConstantsAssumption DEF SelectedPieces, ConstantsAssumption
  <2>2. Cardinality(SelectedPieces(files) \ have) \in Nat
    BY <2>1, PieceCount
  <2> QED
    BY <1>1, <2>1, <2>2 DEF TypeOK, UpdateOnlyFiles, requester, writer
<1>2. ASSUME NEW f \in File, SetStream(f) PROVE TypeOK'
  BY <1>2 DEF TypeOK, SetStream, tracker, requester, writer
<1>3. CASE Pause
  BY <1>3 DEF TypeOK, Pause, MarkBroken, StopPeers, Stages
<1>4. CASE Resume
  BY <1>4 DEF TypeOK, Resume, tracker, requester, writer
<1>5. CASE StopWithError
  BY <1>5 DEF TypeOK, StopWithError, StopPeers, tracker, Stages
<1>6. CASE Restart
  <2>1. PICK h \in (SUBSET have) \cup {{x \in Piece : disk[x] = Chunk}} : NewTracker(h)
    BY <1>6 DEF Restart
  <2>2. h \in SUBSET Piece
    BY DEF TypeOK
  <2>3. Cardinality(selected \ h) \in Nat
    BY PieceCount DEF TypeOK
  <2>4. \A f \in File : Cardinality(FilePieces[f] \cap h) \in Nat
    BY <2>2, PieceCount
  <2> QED
    BY <1>6, <2>1, <2>2, <2>3, <2>4 DEF TypeOK, Restart, NewTracker, requester, writer
<1> QED
  BY <1>1, <1>2, <1>3, <1>4, <1>5, <1>6 DEF TorrentStep

\* Every step keeps the types.
LEMMA TypeStep == TypeOK /\ [Next]_vars => TypeOK'
<1> SUFFICES ASSUME TypeOK, [Next]_vars PROVE TypeOK'
  OBVIOUS
<1>1. ASSUME NEW p \in Peer, PeerStep(p) PROVE TypeOK'
  BY <1>1, TypeRequester, TypeWriter DEF PeerStep
<1>2. CASE UNCHANGED vars
  BY <1>2 DEF TypeOK, vars, tracker, requester, writer
<1> QED
  BY <1>1, <1>2, TypeTorrent DEF Next

\* In every reachable state the trackers, the peers' tasks and the storage are
\* well typed; in particular a task works on a chunk exactly while it is inside
\* on_received_piece.
THEOREM TypeCorrect == Spec => []TypeOK
  BY TypeInit, TypeStep, PTL DEF Spec
-----------------------------------------------------------------------------
(* Without reselection and streaming: disjoint piece states, the piece lock  *)
(* and verified data.                                                        *)

USE DEF Checking

\* A step that changes nothing the invariant reads keeps it, whatever it does
\* to the connections and the requesters.
LEMMA FrameInductive ==
  ASSUME Inductive, TypeOK',
         UNCHANGED <<have, queued, inflight, at, job, disk, streamed, phase>>
  PROVE  Inductive'
  BY DEF Inductive, PieceStatesDisjoint, PieceLockProtects, HaveIsVerified,
         CheckerExclusive, VerdictHolds, Quiescent, Running

\* Steps of a peer's requester and connection keep the invariant: a piece is
\* reserved only from the queue and stolen only when it is not locked.
LEMMA InductiveRequester ==
  ASSUME Inductive, TypeOK', NEW p \in Peer,
         \/ Connect(p) \/ (\E b \in BOOLEAN : SetChoked(p, b))
         \/ RequesterStep(p) \/ (\E r \in requests[p] : ReceiveChunk(p, r))
  PROVE  Inductive'
<1> USE DEF PieceStatesDisjoint, PieceLockProtects, HaveIsVerified,
            CheckerExclusive, VerdictHolds, Quiescent, Running
<1>0. TypeOK
  BY DEF Inductive
<1>1. ASSUME NEW x \in Piece, Reserve(p, x) PROVE Inductive'
  <2>1. x \in queued
    BY <1>1 DEF Reserve, Candidates, PriorityPieces, SelectedPieces, QueuedPieces, Inductive
  <2>2. inflight[x] = None /\ x \notin have
    BY <2>1 DEF Inductive
  <2> QED
    BY <1>0, <1>1, <2>1, <2>2, ConstantsAssumption
       DEF Inductive, Reserve, CanAcquire, RequesterIdle, writer, TypeOK, ConstantsAssumption
<1>2. ASSUME NEW x \in Piece, Steal(p, x) PROVE Inductive'
  BY <1>0, <1>2, ConstantsAssumption
     DEF Inductive, Steal, CanAcquire, RequesterIdle, PieceLocked, tracker, writer,
         TypeOK, ConstantsAssumption
<1>3. ASSUME NEW r \in requests[p], ReceiveChunk(p, r) PROVE Inductive'
  BY <1>0, <1>3 DEF Inductive, ReceiveChunk, tracker, TypeOK
<1>4. CASE Connect(p)
  BY <1>4, FrameInductive DEF Connect, tracker, writer
<1>5. ASSUME NEW b \in BOOLEAN, SetChoked(p, b) PROVE Inductive'
  BY <1>5, FrameInductive DEF SetChoked, tracker, writer
<1>6. CASE CheckFinished(p)
  BY <1>6, FrameInductive DEF CheckFinished, tracker, writer
<1>7. CASE AcquireNothing(p)
  BY <1>7, FrameInductive DEF AcquireNothing, tracker, writer
<1>8. CASE OnSteal(p)
  BY <1>8, FrameInductive DEF OnSteal, tracker, writer
<1>9. ASSUME NEW r \in todo[p], RequestChunk(p, r) PROVE Inductive'
  BY <1>9, FrameInductive DEF RequestChunk, tracker, writer
<1> QED
  BY <1>1, <1>2, <1>3, <1>4, <1>5, <1>6, <1>7, <1>8, <1>9 DEF RequesterStep

\* Neither does a task that leaves the guarded part of on_received_piece.
LEMMA LeaveInductive ==
  ASSUME Inductive, TypeOK', NEW p \in Peer, Running,
         UNCHANGED <<have, queued, inflight, disk, streamed, phase>>,
         at'[p] \notin {"write", "mark", "hash", "ok", "broken"},
         \A q \in Peer \ {p} : at'[q] = at[q] /\ job'[q] = job[q]
  PROVE  Inductive'
<1>1. PieceStatesDisjoint' /\ HaveIsVerified' /\ Quiescent' /\ (streamed = {})'
  BY DEF Inductive, PieceStatesDisjoint, HaveIsVerified, Quiescent, Running
<1>2. PieceLockProtects' /\ VerdictHolds'
  BY DEF Inductive, PieceLockProtects, VerdictHolds
<1>3. CheckerExclusive'
  BY DEF Inductive, CheckerExclusive
<1> QED
  BY <1>1, <1>2, <1>3 DEF Inductive

\* Steps of write_to_disk and the death of a peer keep the invariant.
LEMMA InductiveWriter ==
  ASSUME Inductive, TypeOK', NEW p \in Peer, WriterStep(p) \/ PeerDied(p)
  PROVE  Inductive'
<1> USE DEF PieceStatesDisjoint, PieceLockProtects, HaveIsVerified,
            CheckerExclusive, VerdictHolds, Quiescent, Running
<1>0. TypeOK /\ (at[p] \notin {"idle", "dying"} => job[p] \in Piece \X Chunk)
  BY DEF Inductive, TypeOK
<1>1. CASE CheckSteal(p)
  <2>1. CASE inflight[job[p][1]] = p /\ GoTo(p, "write")
    BY <1>0, <1>1, <2>1 DEF Inductive, CheckSteal, GoTo, tracker, TypeOK
  <2>2. CASE Finish(p)
    BY <1>0, <1>1, <2>2, LeaveInductive DEF CheckSteal, Finish, tracker, TypeOK
  <2> QED
    BY <1>1, <2>1, <2>2 DEF CheckSteal
<1>2. CASE WriteChunk(p)
  <2> DEFINE x == job[p][1]
  <2>1. /\ at[p] = "write" /\ at'[p] = "mark" /\ UNCHANGED job /\ Running
        /\ UNCHANGED <<have, queued, inflight, streamed, phase>>
        /\ \A q \in Peer \ {p} : at'[q] = at[q]
        /\ \A y \in Piece : y # x => disk'[y] = disk[y]
    BY <1>0, <1>2 DEF WriteChunk, GoTo, tracker, TypeOK
  <2>2. x \in Piece /\ inflight[x] = p /\ p # None
    BY <1>0, <2>1, ConstantsAssumption DEF Inductive, ConstantsAssumption
  <2>3. x \notin have /\ \A q \in Peer : Checking(q) => job[q][1] \in Piece \ {x}
    BY <1>0, <2>2 DEF Inductive, TypeOK
  <2>4. PieceStatesDisjoint' /\ HaveIsVerified' /\ Quiescent' /\ (streamed = {})'
    BY <1>0, <2>1, <2>3 DEF Inductive, TypeOK
  <2>5. PieceLockProtects' /\ CheckerExclusive'
    BY <2>1 DEF Inductive
  <2>6. VerdictHolds'
    BY <2>1, <2>3 DEF Inductive
  <2> QED
    BY <2>4, <2>5, <2>6 DEF Inductive
<1>3. CASE WriteError(p)
  BY <1>0, <1>3 DEF Inductive, WriteError, Fail, tracker, TypeOK
<1>4. CASE MarkChunk(p)
  <2>1. CASE Finish(p) /\ UNCHANGED inflight
    BY <1>0, <1>4, <2>1, LeaveInductive DEF MarkChunk, Finish, TypeOK
  <2>2. CASE /\ inflight' = [inflight EXCEPT ![job[p][1]] = None]
             /\ IF inflight[job[p][1]] # None THEN GoTo(p, "hash") ELSE Finish(p)
    <3>1. inflight[job[p][1]] = p /\ p # None
      BY <1>4, ConstantsAssumption DEF Inductive, MarkChunk, ConstantsAssumption
    <3>2. /\ GoTo(p, "hash") /\ at[p] = "mark"
          /\ UNCHANGED <<have, queued, disk, streamed, phase>>
      BY <1>4, <2>2, <3>1 DEF MarkChunk
    <3>3. job[p][1] \notin queued
      BY <1>0, <1>4, <3>1 DEF Inductive, MarkChunk
    <3>4. \A q \in Peer \ {p} : /\ Checking(q) => job[q][1] # job[p][1]
                                /\ at[q] \in {"write", "mark"} => job[q][1] # job[p][1]
      BY <3>1 DEF Inductive
    <3> QED
      BY <1>0, <2>2, <3>1, <3>2, <3>3, <3>4 DEF Inductive, GoTo, TypeOK
  <2> QED
    BY <1>4, <2>1, <2>2 DEF MarkChunk
<1>5. CASE HashCheck(p)
  <2>1. CASE disk[job[p][1]] = Chunk /\ GoTo(p, "ok")
    BY <1>0, <1>5, <2>1 DEF Inductive, HashCheck, GoTo, tracker, TypeOK
  <2>2. CASE disk[job[p][1]] # Chunk /\ GoTo(p, "broken")
    BY <1>0, <1>5, <2>2 DEF Inductive, HashCheck, GoTo, tracker, TypeOK
  <2>3. CASE Fail(p)
    BY <1>0, <1>5, <2>3, LeaveInductive DEF HashCheck, Fail, tracker, TypeOK
  <2> QED
    BY <1>5, <2>1, <2>2, <2>3 DEF HashCheck
<1>6. CASE MarkHashOk(p)
  <2>1. /\ at[p] = "ok" /\ have' = have \cup {job[p][1]} /\ Running
        /\ UNCHANGED <<queued, inflight, disk, streamed, phase>>
        /\ at'[p] = "completed" /\ \A q \in Peer \ {p} : at'[q] = at[q] /\ job'[q] = job[q]
    BY <1>0, <1>6 DEF MarkHashOk, GoTo, TypeOK
  <2>2. inflight[job[p][1]] = None /\ job[p][1] \notin queued /\ disk[job[p][1]] = Chunk
    BY <2>1 DEF Inductive
  <2>3. PieceStatesDisjoint' /\ HaveIsVerified'
    BY <2>1, <2>2 DEF Inductive
  <2>4. Quiescent' /\ (streamed = {})'
    BY <2>1 DEF Inductive
  <2>5. PieceLockProtects' /\ VerdictHolds' /\ CheckerExclusive'
    BY <2>1 DEF Inductive
  <2> QED
    BY <2>3, <2>4, <2>5 DEF Inductive
<1>7. CASE MarkHashFailed(p)
  BY <1>0, <1>7 DEF Inductive, MarkHashFailed, MarkBroken, Fail, TypeOK
<1>8. CASE OnPieceCompleted(p)
  <2>1. GoTo(p, "disconnect") \/ Finish(p)
    BY <1>8, Zenon DEF OnPieceCompleted
  <2>2. Running /\ UNCHANGED <<have, queued, inflight, disk, streamed, phase>>
    BY <1>8 DEF OnPieceCompleted
  <2> QED
    <3>1. /\ at'[p] \in {"disconnect", "idle"}
          /\ \A q \in Peer \ {p} : at'[q] = at[q] /\ job'[q] = job[q]
      BY <1>0, <2>1 DEF GoTo, Finish, TypeOK
    <3> QED
      BY <2>2, <3>1, LeaveInductive
<1>9. CASE DisconnectSeeds(p)
  BY <1>0, <1>9 DEF Inductive, DisconnectSeeds, Finish, tracker, TypeOK
<1>10. CASE PeerDied(p)
  <2>1. CASE UNCHANGED <<inflight, queued, done>>
    BY <1>0, <1>10, <2>1, LeaveInductive DEF PeerDied, Finish, TypeOK
  <2>2. CASE conn[p] = "live"
    <3> DEFINE mine == {x \in Piece : inflight[x] = p}
    <3>1. /\ inflight' = [x \in Piece |-> IF x \in mine THEN None ELSE inflight[x]]
          /\ queued' = queued \cup (mine \ have)
          /\ at[p] \in {"idle", "check", "dying"} /\ Finish(p)
          /\ Running /\ UNCHANGED <<have, disk, streamed, phase>>
      BY <1>10, <2>2 DEF PeerDied, ReleasePieces, MarkBroken
    <3>2. \A q \in Peer : Checking(q) => job[q] \in Piece \X Chunk /\ job[q][1] \notin mine
      BY ConstantsAssumption DEF Inductive, TypeOK, ConstantsAssumption
    <3>3. \A q \in Peer : at[q] \in {"write", "mark"} => job[q] \in Piece \X Chunk /\ q # p
      BY <3>1 DEF Inductive, TypeOK
    <3>4. /\ \A q \in Peer \ {p} : at'[q] = at[q] /\ job'[q] = job[q]
          /\ at'[p] = "idle"
      BY <1>0, <3>1 DEF Finish, TypeOK
    <3>5. PieceStatesDisjoint' /\ HaveIsVerified' /\ Quiescent' /\ (streamed = {})'
      BY <1>0, <3>1 DEF Inductive, TypeOK
    <3>6. PieceLockProtects' /\ VerdictHolds'
      BY <3>1, <3>3, <3>4 DEF Inductive
    <3>7. CheckerExclusive'
      BY <3>1, <3>2, <3>4 DEF Inductive
    <3> QED
      BY <3>5, <3>6, <3>7 DEF Inductive
  <2> QED
    BY <1>10, <2>1, <2>2 DEF PeerDied
<1> QED
  BY <1>1, <1>2, <1>3, <1>4, <1>5, <1>6, <1>7, <1>8, <1>9, <1>10 DEF WriterStep

\* Pausing, resuming, failing and restarting keep the invariant.
LEMMA InductiveTorrent ==
  ASSUME Inductive, TypeOK', NoSelectNoStream, TorrentStep
  PROVE  Inductive'
<1> USE DEF PieceStatesDisjoint, PieceLockProtects, HaveIsVerified,
            CheckerExclusive, VerdictHolds, Quiescent, Running
<1>0. TypeOK
  BY DEF Inductive
<1>1. CASE Pause
  BY <1>0, <1>1 DEF Inductive, Pause, MarkBroken, StopPeers, TypeOK
<1>2. CASE Resume
  BY <1>0, <1>2 DEF Inductive, Resume, tracker, writer, TypeOK
<1>3. CASE StopWithError
  BY <1>0, <1>3 DEF Inductive, StopWithError, StopPeers, tracker, TypeOK
<1>4. CASE Restart
  BY <1>0, <1>4 DEF Inductive, Restart, NewTracker, writer, TypeOK
<1>5. ASSUME NEW files \in SUBSET File, UpdateOnlyFiles(files) PROVE FALSE
  BY <1>5 DEF UpdateOnlyFiles, NoSelectNoStream
<1>6. ASSUME NEW f \in File, SetStream(f) PROVE FALSE
  BY <1>6 DEF SetStream, NoSelectNoStream
<1> QED
  BY <1>1, <1>2, <1>3, <1>4, <1>5, <1>6 DEF TorrentStep

\* Init establishes the invariant and every step keeps it.
LEMMA InductiveInvariant == NoSelectNoStream => (Spec => []Inductive)
<1> SUFFICES ASSUME NoSelectNoStream PROVE Spec => []Inductive
  OBVIOUS
<1>1. Init => Inductive
  BY TypeInit DEF Init, Inductive, PieceStatesDisjoint, PieceLockProtects,
     HaveIsVerified, CheckerExclusive, VerdictHolds, Quiescent, TypeOK
<1>2. Inductive /\ [Next]_vars => Inductive'
  <2> SUFFICES ASSUME Inductive, [Next]_vars PROVE Inductive'
    OBVIOUS
  <2>1. TypeOK'
    BY TypeStep DEF Inductive
  <2>2. ASSUME NEW p \in Peer, PeerStep(p) PROVE Inductive'
    BY <2>1, <2>2, InductiveRequester, InductiveWriter DEF PeerStep
  <2>3. CASE UNCHANGED vars
    BY <2>1, <2>3, FrameInductive DEF vars, tracker, writer
  <2> QED
    BY <2>1, <2>2, <2>3, InductiveTorrent DEF Next
<1> QED
  BY <1>1, <1>2, PTL DEF Spec

\* STATE.md's piece invariant: with any number of peers stealing, failing and
\* dying, and across pauses and restarts, a piece is in at most one of the
\* states completed, in flight and queued, provided that nobody reselects or
\* streams files.
THEOREM PiecesDisjoint == NoSelectNoStream => (Spec => []PieceStatesDisjoint)
  BY InductiveInvariant, PTL DEF Inductive

\* The per-piece lock does what write_to_disk relies on: between the ownership
\* check and the marking of the chunk the piece stays with its owner.
THEOREM PieceLockHolds == NoSelectNoStream => (Spec => []PieceLockProtects)
  BY InductiveInvariant, PTL DEF Inductive

\* What the torrent says it has was verified and is never overwritten.
THEOREM VerifiedDataIsKept == NoSelectNoStream => (Spec => []HaveIsVerified)
  BY InductiveInvariant, PTL DEF Inductive

-----------------------------------------------------------------------------
(* What is still needed, whoever selects and streams.                        *)

\* Taking a piece out of a set of pieces makes it smaller by one.
LEMMA PieceLess ==
  ASSUME NEW s \in SUBSET Piece, NEW x \in s
  PROVE  Cardinality(s \ {x}) = Cardinality(s) - 1
<1>1. IsFiniteSet(s)
  BY FS_Subset, ConstantsAssumption DEF ConstantsAssumption
<1> QED
  BY <1>1, FS_RemoveElement

\* Putting one in makes it larger by one.
LEMMA PieceMore ==
  ASSUME NEW s \in SUBSET Piece, NEW x \in Piece \ s
  PROVE  Cardinality(s \cup {x}) = Cardinality(s) + 1
<1>1. IsFiniteSet(s)
  BY FS_Subset, ConstantsAssumption DEF ConstantsAssumption
<1> QED
  BY <1>1, FS_AddElement

\* The only steps that touch the count are mark_piece_hash_ok, update_only_files and a
\* new tracker.
LEMMA NeededStep ==
  ASSUME TypeOK, NeededInSync, [Next]_vars
  PROVE  NeededInSync'
<1>1. ASSUME UNCHANGED <<have, selected, needed>>, phase' # "error" => phase # "error" PROVE NeededInSync'
  BY <1>1 DEF NeededInSync
<1>2. ASSUME NEW p \in Peer, PeerStep(p) PROVE NeededInSync'
  <2>1. CASE MarkHashOk(p)
    <3> DEFINE x == job[p][1]
    <3>1. /\ have' = have \cup {x} /\ UNCHANGED <<selected, phase>> /\ phase # "error"
          /\ needed' = IF x \notin have /\ x \in selected THEN needed - 1 ELSE needed
      BY <2>1 DEF MarkHashOk, Running
    <3>2. needed = Cardinality(selected \ have) /\ selected \ have \in SUBSET Piece
      BY <3>1 DEF NeededInSync, TypeOK
    <3>3. CASE x \notin have /\ x \in selected
      <4>1. selected' \ have' = (selected \ have) \ {x} /\ x \in selected \ have
        BY <3>1, <3>3
      <4>2. Cardinality((selected \ have) \ {x}) = Cardinality(selected \ have) - 1
        BY <3>2, <4>1, PieceLess
      <4> QED
        BY <3>1, <3>2, <3>3, <4>1, <4>2 DEF NeededInSync
    <3>4. CASE ~(x \notin have /\ x \in selected)
      <4>1. selected' \ have' = selected \ have
        BY <3>1, <3>4
      <4> QED
        BY <3>1, <3>2, <3>4, <4>1 DEF NeededInSync
    <3> QED
      BY <3>3, <3>4
  <2>2. CASE WriterStep(p) /\ ~MarkHashOk(p)
    <3>1. UNCHANGED <<have, selected, needed>> /\ Running
      BY <2>2 DEF WriterStep, CheckSteal, WriteChunk, WriteError, MarkChunk, HashCheck, MarkHashFailed,
                  OnPieceCompleted, DisconnectSeeds, tracker
    <3> QED
      BY <1>1, <3>1 DEF Running
  <2>3. CASE ~WriterStep(p)
    <3>1. UNCHANGED <<have, selected, needed, phase>>
      BY <1>2, <2>3 DEF PeerStep, RequesterStep, Connect, SetChoked, Reserve, Steal, CheckFinished, AcquireNothing,
                        OnSteal, RequestChunk, ReceiveChunk, PeerDied, tracker
    <3> QED
      BY <1>1, <3>1
  <2> QED
    BY <2>1, <2>2, <2>3
<1>3. ASSUME NEW fs \in SUBSET File, UpdateOnlyFiles(fs) PROVE NeededInSync'
  BY <1>3 DEF UpdateOnlyFiles, NeededInSync
<1>4. CASE Restart
  BY <1>4 DEF Restart, NewTracker, NeededInSync
<1>5. CASE Pause \/ Resume \/ StopWithError \/ \E f \in File : SetStream(f)
  <2>1. UNCHANGED <<have, selected, needed>> /\ (phase' # "error" => phase # "error")
    BY <1>5 DEF Pause, Resume, StopWithError, SetStream, tracker, Running
  <2> QED
    BY <1>1, <2>1
<1>6. CASE UNCHANGED vars
  BY <1>1, <1>6 DEF vars, tracker
<1> QED
  BY <1>2, <1>3, <1>4, <1>5, <1>6 DEF Next, TorrentStep

\* hns.needed_bytes "MUST be in sync with the BFs": whatever peers, storage and user do,
\* and in any order, the count that decides whether the torrent is finished is the number
\* of selected pieces that are missing.
THEOREM NeededIsInSync == Spec => []NeededInSync
<1>1. Init => NeededInSync
  <2> SUFFICES ASSUME Init PROVE NeededInSync
    OBVIOUS
  <2>1. selected \ have = selected /\ needed = Cardinality(selected)
    BY DEF Init
  <2> QED
    BY <2>1 DEF NeededInSync
<1> QED
  BY <1>1, TypeInit, TypeStep, NeededStep, PTL DEF Spec

-----------------------------------------------------------------------------
(* The owners of pieces, without reselection and streaming.                  *)

\* Only selected pieces are queued, in flight or checked.
OnlySelected ==
  /\ queued \subseteq selected
  /\ \A x \in Piece : inflight[x] # None => x \in selected
  /\ \A p \in Peer : Checking(p) => job[p][1] \in selected

\* A task that has decided to disconnect the seeds found nothing missing, and nothing is
\* missing when it comes to it.
SeedsNotNeeded == \A p \in Peer : at[p] = "disconnect" => selected \subseteq have

OwnerInv == Inductive /\ NeededInSync /\ OnlySelected /\ SeedsNotNeeded /\ OwnerIsConnected

\* Requesting and connecting.
LEMMA OwnerRequester ==
  ASSUME OwnerInv, Inductive', NeededInSync', NEW p \in Peer,
         \/ Connect(p) \/ (\E b \in BOOLEAN : SetChoked(p, b))
         \/ RequesterStep(p) \/ (\E r \in requests[p] : ReceiveChunk(p, r))
  PROVE  OwnerInv'
<1>0. TypeOK /\ p # None
  BY ConstantsAssumption DEF OwnerInv, Inductive, ConstantsAssumption
<1>1. ASSUME NEW x \in Piece, Reserve(p, x) \/ Steal(p, x) PROVE OwnerInv'
  <2>1. /\ inflight' = [inflight EXCEPT ![x] = p] /\ queued' \subseteq queued /\ conn[p] = "live"
        /\ UNCHANGED <<have, selected, conn, at, job>>
    BY <1>1 DEF Reserve, Steal, CanAcquire, tracker, writer
  <2>2. x \in selected
    <3>1. CASE Reserve(p, x)
      <4>1. x \in queued
        BY <3>1 DEF Reserve, Candidates, PriorityPieces, SelectedPieces, QueuedPieces, OwnerInv, Inductive
      <4> QED
        BY <4>1 DEF OwnerInv, OnlySelected
    <3>2. CASE Steal(p, x)
      BY <3>2 DEF Steal, OwnerInv, OnlySelected
    <3> QED
      BY <1>1, <3>1, <3>2
  <2>3. OnlySelected' /\ OwnerIsConnected' /\ SeedsNotNeeded'
    BY <1>0, <2>1, <2>2 DEF OwnerInv, OnlySelected, OwnerIsConnected, SeedsNotNeeded, TypeOK
  <2> QED
    BY <2>3 DEF OwnerInv
<1>2. ASSUME NEW r \in requests[p], ReceiveChunk(p, r) PROVE OwnerInv'
  <2>1. /\ UNCHANGED <<have, queued, selected, inflight, conn>> /\ at'[p] = "check"
        /\ \A q \in Peer : q # p => at'[q] = at[q] /\ job'[q] = job[q]
    BY <1>0, <1>2 DEF ReceiveChunk, tracker, TypeOK
  <2> QED
    BY <2>1 DEF OwnerInv, OnlySelected, OwnerIsConnected, SeedsNotNeeded
<1>3. ASSUME UNCHANGED <<have, queued, selected, inflight, at, job>>,
             \A q \in Peer : conn[q] = "live" => conn'[q] = "live"
      PROVE  OwnerInv'
  BY <1>0, <1>3 DEF OwnerInv, OnlySelected, OwnerIsConnected, SeedsNotNeeded, TypeOK
<1>4. CASE Connect(p) \/ \E b \in BOOLEAN : SetChoked(p, b)
  BY <1>0, <1>3, <1>4 DEF Connect, SetChoked, tracker, writer, TypeOK
<1>5. CASE CheckFinished(p) \/ AcquireNothing(p) \/ OnSteal(p) \/ \E r \in todo[p] : RequestChunk(p, r)
  BY <1>3, <1>5 DEF CheckFinished, AcquireNothing, OnSteal, RequestChunk, tracker, writer
<1> QED
  BY <1>1, <1>2, <1>4, <1>5 DEF RequesterStep

\* Writing, checking, completing, disconnecting and dying.
LEMMA OwnerWriter ==
  ASSUME OwnerInv, Inductive', NeededInSync', NEW p \in Peer, WriterStep(p) \/ PeerDied(p)
  PROVE  OwnerInv'
<1>0. TypeOK /\ Inductive /\ (at[p] \notin {"idle", "dying"} => job[p] \in Piece \X Chunk)
  BY DEF OwnerInv, Inductive, TypeOK
<1>1. ASSUME UNCHANGED <<have, queued, selected, inflight, conn>>,
             \A q \in Peer : q # p => at'[q] = at[q] /\ job'[q] = job[q],
             at'[p] \in {"hash", "ok", "broken"} => Checking(p) /\ job'[p] = job[p],
             at'[p] = "disconnect" => selected \subseteq have
      PROVE  OwnerInv'
  BY <1>0, <1>1 DEF OwnerInv, OnlySelected, OwnerIsConnected, SeedsNotNeeded
<1>2. CASE CheckSteal(p) \/ WriteChunk(p) \/ WriteError(p)
  <2>1. /\ UNCHANGED <<have, queued, selected, inflight, conn>>
        /\ \A q \in Peer : q # p => at'[q] = at[q] /\ job'[q] = job[q]
        /\ at'[p] \in {"write", "mark", "idle", "dying"}
    BY <1>0, <1>2 DEF CheckSteal, WriteChunk, WriteError, GoTo, Finish, Fail, tracker, TypeOK
  <2> QED
    BY <1>1, <2>1
<1>3. CASE MarkChunk(p)
  <2> DEFINE x == job[p][1]
  <2>1. x \in Piece /\ inflight[x] = p /\ p # None /\ x \in selected
    BY <1>0, <1>3, ConstantsAssumption
       DEF MarkChunk, OwnerInv, Inductive, PieceLockProtects, OnlySelected, ConstantsAssumption
  <2>2. UNCHANGED <<have, queued, selected, conn>>
    BY <1>3 DEF MarkChunk
  <2>3. GoTo(p, "hash") \/ Finish(p)
    BY <1>3, Zenon DEF MarkChunk
  <2>4. /\ \A q \in Peer : q # p => at'[q] = at[q] /\ job'[q] = job[q]
        /\ at'[p] = "idle" \/ (at'[p] = "hash" /\ job'[p] = job[p])
    BY <1>0, <2>3 DEF GoTo, Finish, TypeOK
  <2>5. inflight' = inflight \/ inflight' = [inflight EXCEPT ![x] = None]
    BY <1>3 DEF MarkChunk
  <2>6. \A y \in Piece : inflight'[y] # None => inflight'[y] = inflight[y]
    BY <1>0, <2>5 DEF TypeOK
  <2> QED
    BY <2>1, <2>2, <2>4, <2>6 DEF OwnerInv, OnlySelected, OwnerIsConnected, SeedsNotNeeded
<1>4. CASE HashCheck(p)
  <2>1. /\ UNCHANGED <<have, queued, selected, inflight, conn>> /\ at[p] = "hash"
        /\ \A q \in Peer : q # p => at'[q] = at[q] /\ job'[q] = job[q]
        /\ at'[p] = "dying" \/ (at'[p] \in {"ok", "broken"} /\ job'[p] = job[p])
    BY <1>0, <1>4 DEF HashCheck, GoTo, Fail, tracker, TypeOK
  <2> QED
    BY <1>1, <2>1
<1>5. CASE MarkHashOk(p)
  <2>1. /\ UNCHANGED <<queued, selected, inflight, conn>> /\ have \subseteq have' /\ at'[p] = "completed"
        /\ \A q \in Peer : q # p => at'[q] = at[q] /\ job'[q] = job[q]
    BY <1>0, <1>5 DEF MarkHashOk, GoTo, TypeOK
  <2> QED
    BY <2>1 DEF OwnerInv, OnlySelected, OwnerIsConnected, SeedsNotNeeded
<1>6. CASE MarkHashFailed(p)
  <2>1. /\ UNCHANGED <<have, selected, inflight, conn>> /\ at'[p] = "dying" /\ Checking(p)
        /\ queued' \subseteq queued \cup {job[p][1]}
        /\ \A q \in Peer : q # p => at'[q] = at[q] /\ job'[q] = job[q]
    BY <1>0, <1>6 DEF MarkHashFailed, MarkBroken, Fail, TypeOK
  <2> QED
    BY <2>1 DEF OwnerInv, OnlySelected, OwnerIsConnected, SeedsNotNeeded
<1>7. CASE OnPieceCompleted(p)
  <2>1. /\ UNCHANGED <<have, queued, selected, inflight, conn>> /\ Running
        /\ (NothingToDownload /\ GoTo(p, "disconnect")) \/ Finish(p)
    BY <1>7, Zenon DEF OnPieceCompleted
  <2>2. /\ \A q \in Peer : q # p => at'[q] = at[q] /\ job'[q] = job[q]
        /\ at'[p] = "idle" \/ at'[p] = "disconnect"
        /\ at'[p] = "disconnect" => NothingToDownload
    BY <1>0, <2>1 DEF GoTo, Finish, TypeOK
  <2>3. ASSUME NothingToDownload PROVE selected \subseteq have
    <3>1. Cardinality(selected \ have) = 0
      BY <2>1, <2>3 DEF NothingToDownload, OwnerInv, NeededInSync, Running
    <3>2. IsFiniteSet(selected \ have)
      BY <1>0, FS_Subset, ConstantsAssumption DEF TypeOK, ConstantsAssumption
    <3>3. selected \ have = {}
      BY <3>1, <3>2, FS_EmptySet
    <3> QED
      BY <3>3
  <2> QED
    BY <1>1, <2>1, <2>2, <2>3
<1>8. CASE DisconnectSeeds(p)
  <2>1. /\ UNCHANGED <<have, queued, selected, inflight>> /\ at[p] = "disconnect" /\ at'[p] = "idle"
        /\ \A q \in Peer : q # p => at'[q] = at[q] /\ job'[q] = job[q]
    BY <1>0, <1>8 DEF DisconnectSeeds, Finish, tracker, TypeOK
  <2>2. \A x \in Piece : inflight[x] = None
    BY <2>1 DEF OwnerInv, SeedsNotNeeded, OnlySelected, Inductive, PieceStatesDisjoint
  <2> QED
    BY <2>1, <2>2 DEF OwnerInv, OnlySelected, OwnerIsConnected, SeedsNotNeeded
<1>9. CASE PeerDied(p)
  <2>1. /\ UNCHANGED <<have, selected>> /\ at'[p] = "idle"
        /\ \A q \in Peer : q # p => at'[q] = at[q] /\ job'[q] = job[q] /\ conn'[q] = conn[q]
    BY <1>0, <1>9 DEF PeerDied, Finish, TypeOK
  <2>2. \A x \in Piece : inflight'[x] # None => inflight'[x] = inflight[x] /\ inflight[x] # p
    <3>1. CASE conn[p] = "live"
      BY <1>0, <1>9, <3>1 DEF PeerDied, ReleasePieces, TypeOK
    <3>2. CASE conn[p] # "live"
      BY <1>9, <3>2 DEF PeerDied, OwnerInv, OwnerIsConnected
    <3> QED
      BY <3>1, <3>2
  <2>3. queued' \subseteq selected
    <3>1. CASE conn[p] = "live"
      BY <1>9, <3>1, ConstantsAssumption
         DEF PeerDied, ReleasePieces, MarkBroken, OwnerInv, OnlySelected, ConstantsAssumption
    <3>2. CASE conn[p] # "live"
      BY <1>9, <3>2 DEF PeerDied, OwnerInv, OnlySelected
    <3> QED
      BY <3>1, <3>2
  <2>4. OwnerIsConnected'
    BY <1>0, <2>1, <2>2 DEF OwnerInv, OwnerIsConnected, TypeOK
  <2>5. OnlySelected' /\ SeedsNotNeeded'
    BY <2>1, <2>2, <2>3 DEF OwnerInv, OnlySelected, SeedsNotNeeded
  <2> QED
    BY <2>4, <2>5 DEF OwnerInv
<1> QED
  BY <1>2, <1>3, <1>4, <1>5, <1>6, <1>7, <1>8, <1>9 DEF WriterStep

\* Pausing, resuming, failing and restarting.
LEMMA OwnerTorrent ==
  ASSUME OwnerInv, Inductive', NeededInSync', NoSelectNoStream, TorrentStep
  PROVE  OwnerInv'
<1>0. TypeOK
  BY DEF OwnerInv, Inductive
<1>1. CASE Pause
  <2>1. /\ UNCHANGED <<have, selected>> /\ \A x \in Piece : inflight'[x] = None
        /\ \A p \in Peer : at'[p] = "idle"
        /\ queued' \subseteq queued \cup {x \in Piece : inflight[x] # None}
    BY <1>1 DEF Pause, StopPeers, MarkBroken
  <2> QED
    BY <2>1 DEF OwnerInv, OnlySelected, OwnerIsConnected, SeedsNotNeeded
<1>2. CASE Resume
  BY <1>2 DEF Resume, tracker, writer, OwnerInv, OnlySelected, OwnerIsConnected, SeedsNotNeeded
<1>3. CASE StopWithError
  BY <1>3 DEF StopWithError, StopPeers, tracker, OwnerInv, OnlySelected, OwnerIsConnected, SeedsNotNeeded
<1>4. CASE Restart
  <2>1. /\ UNCHANGED <<selected, inflight, at, job, conn>> /\ queued' \subseteq selected /\ ~Running
    BY <1>4 DEF Restart, NewTracker, writer, Running
  <2>2. \A p \in Peer : at[p] = "idle"
    BY <2>1 DEF OwnerInv, Inductive, Quiescent
  <2> QED
    BY <2>1, <2>2 DEF OwnerInv, OnlySelected, OwnerIsConnected, SeedsNotNeeded
<1>5. ASSUME NEW fs \in SUBSET File, UpdateOnlyFiles(fs) PROVE FALSE
  BY <1>5 DEF UpdateOnlyFiles, NoSelectNoStream
<1>6. ASSUME NEW f \in File, SetStream(f) PROVE FALSE
  BY <1>6 DEF SetStream, NoSelectNoStream
<1> QED
  BY <1>1, <1>2, <1>3, <1>4, <1>5, <1>6 DEF TorrentStep

\* Nobody's death leaves a piece behind: as long as files are neither reselected nor
\* streamed, every piece in flight belongs to a peer that is Live, also when
\* on_piece_completed disconnects the peers that have the full torrent, and so
\* release_pieces_owned_by will return it.
THEOREM OwnersAreConnected == NoSelectNoStream => (Spec => []OwnerIsConnected)
<1> SUFFICES ASSUME NoSelectNoStream PROVE Spec => []OwnerIsConnected
  OBVIOUS
<1>1. Init /\ Inductive /\ NeededInSync => OwnerInv
  BY DEF Init, OwnerInv, OnlySelected, OwnerIsConnected, SeedsNotNeeded
<1>2. OwnerInv /\ [Next]_vars /\ Inductive' /\ NeededInSync' => OwnerInv'
  <2> SUFFICES ASSUME OwnerInv, [Next]_vars, Inductive', NeededInSync' PROVE OwnerInv'
    OBVIOUS
  <2>1. ASSUME NEW p \in Peer, PeerStep(p) PROVE OwnerInv'
    BY <2>1, OwnerRequester, OwnerWriter DEF PeerStep
  <2>2. CASE UNCHANGED vars
    BY <2>2 DEF vars, tracker, writer, OwnerInv, OnlySelected, OwnerIsConnected, SeedsNotNeeded
  <2> QED
    BY <2>1, <2>2, OwnerTorrent DEF Next
<1>3. OwnerInv => OwnerIsConnected
  BY DEF OwnerInv
<1> QED
  BY <1>1, <1>2, <1>3, InductiveInvariant, NeededIsInSync, PTL DEF Spec

-----------------------------------------------------------------------------
(* No piece is forgotten, and each is counted once, when the torrent is also *)
(* not paused.                                                               *)

\* The storage can always be read back.
ReadsSucceed == "readError" \notin Env

Uninterrupted == Env \cap {"select", "stream", "pause"} = {}

\* Somebody will come to the piece.
LookedAfter(x) == x \in queued \cup BeingChecked \/ inflight[x] # None

\* A step after which every piece that was looked after still is, or is had.
LEMMA StillLookedAfter ==
  ASSUME TypeOK, NoPieceLost, UNCHANGED selected, have \subseteq have', phase' # "error" => phase # "error",
         \A x \in Piece : LookedAfter(x) => x \in have' \/ LookedAfter(x)'
  PROVE  NoPieceLost'
  BY DEF NoPieceLost, LookedAfter, TypeOK

\* Steps of a peer.
LEMMA LostPeer ==
  ASSUME Inductive, Inductive', NoPieceLost, ReadsSucceed, NEW p \in Peer, PeerStep(p)
  PROVE  NoPieceLost'
<1>0. TypeOK /\ (at[p] \notin {"idle", "dying"} => job[p] \in Piece \X Chunk) /\ p # None
  BY ConstantsAssumption DEF Inductive, TypeOK, ConstantsAssumption
<1>1. ASSUME UNCHANGED <<have, selected>>, Running,
             \A x \in Piece : x \in queued \/ inflight[x] # None => x \in queued' \/ inflight'[x] # None,
             \A q \in Peer : q # p => at'[q] = at[q] /\ job'[q] = job[q],
             Checking(p) => at'[p] \in {"hash", "ok", "broken"} /\ job'[p] = job[p]
      PROVE  NoPieceLost'
  <2>1. \A x \in Piece : x \in BeingChecked => x \in BeingChecked'
    BY <1>1 DEF BeingChecked
  <2>2. \A x \in Piece : LookedAfter(x) => LookedAfter(x)'
    BY <1>1, <2>1 DEF LookedAfter
  <2> QED
    BY <1>0, <1>1, <2>2, StillLookedAfter DEF Running
<1>2. ASSUME NEW x \in Piece, Reserve(p, x) \/ Steal(p, x) PROVE NoPieceLost'
  <2>1. /\ inflight' = [inflight EXCEPT ![x] = p] /\ queued \ {x} \subseteq queued' /\ Running
        /\ UNCHANGED <<have, selected, at, job>>
    BY <1>2 DEF Reserve, Steal, CanAcquire, RequesterIdle, tracker, writer
  <2> QED
    BY <1>0, <1>1, <2>1 DEF TypeOK
<1>3. CASE Connect(p) \/ (\E b \in BOOLEAN : SetChoked(p, b)) \/ CheckFinished(p) \/ AcquireNothing(p) \/ OnSteal(p)
  <2>1. UNCHANGED <<have, selected, queued, inflight, at, job>> /\ Running
    BY <1>3 DEF Connect, SetChoked, CheckFinished, AcquireNothing, OnSteal, RequesterIdle, tracker, writer
  <2> QED
    BY <1>1, <2>1
<1>4. ASSUME NEW r \in todo[p], RequestChunk(p, r) PROVE NoPieceLost'
  BY <1>1, <1>4 DEF RequestChunk, tracker, writer
<1>5. ASSUME NEW r \in requests[p], ReceiveChunk(p, r) PROVE NoPieceLost'
  <2>1. /\ UNCHANGED <<have, selected, queued, inflight>> /\ Running /\ ~Checking(p)
        /\ \A q \in Peer : q # p => at'[q] = at[q] /\ job'[q] = job[q]
    BY <1>0, <1>5 DEF ReceiveChunk, tracker, TypeOK
  <2> QED
    BY <1>1, <2>1
<1>6. CASE CheckSteal(p) \/ WriteChunk(p) \/ WriteError(p)
  <2>1. /\ UNCHANGED <<have, selected, queued, inflight>> /\ Running /\ ~Checking(p)
        /\ \A q \in Peer : q # p => at'[q] = at[q] /\ job'[q] = job[q]
    BY <1>0, <1>6 DEF CheckSteal, WriteChunk, WriteError, GoTo, Finish, Fail, tracker, TypeOK
  <2> QED
    BY <1>1, <2>1
<1>7. CASE MarkChunk(p)
  <2> DEFINE x == job[p][1]
  <2>1. x \in Piece /\ inflight[x] = p /\ Running /\ ~Checking(p) /\ UNCHANGED <<have, selected, queued, phase>>
    BY <1>0, <1>7 DEF MarkChunk, Inductive, PieceLockProtects
  <2>2. \/ Finish(p) /\ UNCHANGED inflight
        \/ GoTo(p, "hash") /\ inflight' = [inflight EXCEPT ![x] = None]
    BY <1>0, <1>7, <2>1 DEF MarkChunk
  <2>3. CASE Finish(p) /\ UNCHANGED inflight
    BY <1>0, <1>1, <2>1, <2>3 DEF Finish, TypeOK
  <2>4. CASE GoTo(p, "hash") /\ inflight' = [inflight EXCEPT ![x] = None]
    <3>1. /\ at'[p] = "hash" /\ job' = job /\ \A q \in Peer : q # p => at'[q] = at[q]
          /\ \A y \in Piece : y # x => inflight'[y] = inflight[y]
      BY <1>0, <2>4 DEF GoTo, TypeOK
    <3>2. x \in BeingChecked' /\ \A y \in Piece : y \in BeingChecked => y \in BeingChecked'
      BY <2>1, <3>1 DEF BeingChecked
    <3>3. \A y \in Piece : LookedAfter(y) => LookedAfter(y)'
      BY <2>1, <3>1, <3>2 DEF LookedAfter
    <3> QED
      BY <1>0, <2>1, <3>3, StillLookedAfter
  <2> QED
    BY <2>2, <2>3, <2>4
<1>8. CASE HashCheck(p)
  <2>1. /\ UNCHANGED <<have, selected, queued, inflight>> /\ Running
        /\ \A q \in Peer : q # p => at'[q] = at[q] /\ job'[q] = job[q]
        /\ at'[p] \in {"ok", "broken"} /\ job'[p] = job[p]
    BY <1>0, <1>8 DEF HashCheck, GoTo, ReadsSucceed, tracker, TypeOK
  <2> QED
    BY <1>1, <2>1
<1>9. CASE MarkHashOk(p)
  <2>1. /\ UNCHANGED <<selected, queued, inflight, phase>> /\ have' = have \cup {job[p][1]}
        /\ \A q \in Peer : q # p => at'[q] = at[q] /\ job'[q] = job[q]
    BY <1>0, <1>9 DEF MarkHashOk, GoTo, TypeOK
  <2>2. \A x \in Piece : x \in BeingChecked => x = job[p][1] \/ x \in BeingChecked'
    BY <2>1 DEF BeingChecked
  <2>3. \A x \in Piece : LookedAfter(x) => x \in have' \/ LookedAfter(x)'
    BY <2>1, <2>2 DEF LookedAfter
  <2> QED
    BY <1>0, <2>1, <2>3, StillLookedAfter
<1>10. CASE MarkHashFailed(p)
  <2>1. /\ UNCHANGED <<selected, have, inflight, phase>> /\ queued' = queued \cup ({job[p][1]} \ have)
        /\ \A q \in Peer : q # p => at'[q] = at[q] /\ job'[q] = job[q]
    BY <1>0, <1>10 DEF MarkHashFailed, MarkBroken, Fail, TypeOK
  <2>2. \A x \in Piece : x \in BeingChecked => x = job[p][1] \/ x \in BeingChecked'
    BY <2>1 DEF BeingChecked
  <2>3. \A x \in Piece : LookedAfter(x) => x \in have' \/ LookedAfter(x)'
    BY <2>1, <2>2 DEF LookedAfter
  <2> QED
    BY <1>0, <2>1, <2>3, StillLookedAfter
<1>11. CASE OnPieceCompleted(p) \/ DisconnectSeeds(p)
  <2>1. UNCHANGED <<have, selected, queued, inflight>> /\ Running /\ ~Checking(p)
    BY <1>11 DEF OnPieceCompleted, DisconnectSeeds, tracker
  <2>2. GoTo(p, "disconnect") \/ Finish(p)
    BY <1>11, Zenon DEF OnPieceCompleted, DisconnectSeeds
  <2>3. \A q \in Peer : q # p => at'[q] = at[q] /\ job'[q] = job[q]
    BY <1>0, <2>2 DEF GoTo, Finish, TypeOK
  <2> QED
    BY <1>1, <2>1, <2>3
<1>12. CASE PeerDied(p)
  <2>1. /\ UNCHANGED <<have, selected>> /\ Running /\ ~Checking(p)
        /\ \A q \in Peer : q # p => at'[q] = at[q] /\ job'[q] = job[q]
    BY <1>0, <1>12 DEF PeerDied, Finish, TypeOK
  <2>2. \A x \in Piece : x \in queued \/ inflight[x] # None => x \in queued' \/ inflight'[x] # None
    <3>1. CASE conn[p] = "live"
      <4>1. /\ inflight' = [x \in Piece |-> IF x \in {y \in Piece : inflight[y] = p} THEN None ELSE inflight[x]]
            /\ queued' = queued \cup ({y \in Piece : inflight[y] = p} \ have)
        BY <1>12, <3>1 DEF PeerDied, ReleasePieces, MarkBroken
      <4>2. \A x \in Piece : inflight[x] = p => x \notin have
        BY <1>0 DEF Inductive, PieceStatesDisjoint
      <4> QED
        BY <4>1, <4>2
    <3>2. CASE conn[p] # "live"
      BY <1>12, <3>2 DEF PeerDied
    <3> QED
      BY <3>1, <3>2
  <2> QED
    BY <1>1, <2>1, <2>2
<1> QED
  BY <1>2, <1>3, <1>4, <1>5, <1>6, <1>7, <1>8, <1>9, <1>10, <1>11, <1>12 DEF PeerStep, RequesterStep, WriterStep

\* Every step.
LEMMA LostStep ==
  ASSUME Inductive, Inductive', NoPieceLost, ReadsSucceed, Uninterrupted, [Next]_vars
  PROVE  NoPieceLost'
<1>1. CASE UNCHANGED vars
  BY <1>1 DEF vars, tracker, writer, NoPieceLost, BeingChecked
<1>2. CASE TorrentStep
  <2>1. CASE Restart
    BY <2>1 DEF Restart, NewTracker, NoPieceLost
  <2>2. CASE Resume
    <3>1. \A p \in Peer : at[p] = "idle"
      BY <2>2 DEF Resume, Inductive, Quiescent, Running
    <3> QED
      BY <2>2, <3>1 DEF Resume, tracker, writer, NoPieceLost, BeingChecked
  <2>3. CASE StopWithError
    BY <2>3 DEF StopWithError, NoPieceLost
  <2>4. ~Pause /\ ~(\E fs \in SUBSET File : UpdateOnlyFiles(fs)) /\ ~(\E f \in File : SetStream(f))
    BY DEF Pause, UpdateOnlyFiles, SetStream, Uninterrupted
  <2> QED
    BY <1>2, <2>1, <2>2, <2>3, <2>4 DEF TorrentStep
<1> QED
  BY <1>1, <1>2, LostPeer DEF Next

\* The torrent never forgets a piece it needs: whatever order peers steal, die, send
\* wrong data and fail to write in, a selected piece that is missing is in the queue, in
\* flight or with the task that checks it, as long as the torrent is not paused or
\* reselected in between, streams nothing and can read its storage.
THEOREM NothingIsForgotten == Uninterrupted /\ ReadsSucceed => (Spec => []NoPieceLost)
<1> SUFFICES ASSUME Uninterrupted, ReadsSucceed PROVE Spec => []NoPieceLost
  OBVIOUS
<1>1. NoSelectNoStream
  BY DEF Uninterrupted, NoSelectNoStream
<1>2. Init => NoPieceLost
  BY DEF Init, NoPieceLost
<1>3. Inductive /\ Inductive' /\ NoPieceLost /\ [Next]_vars => NoPieceLost'
  BY LostStep
<1> QED
  BY <1>1, <1>2, <1>3, InductiveInvariant, PTL DEF Spec

\* Between two files that share a piece lies no file without a byte in it, in particular
\* no empty one: on_piece_completed stops at the first file that lacks the piece.
FilesAdjoin ==
  \A x \in Piece : \A f, g, h \in File :
     h < g /\ g < f /\ x \in FilePieces[h] /\ x \in FilePieces[f] => x \in FilePieces[g]

\* A piece is marked as had, and then counted, by one task only.
CountedOnce ==
  /\ \A p \in Peer : Checking(p) => job[p][1] \notin have
  /\ \A p \in Peer : at[p] = "completed" =>
       /\ job[p][1] \in have
       /\ \A q \in Peer \ {p} : at[q] = "completed" => job[q][1] # job[p][1]

\* No step completes a piece twice.
LEMMA CountedOnceStep ==
  ASSUME Inductive, CountedOnce, NoSelectNoStream, [Next]_vars
  PROVE  CountedOnce'
<1>0. TypeOK
  BY DEF Inductive
<1>1. ASSUME NEW p \in Peer, UNCHANGED have, \A q \in Peer : q # p => at'[q] = at[q] /\ job'[q] = job[q],
             at'[p] # "completed", at'[p] \in {"hash", "ok", "broken"} => job'[p][1] \notin have
      PROVE  CountedOnce'
  BY <1>1 DEF CountedOnce
<1>2. ASSUME UNCHANGED <<have, at, job>> PROVE CountedOnce'
  BY <1>2 DEF CountedOnce
<1>3. ASSUME NEW p \in Peer, WriterStep(p) PROVE CountedOnce'
  <2>0. at[p] \notin {"idle", "dying"} => job[p] \in Piece \X Chunk
    BY <1>0 DEF TypeOK
  <2>1. CASE CheckSteal(p) \/ WriteChunk(p) \/ WriteError(p)
    <3>1. /\ UNCHANGED have /\ \A q \in Peer : q # p => at'[q] = at[q] /\ job'[q] = job[q]
          /\ at'[p] \in {"write", "mark", "idle", "dying"}
      BY <1>0, <2>1 DEF CheckSteal, WriteChunk, WriteError, GoTo, Finish, Fail, tracker, TypeOK
    <3> QED
      BY <1>1, <3>1
  <2>2. CASE MarkChunk(p)
    <3>1. inflight[job[p][1]] = p /\ p # None /\ UNCHANGED have /\ job[p][1] \in Piece
      BY <2>0, <2>2, ConstantsAssumption DEF MarkChunk, Inductive, PieceLockProtects, ConstantsAssumption
    <3>2. job[p][1] \notin have
      BY <3>1 DEF Inductive, PieceStatesDisjoint
    <3>3. GoTo(p, "hash") \/ Finish(p)
      BY <2>2, Zenon DEF MarkChunk
    <3>4. /\ \A q \in Peer : q # p => at'[q] = at[q] /\ job'[q] = job[q]
          /\ at'[p] = "idle" \/ (at'[p] = "hash" /\ job'[p] = job[p])
      BY <1>0, <3>3 DEF GoTo, Finish, TypeOK
    <3> QED
      BY <1>1, <3>1, <3>2, <3>4
  <2>3. CASE HashCheck(p)
    <3>1. /\ UNCHANGED have /\ at[p] = "hash" /\ \A q \in Peer : q # p => at'[q] = at[q] /\ job'[q] = job[q]
          /\ at'[p] = "dying" \/ (at'[p] \in {"ok", "broken"} /\ job'[p] = job[p])
      BY <1>0, <2>3 DEF HashCheck, GoTo, Fail, tracker, TypeOK
    <3> QED
      BY <1>1, <3>1 DEF CountedOnce
  <2>4. CASE MarkHashOk(p)
    <3>1. /\ at[p] = "ok" /\ at'[p] = "completed" /\ job' = job /\ have' = have \cup {job[p][1]}
          /\ \A q \in Peer : q # p => at'[q] = at[q]
      BY <1>0, <2>4 DEF MarkHashOk, GoTo, TypeOK
    <3>2. \A q \in Peer \ {p} : Checking(q) => job[q][1] # job[p][1]
      BY <3>1 DEF Inductive, CheckerExclusive
    <3>3. job[p][1] \notin have
      BY <3>1 DEF CountedOnce
    <3> QED
      BY <3>1, <3>2, <3>3 DEF CountedOnce
  <2>5. CASE MarkHashFailed(p)
    <3>1. UNCHANGED have /\ at'[p] = "dying" /\ \A q \in Peer : q # p => at'[q] = at[q] /\ job'[q] = job[q]
      BY <1>0, <2>5 DEF MarkHashFailed, Fail, TypeOK
    <3> QED
      BY <1>1, <3>1
  <2>6. CASE OnPieceCompleted(p) \/ DisconnectSeeds(p)
    <3>1. UNCHANGED have
      BY <2>6 DEF OnPieceCompleted, DisconnectSeeds, tracker
    <3>2. GoTo(p, "disconnect") \/ Finish(p)
      BY <2>6, Zenon DEF OnPieceCompleted, DisconnectSeeds
    <3>3. at'[p] \in {"disconnect", "idle"} /\ \A q \in Peer : q # p => at'[q] = at[q] /\ job'[q] = job[q]
      BY <1>0, <3>2 DEF GoTo, Finish, TypeOK
    <3> QED
      BY <1>1, <3>1, <3>3
  <2> QED
    BY <1>3, <2>1, <2>2, <2>3, <2>4, <2>5, <2>6 DEF WriterStep
<1>4. ASSUME NEW p \in Peer, NEW r \in requests[p], ReceiveChunk(p, r) PROVE CountedOnce'
  <2>1. UNCHANGED have /\ at'[p] = "check" /\ \A q \in Peer : q # p => at'[q] = at[q] /\ job'[q] = job[q]
    BY <1>0, <1>4 DEF ReceiveChunk, tracker, TypeOK
  <2> QED
    BY <1>1, <2>1
<1>5. ASSUME NEW p \in Peer, PeerDied(p) PROVE CountedOnce'
  <2>1. UNCHANGED have /\ at'[p] = "idle" /\ \A q \in Peer : q # p => at'[q] = at[q] /\ job'[q] = job[q]
    BY <1>0, <1>5 DEF PeerDied, Finish, TypeOK
  <2> QED
    BY <1>1, <2>1
<1>6. ASSUME NEW p \in Peer, Connect(p) \/ (\E b \in BOOLEAN : SetChoked(p, b)) \/ RequesterStep(p) PROVE CountedOnce'
  <2>1. UNCHANGED <<have, at, job>>
    BY <1>6 DEF Connect, SetChoked, RequesterStep, Reserve, Steal, CheckFinished, AcquireNothing, OnSteal,
                RequestChunk, tracker, writer
  <2> QED
    BY <1>2, <2>1
<1>7. CASE Pause \/ StopWithError
  BY <1>7 DEF Pause, StopWithError, StopPeers, CountedOnce
<1>8. CASE Resume
  BY <1>2, <1>8 DEF Resume, tracker, writer
<1>9. CASE Restart
  <2>1. UNCHANGED <<at, job>> /\ \A p \in Peer : at[p] = "idle"
    BY <1>9 DEF Restart, writer, Inductive, Quiescent, Running
  <2> QED
    BY <2>1 DEF CountedOnce
<1>10. ~(\E fs \in SUBSET File : UpdateOnlyFiles(fs)) /\ ~(\E f \in File : SetStream(f))
  BY DEF UpdateOnlyFiles, SetStream, NoSelectNoStream
<1>11. CASE UNCHANGED vars
  BY <1>2, <1>11 DEF vars, tracker, writer
<1> QED
  BY <1>3, <1>4, <1>5, <1>6, <1>7, <1>8, <1>9, <1>10, <1>11 DEF Next, PeerStep, TorrentStep

\* Every step keeps the counts.
LEMMA PerFileStep ==
  ASSUME Inductive, CountedOnce, PerFileInSync, Uninterrupted, FilesAdjoin, [Next]_vars
  PROVE  PerFileInSync'
<1>0. TypeOK /\ \A f \in File : FilePieces[f] \in SUBSET Piece
  BY ConstantsAssumption DEF Inductive, ConstantsAssumption
<1>1. ASSUME UNCHANGED <<have, perFile>>, phase' # "error" => phase # "error",
             \A q \in Peer : at'[q] = "completed" <=> at[q] = "completed",
             \A q \in Peer : at[q] = "completed" => job'[q] = job[q]
      PROVE  PerFileInSync'
  <2>1. \A f \in File : Uncounted(f)' = Uncounted(f)
    BY <1>1 DEF Uncounted
  <2> QED
    BY <1>1, <2>1 DEF PerFileInSync
<1>2. ASSUME NEW p \in Peer, MarkHashOk(p) PROVE PerFileInSync'
  <2> DEFINE x == job[p][1]
  <2>1. /\ at[p] = "ok" /\ at'[p] = "completed" /\ job' = job /\ have' = have \cup {x} /\ Running
        /\ \A q \in Peer : q # p => at'[q] = at[q]
        /\ UNCHANGED <<perFile, phase>> /\ x \in Piece
    BY <1>0, <1>2 DEF MarkHashOk, GoTo, TypeOK
  <2>2. x \notin have /\ \A q \in Peer : at[q] = "completed" => job[q][1] # x
    BY <2>1 DEF CountedOnce
  <2>3. ASSUME NEW f \in File
        PROVE  perFile'[f] + Cardinality(Uncounted(f)') = Cardinality(FilePieces[f] \cap have')
    <3>1. /\ perFile[f] + Cardinality(Uncounted(f)) = Cardinality(FilePieces[f] \cap have)
          /\ perFile[f] \in Nat /\ Uncounted(f) \in SUBSET Piece /\ FilePieces[f] \cap have \in SUBSET Piece
      BY <1>0, <2>1 DEF PerFileInSync, Running, Uncounted, TypeOK
    <3>2. CASE x \in FilePieces[f]
      <4>1. Uncounted(f)' = Uncounted(f) \cup {x} /\ x \notin Uncounted(f)
        BY <2>1, <2>2, <3>2 DEF Uncounted
      <4>2. FilePieces[f] \cap have' = (FilePieces[f] \cap have) \cup {x} /\ x \notin FilePieces[f] \cap have
        BY <2>1, <2>2, <3>2
      <4>3. /\ Cardinality(Uncounted(f) \cup {x}) = Cardinality(Uncounted(f)) + 1
            /\ Cardinality((FilePieces[f] \cap have) \cup {x}) = Cardinality(FilePieces[f] \cap have) + 1
        BY <2>1, <3>1, <4>1, <4>2, PieceMore
      <4>4. Cardinality(Uncounted(f)) \in Nat /\ Cardinality(FilePieces[f] \cap have) \in Nat
        BY <3>1, PieceCount
      <4>5. PICK u \in Nat, c \in Nat : u = Cardinality(Uncounted(f)) /\ c = Cardinality(FilePieces[f] \cap have)
        BY <4>4
      <4>6. Cardinality(Uncounted(f)') = u + 1 /\ Cardinality(FilePieces[f] \cap have') = c + 1
        BY <4>1, <4>2, <4>3, <4>5, Zenon
      <4>7. perFile[f] + u = c /\ perFile'[f] = perFile[f]
        BY <2>1, <3>1, <4>5
      <4>8. perFile[f] + (u + 1) = c + 1
        BY <3>1, <4>5, <4>7
      <4> QED
        BY <4>6, <4>7, <4>8, Zenon
    <3>3. CASE x \notin FilePieces[f]
      <4>1. Uncounted(f)' = Uncounted(f)
        BY <2>1, <2>2, <3>3 DEF Uncounted
      <4>2. FilePieces[f] \cap have' = FilePieces[f] \cap have
        BY <2>1, <3>3
      <4> QED
        BY <2>1, <3>1, <4>1, <4>2
    <3> QED
      BY <3>2, <3>3
  <2> QED
    BY <2>3 DEF PerFileInSync
<1>3. ASSUME NEW p \in Peer, OnPieceCompleted(p) PROVE PerFileInSync'
  <2> DEFINE x == job[p][1]
  <2>1. /\ at[p] = "completed" /\ Running /\ UNCHANGED <<have, phase>>
        /\ perFile' = [f \in File |-> perFile[f] + (IF f \in FilesOfPiece(x) THEN 1 ELSE 0)]
    BY <1>3 DEF OnPieceCompleted
  <2>2. GoTo(p, "disconnect") \/ Finish(p)
    BY <1>3, Zenon DEF OnPieceCompleted
  <2>3. at'[p] # "completed" /\ \A q \in Peer : q # p => at'[q] = at[q] /\ job'[q] = job[q]
    BY <1>0, <2>2 DEF GoTo, Finish, TypeOK
  <2>4. \A q \in Peer : q # p /\ at[q] = "completed" => job[q][1] # x
    BY <2>1 DEF CountedOnce
  <2>5. x \in Piece
    BY <1>0, <2>1 DEF TypeOK
  <2>6. ASSUME NEW f \in File
        PROVE  perFile'[f] + Cardinality(Uncounted(f)') = Cardinality(FilePieces[f] \cap have')
    <3>1. /\ perFile[f] + Cardinality(Uncounted(f)) = Cardinality(FilePieces[f] \cap have)
          /\ perFile[f] \in Nat /\ Uncounted(f) \in SUBSET Piece
      BY <1>0, <2>1 DEF PerFileInSync, Running, Uncounted, TypeOK
    <3>2. Cardinality(Uncounted(f)) \in Nat
      BY <3>1, PieceCount
    <3>3. CASE x \in FilePieces[f]
      <4>1. Uncounted(f)' = Uncounted(f) \ {x} /\ x \in Uncounted(f)
        BY <2>1, <2>3, <2>4, <3>3 DEF Uncounted
      <4>2. Cardinality(Uncounted(f) \ {x}) = Cardinality(Uncounted(f)) - 1
        BY <3>1, <4>1, PieceLess
      <4>3. f \in FilesOfPiece(x)
        BY <2>5, <3>3 DEF FilesOfPiece, FilesAdjoin
      <4>4. perFile'[f] = perFile[f] + 1
        BY <2>1, <4>3
      <4> QED
        BY <2>1, <3>1, <3>2, <4>1, <4>2, <4>4
    <3>4. CASE x \notin FilePieces[f]
      <4>1. Uncounted(f)' = Uncounted(f)
        BY <2>1, <2>3, <3>4 DEF Uncounted
      <4>2. f \notin FilesOfPiece(x)
        BY <3>4 DEF FilesOfPiece
      <4>3. perFile'[f] = perFile[f]
        BY <2>1, <3>1, <4>2
      <4> QED
        BY <2>1, <3>1, <4>1, <4>3
    <3> QED
      BY <3>3, <3>4
  <2> QED
    BY <2>6 DEF PerFileInSync
<1>4. ASSUME NEW p \in Peer, WriterStep(p), ~MarkHashOk(p), ~OnPieceCompleted(p) PROVE PerFileInSync'
  <2>1. /\ CheckSteal(p) \/ WriteChunk(p) \/ WriteError(p) \/ MarkChunk(p) \/ HashCheck(p) \/ MarkHashFailed(p)
           \/ DisconnectSeeds(p)
    BY <1>4 DEF WriterStep
  <2>2. UNCHANGED <<have, perFile>> /\ Running /\ at[p] # "completed"
    BY <2>1 DEF CheckSteal, WriteChunk, WriteError, MarkChunk, HashCheck, MarkHashFailed, DisconnectSeeds, tracker
  <2>3. GoTo(p, "write") \/ GoTo(p, "mark") \/ GoTo(p, "hash") \/ GoTo(p, "ok") \/ GoTo(p, "broken") \/ Finish(p) \/ Fail(p)
    BY <2>1, Zenon DEF CheckSteal, WriteChunk, WriteError, MarkChunk, HashCheck, MarkHashFailed, DisconnectSeeds
  <2>4. at'[p] # "completed" /\ \A q \in Peer : q # p => at'[q] = at[q] /\ job'[q] = job[q]
    BY <1>0, <2>3 DEF GoTo, Finish, Fail, TypeOK
  <2> QED
    BY <1>1, <2>2, <2>4 DEF Running
<1>5. ASSUME NEW p \in Peer, PeerStep(p), ~WriterStep(p) PROVE PerFileInSync'
  <2>1. UNCHANGED <<have, perFile>> /\ Running /\ UNCHANGED phase
    BY <1>5 DEF PeerStep, RequesterStep, Connect, SetChoked, Reserve, Steal, CheckFinished, AcquireNothing,
                OnSteal, RequestChunk, ReceiveChunk, PeerDied, CanAcquire, RequesterIdle, tracker
  <2>2. UNCHANGED <<at, job>> \/ (at[p] # "completed" /\ \E st \in {"check", "idle"} : at' = [at EXCEPT ![p] = st]
                                   /\ \E r : job' = [job EXCEPT ![p] = r])
    BY <1>5 DEF PeerStep, RequesterStep, Connect, SetChoked, Reserve, Steal, CheckFinished, AcquireNothing,
                OnSteal, RequestChunk, ReceiveChunk, PeerDied, Finish, writer
  <2> QED
    BY <1>0, <1>1, <2>1, <2>2 DEF TypeOK
<1>6. CASE Restart
  <2>1. \A p \in Peer : at'[p] = "idle"
    BY <1>6 DEF Restart, writer, Inductive, Quiescent, Running
  <2>2. \A f \in File : Uncounted(f)' = {}
    BY <2>1 DEF Uncounted
  <2>6. PICK h \in (SUBSET have) \cup {{y \in Piece : disk[y] = Chunk}} : NewTracker(h)
    BY <1>6, Zenon DEF Restart
  <2>3. /\ h \in SUBSET Piece
        /\ have' = h /\ perFile' = [f \in File |-> Cardinality(FilePieces[f] \cap h)]
    BY <1>0, <2>6 DEF NewTracker, TypeOK
  <2>4. \A f \in File : Cardinality(FilePieces[f] \cap h) \in Nat
    BY <1>0, PieceCount
  <2>5. Cardinality({}) = 0
    BY FS_EmptySet
  <2> QED
    BY <2>2, <2>3, <2>4, <2>5 DEF PerFileInSync
<1>7. CASE StopWithError
  BY <1>7 DEF StopWithError, PerFileInSync
<1>8. CASE Resume
  BY <1>1, <1>8 DEF Resume, tracker, writer
<1>9. ~Pause /\ ~(\E fs \in SUBSET File : UpdateOnlyFiles(fs)) /\ ~(\E f \in File : SetStream(f))
  BY DEF Pause, UpdateOnlyFiles, SetStream, Uninterrupted
<1>10. CASE UNCHANGED vars
  BY <1>1, <1>10 DEF vars, tracker, writer
<1> QED
  BY <1>2, <1>3, <1>4, <1>5, <1>6, <1>7, <1>8, <1>9, <1>10 DEF Next, TorrentStep

\* per_file_bytes counts every piece of a file once, however many tasks complete pieces
\* at the same time and with restarts after fatal errors, when no file without a byte of
\* a piece lies between two files that share it and the torrent is not paused,
\* reselected or streamed in between.
THEOREM FilesAreCounted == Uninterrupted /\ FilesAdjoin => (Spec => []PerFileInSync)
<1> SUFFICES ASSUME Uninterrupted, FilesAdjoin PROVE Spec => []PerFileInSync
  OBVIOUS
<1>1. NoSelectNoStream
  BY DEF Uninterrupted, NoSelectNoStream
<1>2. Init => CountedOnce /\ PerFileInSync
  <2> SUFFICES ASSUME Init PROVE CountedOnce /\ PerFileInSync
    OBVIOUS
  <2>1. CountedOnce
    BY DEF Init, CountedOnce
  <2>2. \A f \in File : Uncounted(f) = {} /\ FilePieces[f] \cap have = {} /\ perFile[f] = 0
    BY DEF Init, Uncounted
  <2>3. Cardinality({}) = 0
    BY FS_EmptySet
  <2> QED
    BY <2>1, <2>2, <2>3 DEF PerFileInSync
<1>3. Inductive /\ CountedOnce /\ PerFileInSync /\ [Next]_vars => CountedOnce' /\ PerFileInSync'
  BY <1>1, CountedOnceStep, PerFileStep
<1> QED
  BY <1>1, <1>2, <1>3, InductiveInvariant, PTL DEF Spec

-----------------------------------------------------------------------------
(* PieceDownload implements PieceBoard, for any number of peers, pieces,     *)
(* chunks and files, when files are neither reselected nor streamed and no   *)
(* read of a hash check fails.                                               *)

\* The pieces whose bytes on disk are right.
Intact == {x \in Piece : disk[x] = Chunk}

USE DEF Checking

\* The torrent has stopped with an error.
Failed == phase = "error"

\* A step that leaves the pieces, their owners, the disk and the set of checks
\* alone is a step of nothing on the board.
LEMMA BoardStutter ==
  ASSUME UNCHANGED <<have, inflight, disk>>, BeingChecked' = BeingChecked, Failed' = Failed
  PROVE  UNCHANGED Board!vars
  BY DEF Board!vars, PieceStatus, Failed

\* While peers' tasks run the torrent has not stopped, and none of their steps stops it.
LEMMA PeersDoNotStop ==
  ASSUME NEW p \in Peer, PeerStep(p)
  PROVE  ~Failed /\ ~Failed' /\ Failed' = Failed
<1>1. Running /\ phase' \in {phase, "fatal"}
  <2>1. CASE \/ Connect(p) \/ (\E b \in BOOLEAN : SetChoked(p, b))
            \/ (\E r \in requests[p] : ReceiveChunk(p, r)) \/ PeerDied(p)
    BY <2>1 DEF Connect, SetChoked, ReceiveChunk, PeerDied
  <2>2. CASE RequesterStep(p)
    BY <2>2 DEF RequesterStep, Reserve, Steal, CheckFinished, AcquireNothing, OnSteal, RequestChunk,
                CanAcquire, RequesterIdle
  <2>3. CASE WriterStep(p)
    BY <2>3 DEF WriterStep, CheckSteal, WriteChunk, WriteError, MarkChunk, HashCheck, MarkHashOk,
                MarkHashFailed, OnPieceCompleted, DisconnectSeeds
  <2> QED
    BY <2>1, <2>2, <2>3 DEF PeerStep
<1> QED
  BY <1>1 DEF Running, Failed

\* Steps that do not move a task of on_received_piece into or out of a check
\* leave the set of checks alone.
LEMMA SameChecks ==
  ASSUME TypeOK, TypeOK',
         \A q \in Peer : \/ at'[q] = at[q] /\ job'[q] = job[q]
                         \/ ~Checking(q) /\ at'[q] \notin {"hash", "ok", "broken"}
                         \/ /\ Checking(q) /\ at'[q] \in {"hash", "ok", "broken"}
                            /\ job'[q] = job[q]
  PROVE  BeingChecked' = BeingChecked
  BY DEF BeingChecked

\* A piece that is claimed is not being checked.
LEMMA ClaimedUnchecked ==
  ASSUME Inductive, NEW x \in Piece, inflight[x] # None
  PROVE  x \notin BeingChecked /\ x \notin have
  BY DEF Inductive, CheckerExclusive, PieceStatesDisjoint, BeingChecked

\* The requester of a peer only claims.
LEMMA BoardRequester ==
  ASSUME Inductive, TypeOK', NEW p \in Peer,
         \/ Connect(p) \/ (\E b \in BOOLEAN : SetChoked(p, b))
         \/ RequesterStep(p) \/ (\E r \in requests[p] : ReceiveChunk(p, r))
  PROVE  [Board!Next]_(Board!vars)
<1>0. TypeOK /\ p # None
  BY ConstantsAssumption DEF Inductive, ConstantsAssumption
<1>f. ~Failed /\ ~Failed' /\ Failed' = Failed
  BY PeersDoNotStop DEF PeerStep
<1>1. ASSUME NEW x \in Piece, Reserve(p, x) \/ Steal(p, x) PROVE Board!Claim(p, x)
  <2>1. /\ inflight' = [inflight EXCEPT ![x] = p]
        /\ UNCHANGED <<have, disk, at, job>>
    BY <1>1 DEF Reserve, Steal, tracker, writer
  <2>2. BeingChecked' = BeingChecked
    BY <1>0, <2>1, SameChecks
  <2>3. x \notin BeingChecked /\ x \notin have
    <3>1. CASE Steal(p, x)
      BY <3>1, ClaimedUnchecked DEF Steal
    <3>2. CASE Reserve(p, x)
      <4>1. x \in queued
        BY <3>2 DEF Reserve, Candidates, PriorityPieces, SelectedPieces, QueuedPieces, Inductive
      <4> QED
        BY <4>1 DEF Inductive, CheckerExclusive, PieceStatesDisjoint, BeingChecked
    <3> QED
      BY <1>1, <3>1, <3>2
  <2>4. PieceStatus[x] \in {"missing", "claimed"}
    BY <2>3 DEF PieceStatus
  <2>5. PieceStatus' = [PieceStatus EXCEPT ![x] = "claimed"]
    BY <1>0, <2>1, <2>2, <2>3 DEF PieceStatus, TypeOK
  <2> QED
    BY <1>f, <2>1, <2>4, <2>5 DEF Board!Claim, Failed
<1>2. ASSUME NEW r \in requests[p], ReceiveChunk(p, r) PROVE UNCHANGED Board!vars
  <2>1. BeingChecked' = BeingChecked
    BY <1>0, <1>2, SameChecks DEF ReceiveChunk, TypeOK
  <2> QED
    BY <1>2, <1>f, <2>1, BoardStutter DEF ReceiveChunk, tracker
<1>3. ASSUME UNCHANGED <<have, inflight, disk, at, job>> PROVE UNCHANGED Board!vars
  BY <1>0, <1>3, <1>f, SameChecks, BoardStutter
<1>4. CASE Connect(p)
  BY <1>3, <1>4 DEF Connect, tracker, writer
<1>5. ASSUME NEW b \in BOOLEAN, SetChoked(p, b) PROVE UNCHANGED Board!vars
  BY <1>3, <1>5 DEF SetChoked, tracker, writer
<1>6. CASE CheckFinished(p)
  BY <1>3, <1>6 DEF CheckFinished, tracker, writer
<1>7. CASE AcquireNothing(p)
  BY <1>3, <1>7 DEF AcquireNothing, tracker, writer
<1>8. CASE OnSteal(p)
  BY <1>3, <1>8 DEF OnSteal, tracker, writer
<1>9. ASSUME NEW r \in todo[p], RequestChunk(p, r) PROVE UNCHANGED Board!vars
  BY <1>3, <1>9 DEF RequestChunk, tracker, writer
<1> QED
  BY <1>1, <1>2, <1>4, <1>5, <1>6, <1>7, <1>8, <1>9 DEF RequesterStep, Board!Next

\* write_to_disk writes claimed pieces, submits and judges them; a peer that
\* dies gives its pieces back.
LEMMA BoardWriter ==
  ASSUME Inductive, Inductive', ReadsSucceed, NEW p \in Peer, WriterStep(p) \/ PeerDied(p)
  PROVE  [Board!Next]_(Board!vars)
<1>0. /\ TypeOK /\ TypeOK' /\ p # None
      /\ at[p] \notin {"idle", "dying"} => job[p] \in Piece \X Chunk /\ job[p][1] \in Piece
  BY ConstantsAssumption DEF Inductive, TypeOK, ConstantsAssumption
<1>f. ~Failed /\ ~Failed' /\ Failed' = Failed
  BY PeersDoNotStop DEF PeerStep
<1>1. ASSUME UNCHANGED <<have, inflight, disk>>,
             \A q \in Peer \ {p} : at'[q] = at[q] /\ job'[q] = job[q],
             \/ ~Checking(p) /\ at'[p] \notin {"hash", "ok", "broken"}
             \/ Checking(p) /\ at'[p] \in {"hash", "ok", "broken"} /\ job'[p] = job[p]
      PROVE  UNCHANGED Board!vars
  BY <1>0, <1>1, <1>f, SameChecks, BoardStutter
<1>2. CASE CheckSteal(p)
  BY <1>0, <1>1, <1>2 DEF CheckSteal, GoTo, Finish, tracker, TypeOK
<1>3. CASE WriteChunk(p)
  <2> DEFINE x == job[p][1]
  <2>1. x \in Piece /\ inflight[x] = p /\ UNCHANGED <<have, inflight>>
    BY <1>0, <1>3 DEF WriteChunk, tracker, Inductive, PieceLockProtects
  <2>2. BeingChecked' = BeingChecked
    BY <1>0, <1>3, SameChecks DEF WriteChunk, GoTo, TypeOK
  <2>3. PieceStatus' = PieceStatus /\ PieceStatus[x] = "claimed"
    BY <1>0, <2>1, <2>2, ClaimedUnchecked DEF PieceStatus
  <2>4. \A y \in Piece : y # x => disk'[y] = disk[y]
    BY <1>0, <1>3 DEF WriteChunk, TypeOK
  <2>5. Intact' \in {Intact, Intact \cup {x}, Intact \ {x}}
    BY <2>1, <2>4 DEF Intact
  <2> QED
    BY <1>f, <2>1, <2>3, <2>5 DEF Board!Next, Board!Write, Intact, Failed
<1>4. CASE WriteError(p)
  BY <1>0, <1>1, <1>4 DEF WriteError, Fail, tracker, TypeOK
<1>5. CASE MarkChunk(p)
  <2> DEFINE x == job[p][1]
  <2>1. CASE Finish(p) /\ UNCHANGED inflight
    BY <1>0, <1>1, <1>5, <2>1 DEF MarkChunk, Finish, TypeOK
  <2>2. CASE /\ inflight' = [inflight EXCEPT ![x] = None]
             /\ IF inflight[x] # None THEN GoTo(p, "hash") ELSE Finish(p)
    <3>1. x \in Piece /\ inflight[x] = p /\ x \notin have /\ x \notin BeingChecked
      BY <1>0, <1>5, ClaimedUnchecked DEF MarkChunk, Inductive, PieceLockProtects
    <3>2. GoTo(p, "hash") /\ at[p] = "mark" /\ UNCHANGED <<have, disk>>
      BY <1>0, <1>5, <2>2, <3>1 DEF MarkChunk
    <3>3. BeingChecked' = BeingChecked \cup {x}
      BY <1>0, <3>1, <3>2 DEF BeingChecked, GoTo, TypeOK
    <3>4. /\ PieceStatus[x] = "claimed"
          /\ PieceStatus' = [PieceStatus EXCEPT ![x] = "checking"]
      BY <1>0, <2>2, <3>1, <3>2, <3>3, ZenonT(40) DEF PieceStatus, TypeOK
    <3> QED
      BY <1>f, <2>2, <3>1, <3>2, <3>4 DEF Board!Next, Board!Submit, Failed
  <2> QED
    BY <1>5, <2>1, <2>2 DEF MarkChunk
<1>6. CASE HashCheck(p)
  BY <1>0, <1>1, <1>6 DEF HashCheck, GoTo, tracker, TypeOK, ReadsSucceed
<1>7. CASE MarkHashOk(p) \/ MarkHashFailed(p)
  <2> DEFINE x == job[p][1]
  <2>1. /\ x \in Piece /\ Checking(p) /\ UNCHANGED <<inflight, disk>>
        /\ inflight[x] = None /\ x \in BeingChecked
        /\ at'[p] \notin {"hash", "ok", "broken"}
        /\ \A q \in Peer \ {p} : at'[q] = at[q] /\ job'[q] = job[q]
    BY <1>0, <1>7 DEF MarkHashOk, MarkHashFailed, GoTo, Fail, TypeOK, BeingChecked,
                      Inductive, CheckerExclusive
  <2>2. have' = IF x \in Intact THEN have \cup {x} ELSE have
    <3>1. CASE MarkHashOk(p)
      <4>1. disk[x] = Chunk
        BY <3>1 DEF MarkHashOk, Inductive, VerdictHolds
      <4> QED
        BY <2>1, <3>1, <4>1 DEF MarkHashOk, Intact
    <3>2. CASE MarkHashFailed(p)
      <4>1. disk[x] # Chunk
        BY <3>2 DEF MarkHashFailed, Inductive, VerdictHolds
      <4> QED
        BY <2>1, <3>2, <4>1 DEF MarkHashFailed, Intact
    <3> QED
      BY <1>7, <3>1, <3>2
  <2>3. BeingChecked' = BeingChecked \ {x}
    <3>1. \A q \in Peer \ {p} : Checking(q) => job[q][1] # x
      BY <2>1 DEF Inductive, CheckerExclusive
    <3>2. \A q \in Peer : at'[q] \in {"hash", "ok", "broken"} => q # p
      BY <2>1
    <3> QED
      BY <2>1, <3>1, <3>2 DEF BeingChecked
  <2>4. CASE x \in have
    BY <1>f, <2>1, <2>2, <2>3, <2>4 DEF Board!vars, PieceStatus, Intact, Inductive, HaveIsVerified, Failed
  <2>5. CASE x \notin have
    <3>1. /\ PieceStatus[x] = "checking"
          /\ PieceStatus' = [PieceStatus EXCEPT ![x] = IF x \in Intact THEN "had" ELSE "missing"]
      BY <1>0, <2>1, <2>2, <2>3, <2>5 DEF PieceStatus
    <3> QED
      BY <1>f, <2>1, <3>1 DEF Board!Next, Board!Judge, Intact, Failed
  <2> QED
    BY <2>4, <2>5
<1>8. CASE OnPieceCompleted(p)
  <2>1. GoTo(p, "disconnect") \/ Finish(p)
    BY <1>8, Zenon DEF OnPieceCompleted
  <2> QED
    BY <1>0, <1>1, <1>8, <2>1 DEF OnPieceCompleted, GoTo, Finish, TypeOK
<1>9. CASE DisconnectSeeds(p)
  BY <1>0, <1>1, <1>9 DEF DisconnectSeeds, Finish, tracker, TypeOK
<1>10. CASE PeerDied(p)
  <2>0. /\ ~Checking(p) /\ at'[p] = "idle" /\ UNCHANGED <<have, disk>>
        /\ \A q \in Peer \ {p} : at'[q] = at[q] /\ job'[q] = job[q]
    BY <1>0, <1>10 DEF PeerDied, Finish, TypeOK
  <2>1. CASE UNCHANGED inflight
    BY <1>1, <2>0, <2>1
  <2>2. CASE ReleasePieces(p)
    <3> DEFINE mine == {x \in Piece : inflight[x] = p}
    <3>1. inflight' = [x \in Piece |-> IF x \in mine THEN None ELSE inflight[x]]
      BY <2>2 DEF ReleasePieces
    <3>2. BeingChecked' = BeingChecked
      BY <1>0, <2>0, SameChecks
    <3>3. \A x \in mine : PieceStatus[x] = "claimed" /\ x \notin have /\ x \notin BeingChecked
      BY <1>0, ClaimedUnchecked DEF PieceStatus
    <3>4. PieceStatus' = [x \in Piece |-> IF x \in mine THEN "missing" ELSE PieceStatus[x]]
      BY <1>0, <2>0, <3>1, <3>2, <3>3 DEF PieceStatus
    <3> QED
      BY <1>f, <2>0, <3>1, <3>3, <3>4 DEF Board!Next, Board!GiveBack, Failed
  <2> QED
    BY <1>10, <2>1, <2>2 DEF PeerDied
<1> QED
  BY <1>2, <1>3, <1>4, <1>5, <1>6, <1>7, <1>8, <1>9, <1>10 DEF WriterStep

\* A pause and a fatal error stop the board; a restart reloads it.
LEMMA BoardTorrent ==
  ASSUME Inductive, Inductive', NoSelectNoStream, TorrentStep
  PROVE  [Board!Next]_(Board!vars)
<1>0. TypeOK /\ TypeOK'
  BY DEF Inductive
<1>1. CASE Pause \/ StopWithError
  <2>1. /\ inflight' = [x \in Piece |-> None] /\ BeingChecked' = {}
        /\ UNCHANGED <<have, disk>> /\ ~Failed
    BY <1>1 DEF Pause, StopWithError, StopPeers, BeingChecked, tracker, Failed, Running
  <2>2. PieceStatus' = [x \in Piece |-> IF PieceStatus[x] = "had" THEN "had" ELSE "missing"]
    BY <2>1 DEF PieceStatus
  <2>3. (phase' = "error") \in BOOLEAN
    OBVIOUS
  <2> QED
    BY <2>1, <2>2, <2>3 DEF Board!Next, Board!Stop, Failed
<1>2. CASE Resume
  <2>1. UNCHANGED <<have, inflight, disk>> /\ BeingChecked' = BeingChecked /\ Failed' = Failed
    BY <1>2 DEF Resume, tracker, writer, BeingChecked, Failed
  <2> QED
    BY <2>1, BoardStutter
<1>3. CASE Restart
  <2> DEFINE had == {x \in Piece : PieceStatus[x] = "had"}
  <2>1. PICK h \in (SUBSET have) \cup {Intact} : have' = h
    BY <1>3 DEF Restart, NewTracker, Intact
  <2>2. /\ UNCHANGED <<inflight, disk>> /\ BeingChecked' = {} /\ Failed /\ ~Failed'
        /\ \A x \in Piece : inflight[x] = None
    BY <1>3 DEF Restart, writer, BeingChecked, Inductive, Quiescent, Running, Failed
  <2>3. had = have /\ have \subseteq Intact
    BY <1>0 DEF PieceStatus, Intact, Inductive, HaveIsVerified, TypeOK
  <2>4. PieceStatus' = [x \in Piece |-> IF x \in h THEN "had" ELSE "missing"]
    BY <2>1, <2>2 DEF PieceStatus
  <2>5. Intact' = Intact
    BY <2>2 DEF Intact
  <2> QED
    BY <2>1, <2>2, <2>3, <2>4, <2>5 DEF Board!Next, Board!Reload, Intact, Failed
<1>4. ASSUME NEW files \in SUBSET File, UpdateOnlyFiles(files) PROVE FALSE
  BY <1>4 DEF UpdateOnlyFiles, NoSelectNoStream
<1>5. ASSUME NEW f \in File, SetStream(f) PROVE FALSE
  BY <1>5 DEF SetStream, NoSelectNoStream
<1> QED
  BY <1>1, <1>2, <1>3, <1>4, <1>5 DEF TorrentStep

\* The piece bookkeeping of a live torrent implements PieceBoard: with any
\* number of peers that steal, choke, send wrong data and die, across pauses,
\* fatal errors and restarts, a piece is written only while it is claimed, is
\* judged by the bytes it has, and stays had until the torrent fails; the restart
\* after a failure, from a stored bitfield of whatever age or from a full check,
\* never has a piece whose bytes are wrong.
THEOREM DownloadImplementsBoard == NoSelectNoStream /\ ReadsSucceed => (Spec => ImplementsBoard)
<1> SUFFICES ASSUME NoSelectNoStream, ReadsSucceed PROVE Spec => ImplementsBoard
  OBVIOUS
<1>1. Init => Board!Init
  BY ConstantsAssumption DEF Init, Board!Init, PieceStatus, BeingChecked, ConstantsAssumption
<1>2. Inductive /\ Inductive' /\ [Next]_vars => [Board!Next]_(Board!vars)
  <2> SUFFICES ASSUME Inductive, Inductive', [Next]_vars PROVE [Board!Next]_(Board!vars)
    OBVIOUS
  <2>1. TypeOK'
    BY DEF Inductive
  <2>2. ASSUME NEW p \in Peer, PeerStep(p) PROVE [Board!Next]_(Board!vars)
    BY <2>1, <2>2, BoardRequester, BoardWriter DEF PeerStep
  <2>3. CASE UNCHANGED vars
    BY <2>3, BoardStutter DEF vars, tracker, writer, BeingChecked, Failed
  <2> QED
    BY <2>2, <2>3, BoardTorrent DEF Next
<1> QED
  BY <1>1, <1>2, InductiveInvariant, PTL DEF Spec, ImplementsBoard, Board!Spec
=============================================================================
