---------------------------- MODULE StreamsProofs ----------------------------
(* Machine-checked proofs about Streams, for any layout of files and pieces, *)
(* any number of streams and waiters, any buffer and look-ahead.             *)
EXTENDS Streams, TLAPS

\* A stream that has no permit yet is at the start, and none is past its file.
PositionInFile ==
  \A s \in Stream :
    /\ position[s] <= Len[file[s]]
    /\ task[s] \in {"none", "permit"} => position[s] = 0

\* A parked reader has left its waker in a table that is still used.
ParkedIsRegistered ==
  /\ state = "error" => "error" \in faults
  /\ "error" \notin faults => \A s \in Stream : current[s]
  /\ \A s \in Stream : task[s] = "parked" => waker[s] /\ ~AtEnd(s)

\* Nobody is followed who waits for a live torrent that has ended.
WaitersOfLive == state # "live" => \A w \in Waiter : waiter[w] = "idle"

StreamsInv ==
  /\ TypeOK /\ PositionInFile /\ ParkedIsRegistered /\ WaitersOfLive
  /\ NoLostWakeup /\ WaitersAreTold

-----------------------------------------------------------------------------
(* Arithmetic of pieces *)

\* A byte is in its piece: Euclidean division.
LEMMA DivMod ==
  ASSUME NEW a \in Nat, NEW d \in Nat \ {0}
  PROVE  /\ a \div d \in Nat /\ a % d \in 0..(d - 1)
         /\ a = (a \div d) * d + (a % d)
  OBVIOUS

\* Bytes that are not further from the start of the piece than its length are in it.
LEMMA SamePiece ==
  ASSUME NEW d \in Nat \ {0}, NEW q \in Nat, NEW b \in Nat, q * d <= b, b < q * d + d
  PROVE  b \div d = q
  OBVIOUS

\* compute_selected_pieces: the pieces of files are pieces of the torrent.
LEMMA SelectionIsPieces ==
  ASSUME NEW files \in OnlyFiles
  PROVE  PiecesOf(files) \subseteq Piece
<1> SUFFICES ASSUME NEW f \in files, NEW b \in Offset[f] .. (Offset[f] + Len[f] - 1)
             PROVE  PieceOf(b) \in Piece
  BY DEF PiecesOf, FilePieces
<1>1. /\ f \in File /\ Offset[f] \in Nat /\ Len[f] \in Nat /\ TotalLength \in Nat
      /\ Offset[f] + Len[f] <= TotalLength
  BY ConstantsAssumption DEF ConstantsAssumption
<1>2. b \in 0..(TotalLength - 1)
  BY <1>1
<1> QED
  BY <1>2 DEF Piece

\* A stream before the end of its file is inside the torrent.
LEMMA InsideTorrent ==
  ASSUME TypeOK, PositionInFile, NEW s \in Stream, ~AtEnd(s)
  PROVE  /\ AbsPosition(s) \in Nat /\ AbsPosition(s) < TotalLength
         /\ position[s] \in Nat /\ Len[file[s]] \in Nat /\ position[s] < Len[file[s]]
  BY ConstantsAssumption DEF TypeOK, PositionInFile, AtEnd, AbsPosition, ConstantsAssumption

\* compute_current_piece: a read delivers at least one byte, stays in the file, and
\* all its bytes are in the current piece.
LEMMA ReadStaysInPiece ==
  ASSUME TypeOK, PositionInFile, NEW s \in Stream, ~AtEnd(s)
  PROVE  /\ BytesToRead(s) \in Nat \ {0}
         /\ position[s] + BytesToRead(s) <= Len[file[s]]
         /\ \A b \in AbsPosition(s) .. (AbsPosition(s) + BytesToRead(s) - 1) :
              PieceOf(b) = CurrentPiece(s)
<1> DEFINE a == AbsPosition(s)
           q == CurrentPiece(s)
           r == a % PieceLength
<1>1. /\ a \in Nat /\ a < TotalLength
      /\ position[s] \in Nat /\ Len[file[s]] \in Nat /\ position[s] < Len[file[s]]
  BY InsideTorrent
<1>2. PieceLength \in Nat \ {0} /\ TotalLength \in Nat /\ BufLen \in Nat \ {0}
  BY ConstantsAssumption DEF ConstantsAssumption
<1>3. q \in Nat /\ r \in 0..(PieceLength - 1) /\ a = q * PieceLength + r
  BY <1>1, <1>2, DivMod DEF CurrentPiece, PieceOf
<1>4. q * PieceLength \in Nat
  BY <1>2, <1>3
<1>5. /\ PieceRemaining(s) \in Nat \ {0}
      /\ PieceRemaining(s) <= PieceLength - r
  <2> HIDE DEF q, r
  <2>1. PieceRemaining(s) = Min2(PieceLength, TotalLength - q * PieceLength) - r
    BY DEF PieceRemaining, q, r
  <2> QED
    BY <1>1, <1>2, <1>3, <1>4, <2>1 DEF Min2
<1>6. /\ BytesToRead(s) \in Nat \ {0} /\ BytesToRead(s) <= PieceLength - r
      /\ position[s] + BytesToRead(s) <= Len[file[s]]
  BY <1>1, <1>2, <1>3, <1>5 DEF BytesToRead, Min2
<1>7. ASSUME NEW b \in a .. (a + BytesToRead(s) - 1) PROVE PieceOf(b) = q
  <2>1. b \in Nat /\ q * PieceLength <= b /\ b < q * PieceLength + PieceLength
    <3> HIDE DEF a, q, r
    <3> QED BY <1>1, <1>2, <1>3, <1>4, <1>6
  <2> QED
    BY <1>2, <1>3, <2>1, SamePiece DEF PieceOf
<1> QED
  BY <1>6, <1>7

-----------------------------------------------------------------------------
(* Types and positions *)

\* The initial state is well typed.
LEMMA TypeInit == Init => TypeOK /\ PositionInFile
<1>1. FirstFile \in File
  BY ConstantsAssumption DEF FirstFile, ConstantsAssumption
<1> QED
  BY <1>1, ConstantsAssumption, SelectionIsPieces DEF Init, TypeOK, PositionInFile, ConstantsAssumption

\* Every step keeps the types.
LEMMA TypeStep ==
  ASSUME TypeOK, PositionInFile, [Next]_vars
  PROVE  TypeOK' /\ PositionInFile'
<1> USE DEF TypeOK, PositionInFile
<1>0. /\ FirstFile \in File /\ TotalLength \in Nat
      /\ Len \in [File -> 0..TotalLength]
  BY ConstantsAssumption DEF FirstFile, ConstantsAssumption
<1>1. ASSUME NEW s \in Stream, NEW f \in File, StreamFile(s, f) PROVE TypeOK' /\ PositionInFile'
  BY <1>0, <1>1 DEF StreamFile, torrent
<1>2. ASSUME NEW s \in Stream, Acquire(s) PROVE TypeOK' /\ PositionInFile'
  BY <1>0, <1>2 DEF Acquire, Reconnected
<1>12. ASSUME NEW s \in Stream, Insert(s) PROVE TypeOK' /\ PositionInFile'
  BY <1>0, <1>12 DEF Insert, torrent
<1>3. ASSUME NEW s \in Stream, PollPending(s) PROVE TypeOK' /\ PositionInFile'
  BY <1>0, <1>3 DEF PollPending, torrent
<1>4. ASSUME NEW s \in Stream, PollRead(s) PROVE TypeOK' /\ PositionInFile'
  <2>1. /\ BytesToRead(s) \in Nat \ {0} /\ position[s] + BytesToRead(s) <= Len[file[s]]
    BY <1>4, ReadStaysInPiece DEF PollRead
  <2> QED
    BY <1>0, <1>4, <2>1 DEF PollRead, torrent
<1>5. ASSUME NEW s \in Stream, Drop(s) PROVE TypeOK' /\ PositionInFile'
  BY <1>0, <1>5 DEF Drop, torrent
<1>6. ASSUME NEW s \in Stream, NEW pos \in 0..TotalLength, Seek(s, pos)
      PROVE TypeOK' /\ PositionInFile'
  BY <1>0, <1>6 DEF Seek, Open, torrent
<1>7. ASSUME NEW p \in Piece, PieceStep(p) PROVE TypeOK' /\ PositionInFile'
  <2>1. CASE StartWrite(p)
    BY <2>1 DEF StartWrite, stream, torrent
  <2>2. CASE MarkPieceHashOk(p)
    BY <2>2 DEF MarkPieceHashOk, stream, torrent
  <2>3. CASE OnPieceCompleted(p)
    BY <2>3 DEF OnPieceCompleted
  <2>4. CASE StaleWriteEnds(p)
    BY <2>4 DEF StaleWriteEnds, stream, torrent
  <2> QED
    BY <1>7, <2>1, <2>2, <2>3, <2>4 DEF PieceStep
<1>8. ASSUME NEW w \in Waiter, WaiterStep(w) PROVE TypeOK' /\ PositionInFile'
  BY <1>8 DEF WaiterStep, FindLive, CheckFinished, Subscribe, stream, torrent
<1>9. CASE Pause \/ Unpause
  BY <1>9 DEF Pause, Unpause, StopLive, stream
<1>10. CASE StopWithError \/ Restart
  BY <1>10 DEF StopWithError, Restart, StopLive, stream
<1>13. CASE NothingToRequest \/ Disconnect
  BY <1>13 DEF NothingToRequest, Disconnect, stream
<1>14. ASSUME NEW files \in OnlyFiles, UpdateOnlyFiles(files) PROVE TypeOK' /\ PositionInFile'
  <2>1. PiecesOf(files) \subseteq Piece
    BY SelectionIsPieces
  <2> QED
    BY <1>14, <2>1 DEF UpdateOnlyFiles, Reconnected, stream
<1>11. CASE UNCHANGED vars
  BY <1>11 DEF vars, stream, torrent
<1> QED
  BY <1>1, <1>2, <1>3, <1>4, <1>5, <1>6, <1>7, <1>8, <1>9, <1>10, <1>11, <1>12, <1>13, <1>14 DEF Next, StreamStep

-----------------------------------------------------------------------------
(* Wake-ups *)

\* Steps of the streams' readers: a reader parks itself only on a piece that is
\* missing, under the lock that a completion needs.
LEMMA ReaderStep ==
  ASSUME StreamsInv, TypeOK', PositionInFile', NEW s \in Stream, StreamStep(s)
  PROVE  StreamsInv'
<1> USE DEF ParkedIsRegistered, NoLostWakeup, WaitersAreTold, Finished
<1>0. /\ TypeOK /\ PositionInFile /\ ParkedIsRegistered /\ NoLostWakeup /\ WaitersAreTold
      /\ WaitersOfLive
  BY DEF StreamsInv
<1>1. /\ UNCHANGED <<permits, state, selected, have, writing, waiter>>
      /\ faults' = faults \/ faults' = faults \cup {"stranded"}
      /\ \A t \in Stream \ {s} : /\ task'[t] = task[t] /\ file'[t] = file[t]
                                 /\ position'[t] = position[t]
                                 /\ waker'[t] = waker[t] /\ current'[t] = current[t]
  BY <1>0 DEF StreamStep, StreamFile, Acquire, Insert, PollPending, PollRead, Drop, Seek, TypeOK, torrent
<1>2. current'[s] = current[s] \/ current'[s] = TRUE
  BY <1>0 DEF StreamStep, StreamFile, Acquire, Insert, PollPending, PollRead, Drop, Seek, TypeOK, torrent
<1>3. task'[s] = "parked" => waker'[s] /\ ~AtEnd(s)' /\ CurrentPiece(s)' \notin have
  BY <1>0 DEF StreamStep, StreamFile, Acquire, Insert, PollPending, PollRead, Drop, Seek, TypeOK, torrent,
     AtEnd, CurrentPiece, AbsPosition
<1>4. ParkedIsRegistered'
  BY <1>0, <1>1, <1>2, <1>3 DEF AtEnd
<1>5. NoLostWakeup'
  BY <1>0, <1>1, <1>3 DEF CurrentPiece, AbsPosition
<1>6. WaitersAreTold'
  BY <1>0, <1>1
<1>7. WaitersOfLive'
  BY <1>0, <1>1 DEF WaitersOfLive
<1> QED
  BY <1>4, <1>5, <1>6, <1>7 DEF StreamsInv

\* Steps of write_to_disk: a piece becomes available when it is marked, and whoever
\* is parked on it is woken when the call goes on.
LEMMA WriterStep ==
  ASSUME StreamsInv, TypeOK', PositionInFile', NEW p \in Piece, PieceStep(p)
  PROVE  StreamsInv'
<1> USE DEF ParkedIsRegistered, NoLostWakeup, WaitersAreTold, Finished
<1>0. /\ TypeOK /\ PositionInFile /\ ParkedIsRegistered /\ NoLostWakeup /\ WaitersAreTold
      /\ WaitersOfLive
  BY DEF StreamsInv
<1>1. UNCHANGED <<permits, state, selected, file, position, current, faults>>
  BY DEF PieceStep, StartWrite, MarkPieceHashOk, OnPieceCompleted, StaleWriteEnds, stream, torrent
<1>9. WaitersOfLive'
  BY <1>0, <1>1 DEF WaitersOfLive, PieceStep, StartWrite, MarkPieceHashOk, OnPieceCompleted,
     StaleWriteEnds, stream, TypeOK, Notified
<1>2. \A s \in Stream : AtEnd(s)' = AtEnd(s) /\ CurrentPiece(s)' = CurrentPiece(s)
  BY <1>1 DEF AtEnd, CurrentPiece, AbsPosition
<1>3. CASE StartWrite(p) \/ StaleWriteEnds(p)
  <2>1. /\ writing[p] \in {"no", "stale"} /\ UNCHANGED <<have, task, waker, waiter>>
        /\ \A x \in Piece \ {p} : writing'[x] = writing[x]
        /\ writing'[p] \in {"no", "write"}
    BY <1>0, <1>3 DEF StartWrite, StaleWriteEnds, Wanted, stream, TypeOK
  <2>2. ParkedIsRegistered'
    BY <1>0, <1>1, <1>2, <2>1
  <2>3. NoLostWakeup'
    BY <1>0, <1>1, <1>2, <2>1 DEF TypeOK
  <2>4. WaitersAreTold'
    BY <1>0, <1>1, <2>1
  <2> QED
    BY <1>9, <2>2, <2>3, <2>4 DEF StreamsInv
<1>4. CASE MarkPieceHashOk(p)
  <2>1. /\ have' = have \cup {p} /\ UNCHANGED <<task, waker, waiter>>
        /\ \A x \in Piece \ {p} : writing'[x] = writing[x]
        /\ writing'[p] = "marked"
    BY <1>0, <1>4 DEF MarkPieceHashOk, stream, TypeOK
  <2>2. ParkedIsRegistered'
    BY <1>0, <1>1, <1>2, <2>1
  <2>3. NoLostWakeup'
    BY <1>0, <1>1, <1>2, <2>1 DEF TypeOK
  <2>4. WaitersAreTold'
    BY <2>1
  <2> QED
    BY <1>9, <2>2, <2>3, <2>4 DEF StreamsInv
<1>5. CASE OnPieceCompleted(p)
  <2>1. /\ UNCHANGED have
        /\ \A x \in Piece \ {p} : writing'[x] = writing[x]
    BY <1>0, <1>5 DEF OnPieceCompleted, TypeOK
  <2>2. \A s \in Stream : task'[s] = "parked" =>
          task[s] = "parked" /\ (waker[s] => waker'[s] /\ s \notin Woken(p))
    BY <1>0, <1>5 DEF OnPieceCompleted, TypeOK
  <2>3. ParkedIsRegistered'
    BY <1>0, <1>1, <1>2, <2>2
  <2>4. NoLostWakeup'
    <3> SUFFICES ASSUME faults \cap {"cut", "error"} = {}, NEW s \in Stream,
                        task'[s] = "parked", CurrentPiece(s) \in have
                 PROVE  writing'[CurrentPiece(s)] = "marked"
      BY <1>1, <1>2, <2>1
    <3>1. s \notin Woken(p) /\ waker[s] /\ ~AtEnd(s) /\ current[s]
      BY <1>0, <2>2
    <3>2. CurrentPiece(s) # p
      BY <3>1 DEF Woken
    <3> QED
      BY <1>0, <2>1, <2>2, <3>2 DEF TypeOK
  <2>5. WaitersAreTold'
    <3>1. Finished' => \A w \in Waiter : waiter'[w] # "waiting"
      BY <1>0, <1>5, <2>1 DEF OnPieceCompleted, Notified, TypeOK
    <3> QED
      BY <3>1
  <2> QED
    BY <1>9, <2>3, <2>4, <2>5 DEF StreamsInv
<1> QED
  BY <1>3, <1>4, <1>5 DEF PieceStep

\* Steps of the callers of wait_until_completed, and of the torrent.
LEMMA TorrentStep ==
  ASSUME StreamsInv, TypeOK', PositionInFile',
         \/ \E w \in Waiter : WaiterStep(w)
         \/ NothingToRequest \/ Disconnect
         \/ Pause \/ Unpause \/ StopWithError \/ Restart \/ UNCHANGED vars
         \/ \E files \in OnlyFiles : UpdateOnlyFiles(files)
  PROVE  StreamsInv'
<1> USE DEF ParkedIsRegistered, NoLostWakeup, WaitersAreTold, Finished
<1>0. /\ TypeOK /\ PositionInFile /\ ParkedIsRegistered /\ NoLostWakeup /\ WaitersAreTold
      /\ WaitersOfLive
  BY DEF StreamsInv
<1>1. UNCHANGED <<task, file, position, waker>>
  BY DEF WaiterStep, FindLive, CheckFinished, Subscribe, Pause, Unpause, StopWithError,
     Restart, UpdateOnlyFiles, NothingToRequest, Disconnect, vars, stream
<1>2. \A s \in Stream : AtEnd(s)' = AtEnd(s) /\ CurrentPiece(s)' = CurrentPiece(s)
  BY <1>1 DEF AtEnd, CurrentPiece, AbsPosition
<1>3. ASSUME NEW w \in Waiter, WaiterStep(w) PROVE StreamsInv'
  <2>1. /\ UNCHANGED <<state, selected, have, writing, current>> /\ faults \subseteq faults'
        /\ faults' \subseteq faults \cup {"missed"}
    BY <1>3 DEF WaiterStep, FindLive, CheckFinished, Subscribe, stream, torrent
  <2>2. ParkedIsRegistered' /\ NoLostWakeup'
    BY <1>0, <1>1, <1>2, <2>1
  <2>3. WaitersAreTold'
    BY <1>0, <1>3, <2>1 DEF WaiterStep, FindLive, CheckFinished, Subscribe, TypeOK
  <2>4. WaitersOfLive'
    BY <1>0, <1>3, <2>1 DEF WaiterStep, FindLive, CheckFinished, Subscribe, TypeOK, WaitersOfLive
  <2> QED
    BY <2>2, <2>3, <2>4 DEF StreamsInv
<1>4. CASE Pause
  <2>1. /\ UNCHANGED <<have, current>> /\ faults' = faults \cup Cut /\ state' = "paused"
        /\ \A w \in Waiter : waiter'[w] = "idle"
    BY <1>0, <1>4 DEF Pause, StopLive, stream, TypeOK
  <2>2. ParkedIsRegistered' /\ WaitersAreTold' /\ WaitersOfLive'
    BY <1>0, <1>1, <1>2, <2>1 DEF Cut, WaitersOfLive
  <2>3. NoLostWakeup'
    BY <1>0, <1>1, <1>2, <2>1 DEF Cut, TypeOK
  <2> QED
    BY <2>2, <2>3 DEF StreamsInv
<1>5. CASE Unpause
  <2>1. UNCHANGED <<have, selected, writing, current, waiter, faults>> /\ state' = "live"
    BY <1>5 DEF Unpause, stream
  <2> QED
    BY <1>0, <1>1, <1>2, <2>1 DEF StreamsInv, WaitersOfLive
<1>6. CASE StopWithError
  <2>1. /\ "error" \in faults' /\ \A w \in Waiter : waiter'[w] = "idle"
    BY <1>0, <1>6 DEF StopWithError, StopLive
  <2> QED
    BY <1>0, <1>1, <1>2, <2>1 DEF StreamsInv, WaitersOfLive
<1>7. CASE Restart
  <2>1. /\ "error" \in faults /\ UNCHANGED <<faults, waiter>> /\ state' = "live"
        /\ \A w \in Waiter : waiter[w] = "idle"
    BY <1>0, <1>7 DEF Restart, stream, WaitersOfLive
  <2> QED
    BY <1>0, <1>1, <1>2, <2>1 DEF StreamsInv, WaitersOfLive
<1>8. CASE NothingToRequest \/ Disconnect
  <2>1. /\ UNCHANGED <<state, selected, have, writing, current, waiter>>
        /\ faults' = faults \/ faults' = faults \cup {"stranded"}
    BY <1>8 DEF NothingToRequest, Disconnect, stream
  <2> QED
    BY <1>0, <1>1, <1>2, <2>1 DEF StreamsInv, WaitersOfLive
<1>9. ASSUME NEW files \in OnlyFiles, UpdateOnlyFiles(files) PROVE StreamsInv'
  <2>1. /\ UNCHANGED <<state, have, writing, current, waiter>>
        /\ faults' = faults \/ faults' = faults \cup {"deselected"}
    BY <1>9 DEF UpdateOnlyFiles, stream
  <2>2. ParkedIsRegistered' /\ NoLostWakeup' /\ WaitersOfLive'
    BY <1>0, <1>1, <1>2, <2>1 DEF WaitersOfLive
  <2>3. WaitersAreTold'
    <3> SUFFICES ASSUME "deselected" \notin faults', NEW w \in Waiter, waiter[w] = "waiting", Finished'
                 PROVE  \E p \in Piece : writing[p] = "marked"
      BY <2>1
    <3> QED
      BY <1>9, <2>1 DEF UpdateOnlyFiles
  <2> QED
    BY <2>2, <2>3 DEF StreamsInv
<1>10. CASE UNCHANGED vars
  BY <1>0, <1>1, <1>2, <1>10 DEF vars, stream, torrent, StreamsInv, WaitersOfLive
<1> QED
  BY <1>3, <1>4, <1>5, <1>6, <1>7, <1>8, <1>9, <1>10

\* The invariant holds in every reachable state.
LEMMA StreamsInvariant == Spec => []StreamsInv
<1>1. Init => StreamsInv
  BY TypeInit DEF Init, StreamsInv, ParkedIsRegistered, NoLostWakeup, WaitersAreTold, WaitersOfLive
<1>2. StreamsInv /\ [Next /\ Bounded]_vars => StreamsInv'
  <2> SUFFICES ASSUME StreamsInv, [Next]_vars PROVE StreamsInv'
    OBVIOUS
  <2>1. TypeOK' /\ PositionInFile'
    BY TypeStep DEF StreamsInv
  <2> QED
    BY <2>1, ReaderStep, WriterStep, TorrentStep DEF Next
<1> QED
  BY <1>1, <1>2, PTL DEF Spec

\* A reader that is parked on a piece which has arrived is about to be woken: with any
\* number of streams, seeks, pauses and completions, unless a pause or an error came
\* between the marking of a piece and its completion.
THEOREM WakeupsAreNotLost == Spec => []NoLostWakeup
  BY StreamsInvariant, PTL DEF StreamsInv

\* Whatever the lengths of files, pieces and buffers, poll_read delivers at least one
\* byte before the end, only bytes of the file, and only of verified pieces.
THEOREM ReadsAreVerified == Spec => []DeliversVerified
<1>1. StreamsInv => DeliversVerified
  BY ReadStaysInPiece DEF StreamsInv, DeliversVerified
<1> QED
  BY <1>1, StreamsInvariant, PTL

\* Who waits for the completion of a complete torrent is about to be notified, unless
\* the completion came between its check and its subscription or by a change of the
\* selection: with any selections, waiters, pauses, errors and restarts.
THEOREM CompletionIsTold == Spec => []WaitersAreTold
  BY StreamsInvariant, PTL DEF StreamsInv
=============================================================================
