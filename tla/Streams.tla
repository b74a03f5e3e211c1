------------------------------ MODULE Streams ------------------------------
(***************************************************************************)
(* Streaming a file while it is downloaded. A FileStream is polled by its  *)
(* reader: it delivers bytes of pieces the torrent has, or leaves a waker  *)
(* in the table of the torrent's streams, which on_piece_completed takes.  *)
(* A stream keeps a permit of the blocking spawner for its whole life, and *)
(* write_to_disk needs one for every piece. The peers that have the pieces *)
(* are sent away when nothing is needed of them, and called back for a     *)
(* stream or a selection. The callers of wait_until_completed wait for the *)
(* completion of the selected files.                                       *)
(***************************************************************************)
EXTENDS Integers, FiniteSets

CONSTANTS
  Stream, Waiter,
  File, Offset, Len,  \* the files, where each starts in the torrent, its length
  OnlyFiles,          \* the selections of files users make
  PieceLength, TotalLength,
  BufLen,             \* bytes a reader asks for
  LookAhead,          \* PER_STREAM_BUF_DEFAULT
  Permits,            \* values of max_blocking_threads
  MaxFaults           \* bound on the kinds of faults in one behaviour

ASSUME ConstantsAssumption ==
  /\ PieceLength \in Nat \ {0} /\ TotalLength \in Nat
  /\ File # {}
  /\ Offset \in [File -> 0..TotalLength] /\ Len \in [File -> 0..TotalLength]
  /\ \A f \in File : Offset[f] + Len[f] <= TotalLength
  /\ BufLen \in Nat \ {0} /\ LookAhead \in Nat \ {0}
  /\ OnlyFiles \subseteq SUBSET File
  /\ Permits \subseteq Nat \ {0}

VARIABLES
  permits,  \* of the blocking spawner
  state,    \* of the torrent
  have,     \* the pieces of the chunk tracker
  selected, \* the pieces of the selected files
  peers,    \* those that have the pieces: connected, about to be sent away, not needed
  writing,  \* per piece, where the write_to_disk call that completes it stands
  task,     \* of each stream's reader
  file, position,
  waker,    \* there is a waker in the stream's entry
  current,  \* the entry is in the table of the present torrent state
  waiter,   \* callers of wait_until_completed of the present live torrent
  faults

stream == <<task, file, position, waker, current>>
torrent == <<state, selected, peers>>
vars == <<permits, torrent, have, writing, stream, waiter, faults>>

Min2(a, b) == IF a < b THEN a ELSE b

PieceOf(byte) == byte \div PieceLength
Piece == {PieceOf(b) : b \in 0..(TotalLength - 1)}

FilePieces(f) == {PieceOf(b) : b \in Offset[f] .. (Offset[f] + Len[f] - 1)}

\* compute_selected_pieces
PiecesOf(files) == UNION {FilePieces(f) : f \in files}

TypeOK ==
  /\ permits \in Permits
  /\ state \in {"live", "paused", "error"}
  /\ have \subseteq Piece /\ selected \subseteq Piece
  /\ peers \in {"on", "leaving", "off"}
  /\ writing \in [Piece -> {"no", "write", "marked", "stale"}]
  /\ task \in [Stream -> {"none", "permit", "connecting", "ready", "parked"}]
  /\ file \in [Stream -> File] /\ position \in [Stream -> 0..TotalLength]
  /\ waker \in [Stream -> BOOLEAN] /\ current \in [Stream -> BOOLEAN]
  /\ waiter \in [Waiter -> {"idle", "check", "subscribe", "waiting"}]

FirstFile == CHOOSE f \in File : TRUE

Init ==
  /\ permits \in Permits
  /\ state = "live" /\ have = {} /\ peers = "on"
  /\ \E files \in OnlyFiles : selected = PiecesOf(files)
  /\ writing = [p \in Piece |-> "no"]
  /\ task = [s \in Stream |-> "none"]
  /\ file = [s \in Stream |-> FirstFile]
  /\ position = [s \in Stream |-> 0]
  /\ waker = [s \in Stream |-> FALSE] /\ current = [s \in Stream |-> TRUE]
  /\ waiter = [w \in Waiter |-> "idle"]
  /\ faults = {}

-----------------------------------------------------------------------------
(* Positions and pieces *)

\* Lengths::compute_current_piece
AbsPosition(s) == Offset[file[s]] + position[s]
CurrentPiece(s) == PieceOf(AbsPosition(s))
PieceRemaining(s) == Min2(PieceLength, TotalLength - CurrentPiece(s) * PieceLength)
                       - (AbsPosition(s) % PieceLength)

AtEnd(s) == position[s] = Len[file[s]]

CeilDiv(a, b) == (a + b - 1) \div b

\* Mutant: the look-ahead counts whole pieces after the current one.
QueueRoundedDown(s) ==
  LET end == Min2(AbsPosition(s) + LookAhead, Offset[file[s]] + Len[file[s]]) IN
  {p \in Piece : AbsPosition(s) \div PieceLength <= p /\ p < end \div PieceLength}

\* StreamState::queue: the pieces from the position up to the look-ahead or the end
\* of the file.
Queue(s) ==
  LET end == Min2(AbsPosition(s) + LookAhead, Offset[file[s]] + Len[file[s]]) IN
  {p \in Piece : AbsPosition(s) \div PieceLength <= p /\ p < CeilDiv(end, PieceLength)}

\* Mutant: a read may run on into the next piece.
BytesToReadUnbounded(s) == Min2(BufLen, Len[file[s]] - position[s])

BytesToRead(s) == Min2(BufLen, Min2(PieceRemaining(s), Len[file[s]] - position[s]))

-----------------------------------------------------------------------------
(* The blocking spawner *)

HasPermit(s) == task[s] \in {"connecting", "ready", "parked"}
Used == Cardinality({s \in Stream : HasPermit(s)}) + Cardinality({p \in Piece : writing[p] # "no"})
PermitFree == Used < permits
Exhausted == Cardinality({s \in Stream : HasPermit(s)}) = permits

-----------------------------------------------------------------------------
(* Streams *)

HasTracker == state \in {"live", "paused"}

\* The stream has an entry in its table.
Open(s) == task[s] \in {"ready", "parked"}

FileFinished(f) == HasTracker /\ FilePieces(f) \subseteq have

\* has_active_streams_unfinished_files
ActiveStreams == \E s \in Stream : Open(s) /\ current[s] /\ ~FileFinished(file[s])

Finished == selected \subseteq have

\* reconnect_all_not_needed_peers: peers whose disconnection is still to come are not
\* among those it calls back.
Reconnected == IF peers = "off" THEN "on" ELSE peers

\* ManagedTorrent::stream up to the semaphore: the table is looked up first.
StreamFile(s, f) ==
  /\ task[s] = "none" /\ HasTracker
  /\ task' = [task EXCEPT ![s] = "permit"]
  /\ file' = [file EXCEPT ![s] = f]
  /\ current' = [current EXCEPT ![s] = TRUE]
  /\ UNCHANGED <<permits, torrent, have, writing, position, waker, waiter, faults>>

\* The permit, then maybe_reconnect_needed_peers_for_file.
Acquire(s) ==
  /\ task[s] = "permit" /\ PermitFree
  /\ task' = [task EXCEPT ![s] = "connecting"]
  /\ position' = [position EXCEPT ![s] = 0]
  /\ peers' = IF state = "live" /\ ~FileFinished(file[s]) THEN Reconnected ELSE peers
  /\ UNCHANGED <<permits, state, selected, have, writing, file, waker, current, waiter, faults>>

\* The entry comes after the call for peers: those that were sent away in between are
\* not called again ("stranded").
Insert(s) ==
  /\ task[s] = "connecting"
  /\ task' = [task EXCEPT ![s] = "ready"]
  /\ faults' = IF state = "live" /\ peers = "off" /\ ~FileFinished(file[s])
                THEN faults \cup {"stranded"} ELSE faults
  /\ UNCHANGED <<permits, torrent, have, writing, file, position, waker, current, waiter>>

\* The check and the registration happen under the lock of the tracker.
PollPending(s) ==
  /\ task[s] = "ready" /\ ~AtEnd(s)
  /\ HasTracker /\ CurrentPiece(s) \notin have
  /\ task' = [task EXCEPT ![s] = "parked"]
  /\ waker' = [waker EXCEPT ![s] = TRUE]
  /\ UNCHANGED <<permits, torrent, have, writing, file, position, current, waiter, faults>>

PollRead(s) ==
  /\ task[s] = "ready" /\ ~AtEnd(s)
  /\ HasTracker /\ CurrentPiece(s) \in have
  /\ position' = [position EXCEPT ![s] = @ + BytesToRead(s)]
  /\ UNCHANGED <<permits, torrent, have, writing, task, file, waker, current, waiter, faults>>

\* FileStream::drop: at the end of the file, on an error, or when the client leaves.
Drop(s) ==
  /\ task[s] # "none"
  /\ task' = [task EXCEPT ![s] = "none"]
  /\ position' = [position EXCEPT ![s] = 0]
  /\ waker' = [waker EXCEPT ![s] = FALSE]
  /\ file' = [file EXCEPT ![s] = FirstFile]
  /\ current' = [current EXCEPT ![s] = TRUE]
  /\ UNCHANGED <<permits, torrent, have, writing, waiter, faults>>

\* A reader may give up a pending read and continue elsewhere.
Seek(s, pos) ==
  /\ Open(s) /\ pos \in 0..Len[file[s]] /\ pos # position[s]
  /\ position' = [position EXCEPT ![s] = pos]
  /\ task' = [task EXCEPT ![s] = "ready"]
  /\ UNCHANGED <<permits, torrent, have, writing, file, waker, current, waiter, faults>>

-----------------------------------------------------------------------------
(* Downloading *)

\* A piece is asked for when it is selected or in the queue of a stream.
Wanted(p) ==
  /\ p \notin have /\ writing[p] = "no"
  /\ p \in selected \/ \E s \in Stream : Open(s) /\ current[s] /\ p \in Queue(s)

StartWrite(p) ==
  /\ state = "live" /\ peers # "off" /\ Wanted(p) /\ PermitFree
  /\ writing' = [writing EXCEPT ![p] = "write"]
  /\ UNCHANGED <<permits, torrent, have, stream, waiter, faults>>

MarkPieceHashOk(p) ==
  /\ writing[p] = "write"
  /\ writing' = [writing EXCEPT ![p] = "marked"]
  /\ have' = have \cup {p}
  /\ UNCHANGED <<permits, torrent, stream, waiter, faults>>

\* Mutant: the position is taken for one in the torrent.
WokenByPosition(p) == {s \in Stream : current[s] /\ waker[s] /\ ~AtEnd(s) /\ PieceOf(position[s]) = p}

\* wake_streams_on_piece_completed
Woken(p) == {s \in Stream : current[s] /\ waker[s] /\ ~AtEnd(s) /\ CurrentPiece(s) = p}

\* Mutant: those who wait for the selected files are told when the torrent has every piece.
NotifiedIfLast(p) ==
  IF have = Piece THEN {w \in Waiter : waiter[w] = "waiting"} ELSE {}

\* finished_notify.notify_waiters()
Notified(p) == IF Finished THEN {w \in Waiter : waiter[w] = "waiting"} ELSE {}

OnPieceCompleted(p) ==
  /\ writing[p] = "marked"
  /\ writing' = [writing EXCEPT ![p] = "no"]
  /\ waker' = [s \in Stream |-> waker[s] /\ s \notin Woken(p)]
  /\ task' = [s \in Stream |-> IF s \in Woken(p) /\ task[s] = "parked" THEN "ready" ELSE task[s]]
  /\ waiter' = [w \in Waiter |-> IF w \in Notified(p) THEN "idle" ELSE waiter[w]]
  /\ peers' = IF peers = "on" /\ Finished /\ ~ActiveStreams THEN "leaving" ELSE peers
  /\ UNCHANGED <<permits, state, selected, have, file, position, current, faults>>

\* A call that finds no tracker returns with an error.
StaleWriteEnds(p) ==
  /\ writing[p] = "stale"
  /\ writing' = [writing EXCEPT ![p] = "no"]
  /\ UNCHANGED <<permits, torrent, have, stream, waiter, faults>>

\* The requester of a peer looks whether anything is left to ask for.
NothingToRequest ==
  /\ state = "live" /\ peers = "on" /\ Finished /\ ~ActiveStreams
  /\ peers' = "leaving"
  /\ UNCHANGED <<permits, state, selected, have, writing, stream, waiter, faults>>

\* disconnect_all_peers_that_have_full_torrent, or the end of the requester: no lock is
\* held since the decision, and a stream or a selection may have come ("stranded").
Disconnect ==
  /\ state = "live" /\ peers = "leaving"
  /\ peers' = "off"
  /\ faults' = IF Finished /\ ~ActiveStreams THEN faults ELSE faults \cup {"stranded"}
  /\ UNCHANGED <<permits, state, selected, have, writing, stream, waiter>>

-----------------------------------------------------------------------------
(* The torrent *)

\* Pausing takes the tracker away from every call under way. A piece that was marked
\* and not completed wakes nobody ("cut"). The next live torrent has a notifier of its
\* own: who waits for this one waits for good, and is not followed any further.
StopLive ==
  /\ state = "live"
  /\ writing' = [p \in Piece |-> IF writing[p] = "no" THEN "no" ELSE "stale"]
  /\ waiter' = [w \in Waiter |-> "idle"]

Cut == IF \E p \in Piece : writing[p] = "marked" THEN {"cut"} ELSE {}

Pause ==
  /\ StopLive
  /\ state' = "paused"
  /\ faults' = faults \cup Cut
  /\ UNCHANGED <<permits, selected, peers, have, stream>>

Unpause ==
  /\ state = "paused" /\ state' = "live" /\ peers' = "on"
  /\ UNCHANGED <<permits, selected, have, writing, stream, waiter, faults>>

\* A fatal error drops the tracker; the next initialization makes a new table.
StopWithError ==
  /\ StopLive
  /\ state' = "error"
  /\ have' = {}
  /\ current' = [s \in Stream |-> task[s] = "none"]
  /\ faults' = faults \cup {"error"}
  /\ UNCHANGED <<permits, selected, peers, task, file, position, waker>>

Restart ==
  /\ state = "error" /\ state' = "live" /\ peers' = "on"
  /\ \E found \in SUBSET Piece : have' = found
  /\ UNCHANGED <<permits, selected, writing, stream, waiter, faults>>

\* A selection may complete a live torrent, and nobody is notified of that
\* ("deselected"); one that does not calls the peers back.
UpdateOnlyFiles(files) ==
  /\ selected # PiecesOf(files)
  /\ selected' = PiecesOf(files)
  /\ peers' = IF state = "live" /\ ~(PiecesOf(files) \subseteq have) THEN Reconnected ELSE peers
  /\ faults' = IF /\ PiecesOf(files) \subseteq have /\ \E w \in Waiter : waiter[w] = "waiting"
                   /\ \A p \in Piece : writing[p] # "marked"
                THEN faults \cup {"deselected"} ELSE faults
  /\ UNCHANGED <<permits, state, have, writing, stream, waiter>>

-----------------------------------------------------------------------------
(* wait_until_completed *)

FindLive(w) ==
  /\ waiter[w] = "idle" /\ state = "live"
  /\ waiter' = [waiter EXCEPT ![w] = "check"]
  /\ UNCHANGED <<permits, torrent, have, writing, stream, faults>>

CheckFinished(w) ==
  /\ waiter[w] = "check"
  /\ waiter' = [waiter EXCEPT ![w] = IF Finished THEN "idle" ELSE "subscribe"]
  /\ UNCHANGED <<permits, torrent, have, writing, stream, faults>>

\* A completion since the check was notified to nobody ("missed").
Subscribe(w) ==
  /\ waiter[w] = "subscribe"
  /\ waiter' = [waiter EXCEPT ![w] = "waiting"]
  /\ faults' = IF Finished THEN faults \cup {"missed"} ELSE faults
  /\ UNCHANGED <<permits, torrent, have, writing, stream>>

-----------------------------------------------------------------------------
StreamStep(s) ==
  \/ \E f \in File : StreamFile(s, f)
  \/ Acquire(s) \/ Insert(s) \/ PollPending(s) \/ PollRead(s) \/ Drop(s)
  \/ \E pos \in 0..TotalLength : Seek(s, pos)

PieceStep(p) == StartWrite(p) \/ MarkPieceHashOk(p) \/ OnPieceCompleted(p) \/ StaleWriteEnds(p)

WaiterStep(w) == FindLive(w) \/ CheckFinished(w) \/ Subscribe(w)

Next ==
  \/ \E s \in Stream : StreamStep(s)
  \/ \E p \in Piece : PieceStep(p)
  \/ \E w \in Waiter : WaiterStep(w)
  \/ NothingToRequest \/ Disconnect
  \/ Pause \/ Unpause \/ StopWithError \/ Restart
  \/ \E files \in OnlyFiles : UpdateOnlyFiles(files)

Bounded == Cardinality(faults') <= MaxFaults

\* Peers that are connected keep sending, calls on blocking threads return, and the semaphore of the
\* spawner is a queue: who waits for a permit gets one if permits keep coming back.
Fairness ==
  /\ SF_vars(\E p \in Piece : StartWrite(p))
  /\ WF_vars(\E p \in Piece : MarkPieceHashOk(p) \/ OnPieceCompleted(p) \/ StaleWriteEnds(p))

Spec == Init /\ [][Next /\ Bounded]_vars /\ Fairness

-----------------------------------------------------------------------------
(* Properties *)

\* A reader that is parked on a piece the torrent has is about to be woken: there is
\* no order of polls, completions, seeks and pauses in which the wake-up is lost,
\* except a pause or an error between the marking and the completion of a piece.
NoLostWakeup ==
  faults \cap {"cut", "error"} = {} =>
    \A s \in Stream : task[s] = "parked" /\ CurrentPiece(s) \in have => writing[CurrentPiece(s)] = "marked"

\* Every byte the next read of a stream delivers belongs to a verified piece and to
\* its file, wherever the pieces and the files start and end, and there is at least
\* one before the end: no bytes would mean the end of the file to the reader.
DeliversVerified ==
  \A s \in Stream : task[s] = "ready" /\ ~AtEnd(s) /\ HasTracker /\ CurrentPiece(s) \in have =>
    /\ BytesToRead(s) > 0 /\ position[s] + BytesToRead(s) <= Len[file[s]]
    /\ \A b \in AbsPosition(s) .. (AbsPosition(s) + BytesToRead(s) - 1) : PieceOf(b) \in have

\* Who waits for the completion of a torrent that is complete is about to be told,
\* unless the completion came between its check and its subscription, or by a change of
\* the selection, which notifies nobody. Those who wait while the torrent is paused or
\* fails keep waiting for the live torrent that ended, and are not spoken of.
WaitersAreTold ==
  faults \cap {"missed", "deselected"} = {} =>
    \A w \in Waiter : waiter[w] = "waiting" /\ Finished => \E p \in Piece : writing[p] = "marked"

\* A parked reader goes on, also when the file it reads is not selected: as long as
\* the torrent stays live and the streams leave a permit to the writers. The peers that
\* have the piece stay or come back for it, unless they are sent away after the stream
\* called for them, by a decision made before it was in the table.
StreamProgresses ==
  \A s \in Stream : task[s] = "parked"
    ~> (task[s] # "parked" \/ state # "live" \/ Exhausted
                             \/ faults \cap {"cut", "error", "stranded"} # {})
=============================================================================
