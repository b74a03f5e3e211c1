---------------------------- MODULE PieceDownload ----------------------------
(***************************************************************************)
(* The shared state of a live torrent that decides which piece is          *)
(* downloaded by whom, and the tasks that change it: the chunk requester   *)
(* of each peer, the write path of each received chunk (ownership check,   *)
(* disk write, chunk marking, hash check, completion), piece stealing,     *)
(* peer death, pause and resume, file selection, streams and fatal errors. *)
(*                                                                         *)
(* Every action is one critical section of the code: what a task does      *)
(* between taking and releasing the torrent lock (or a peer's entry in the *)
(* peer map), or one call into the storage between two such sections.      *)
(*                                                                         *)
(* Sizes are counted in pieces (every piece is one unit long), time is     *)
(* left out (any in-flight piece may be slow enough to be stolen), and     *)
(* what a remote peer has is a constant.                                   *)
(***************************************************************************)
EXTENDS Integers, FiniteSets

CONSTANTS
  Peer,        \* addresses of remote peers (PeerHandle)
  Piece,       \* the torrent's pieces
  Chunk,       \* chunk indices within a piece
  File,        \* 1..n, in the order of the metadata
  FilePieces,  \* FilePieces[f]: the pieces file f overlaps (piece_range)
  PeerHas,     \* PeerHas[p]: the pieces in the bitfield of peer p
  Env,         \* which events of the environment happen
  None         \* absent value

\* What the environment may do beyond answering requests with correct data.
EnvEvents == {"churn",      \* a peer closes its connection
              "choke",      \* a peer chokes us after it unchoked us
              "badData",    \* a peer sends bytes that do not match the hash
              "readError",  \* the storage fails a read of the hash check
              "writeError", \* the storage fails a write
              "pause",      \* the user pauses the torrent
              "select",     \* the user changes the selected files
              "stream"}     \* a file is opened for streaming

ASSUME ConstantsAssumption ==
  /\ IsFiniteSet(Piece) /\ Chunk # {} /\ File \subseteq Nat
  /\ FilePieces \in [File -> SUBSET Piece]
  /\ PeerHas \in [Peer -> SUBSET Piece]
  /\ Env \subseteq EnvEvents
  /\ None \notin Peer /\ None \notin Peer \X Piece /\ None \notin Piece \X Chunk

VARIABLES
  \* ChunkTracker
  have,      \* pieces downloaded and verified
  queued,    \* queue_pieces
  done,      \* chunk_status: the chunks of each piece that were written
  selected,  \* pieces of the selected files
  needed,    \* hns.needed_bytes
  perFile,   \* per_file_bytes
  \* PieceTracker
  inflight,  \* the peer that owns each in-flight piece, or None
  \* peers
  conn,      \* "none", "live", or "dropped": NotNeeded while its task still runs
  choked,    \* i_am_choked
  requests,  \* inflight_requests
  wants,     \* the requester saw that pieces are missing (update_interest)
  todo,      \* chunks of the acquired piece the requester has not requested yet
  victim,    \* steal not announced yet: <<from_peer, piece>>, or None
  at,        \* where the peer's task stands in on_received_piece
  job,       \* the chunk it works on: <<piece, chunk>>, or None
  \* torrent
  disk,      \* the chunks of each piece whose bytes on disk are the right ones
  streamed,  \* files with an open stream
  phase      \* "live", "fatal" (error reported), "paused" or "error"

tracker == <<have, queued, done, selected, needed, perFile>>
requester == <<choked, requests, wants, todo, victim>>
writer == <<at, job>>
vars == <<tracker, inflight, conn, requester, writer, disk, streamed, phase>>

\* Points of on_received_piece; "dying" has an error to return to manage_peer.
Stages == {"idle", "check", "write", "mark", "hash", "ok", "broken",
           "completed", "disconnect", "dying"}

\* The task is inside the synchronous write_to_disk: its requester future,
\* polled by the same task, does not run meanwhile.
InWriteToDisk(p) == at[p] \notin {"idle", "check"}

\* Mutation: try_steal does not look at the piece lock.
NeverLocked(x) == FALSE

\* per_piece_locks: write_to_disk holds the read side from the ownership check
\* until the chunk is marked.
PieceLocked(x) == \E p \in Peer : at[p] \in {"write", "mark"} /\ job[p][1] = x

Running == phase \in {"live", "fatal"}

TypeOK ==
  /\ have \subseteq Piece /\ queued \subseteq Piece /\ selected \subseteq Piece
  /\ done \in [Piece -> SUBSET Chunk] /\ disk \in [Piece -> SUBSET Chunk]
  /\ needed \in Int /\ perFile \in [File -> Nat]
  /\ inflight \in [Piece -> Peer \cup {None}]
  /\ conn \in [Peer -> {"none", "live", "dropped"}]
  /\ choked \in [Peer -> BOOLEAN]
  /\ requests \in [Peer -> SUBSET (Piece \X Chunk)]
  /\ wants \in [Peer -> BOOLEAN]
  /\ todo \in [Peer -> SUBSET (Piece \X Chunk)]
  /\ victim \in [Peer -> (Peer \X Piece) \cup {None}]
  /\ at \in [Peer -> Stages]
  /\ job \in [Peer -> (Piece \X Chunk) \cup {None}]
  /\ \A p \in Peer : job[p] = None <=> at[p] \in {"idle", "dying"}
  /\ streamed \subseteq File
  /\ phase \in {"live", "fatal", "paused", "error"}
-----------------------------------------------------------------------------
(* ChunkTracker *)

\* compute_selected_pieces. Padding files are not selected; the files of the model are
\* the others.
SelectedPieces(files) == UNION {FilePieces[f] : f \in files}

\* ChunkTracker::new for the pieces in h.
NewTracker(h) ==
  /\ have' = h
  /\ queued' = selected \ h
  /\ done' = [x \in Piece |-> IF x \in h THEN Chunk ELSE {}]
  /\ needed' = Cardinality(selected \ h)
  /\ perFile' = [f \in File |-> Cardinality(FilePieces[f] \cap h)]

\* Mutation: the piece is cleared but not requeued.
MarkBrokenUnqueued(s) ==
  /\ UNCHANGED queued
  /\ done' = [x \in Piece |-> IF x \in s \ have THEN {} ELSE done[x]]

\* mark_piece_broken_if_not_have for every piece in s.
MarkBroken(s) ==
  /\ queued' = queued \cup (s \ have)
  /\ done' = [x \in Piece |-> IF x \in s \ have THEN {} ELSE done[x]]

\* iter_queued_pieces: files whose byte count says they are complete are skipped.
QueuedPieces ==
  {x \in queued : \E f \in File : /\ x \in FilePieces[f]
                                  /\ perFile[f] # Cardinality(FilePieces[f])}

\* is_file_finished
FileFinished(f) == FilePieces[f] \subseteq have

\* is_finished_and_no_active_streams
NothingToDownload == needed = 0 /\ \A f \in streamed : FileFinished(f)

\* Mutation: only the first file that contains the piece is updated.
FirstFileOfPiece(x) == {f \in File : x \in FilePieces[f] /\ \A g \in 1..(f - 1) : x \notin FilePieces[g]}

\* The files on_piece_completed updates: the first run of consecutive files
\* that contain the piece (skip_while, take_while).
FilesOfPiece(x) ==
  {f \in File : /\ x \in FilePieces[f]
                /\ \A g, h \in File : h < g /\ g < f /\ x \in FilePieces[h]
                                        => x \in FilePieces[g]}
-----------------------------------------------------------------------------
(* Peers *)

Init ==
  /\ have = {} /\ done = [x \in Piece |-> {}] /\ disk = [x \in Piece |-> {}]
  /\ \E fs \in (IF "select" \in Env THEN SUBSET File ELSE {File}) :
        selected = SelectedPieces(fs)
  /\ queued = selected
  /\ needed = Cardinality(selected)
  /\ perFile = [f \in File |-> 0]
  /\ inflight = [x \in Piece |-> None]
  /\ conn = [p \in Peer |-> "none"]
  /\ choked = [p \in Peer |-> TRUE]
  /\ requests = [p \in Peer |-> {}]
  /\ wants = [p \in Peer |-> FALSE]
  /\ todo = [p \in Peer |-> {}]
  /\ victim = [p \in Peer |-> None]
  /\ at = [p \in Peer |-> "idle"]
  /\ job = [p \in Peer |-> None]
  /\ streamed = {}
  /\ phase = "live"

\* The peer becomes Live: connecting_to_live or incoming_connection.
Connect(p) ==
  /\ Running /\ conn[p] = "none"
  /\ conn' = [conn EXCEPT ![p] = "live"]
  /\ choked' = [choked EXCEPT ![p] = TRUE]
  /\ UNCHANGED <<tracker, inflight, requests, wants, todo, victim, writer, disk, streamed, phase>>

\* on_i_am_choked and on_i_am_unchoked, handled between two received chunks.
SetChoked(p, b) ==
  /\ Running /\ conn[p] # "none" /\ at[p] = "idle" /\ victim[p] = None /\ choked[p] # b
  /\ b => "choke" \in Env
  /\ choked' = [choked EXCEPT ![p] = b]
  /\ UNCHANGED <<tracker, inflight, conn, requests, wants, todo, victim, writer, disk, streamed, phase>>

\* The peer's task runs its requester: not inside write_to_disk, no steal to
\* announce, every chunk of the last piece requested.
RequesterIdle(p) ==
  /\ Running /\ conn[p] # "none" /\ victim[p] = None /\ ~InWriteToDisk(p)
  /\ todo[p] = {}

\* Top of the loop of task_peer_chunk_requester: go on only if something is
\* missing. By the time a piece is acquired the answer may be stale.
CheckFinished(p) ==
  /\ RequesterIdle(p) /\ ~wants[p] /\ ~NothingToDownload
  /\ wants' = [wants EXCEPT ![p] = TRUE]
  /\ UNCHANGED <<tracker, inflight, conn, choked, requests, todo, victim, writer,
                 disk, streamed, phase>>

\* The same point with nothing missing: a peer that has the full torrent is
\* told to disconnect (we do not model its own interest).
NothingLeftToDo(p) == RequesterIdle(p) /\ ~wants[p] /\ NothingToDownload /\ PeerHas[p] = Piece

\* After wait_for_unchoke: acquire_next_piece on a peer that is still Live.
CanAcquire(p) == RequesterIdle(p) /\ wants[p] /\ conn[p] = "live" /\ ~choked[p]

\* Pieces a stream waits for, checked before the queue.
PriorityPieces(p) ==
  {x \in SelectedPieces(streamed) \cap PeerHas[p] : x \notin have /\ inflight[x] = None}

Candidates(p) == IF PriorityPieces(p) # {} THEN PriorityPieces(p)
                 ELSE QueuedPieces \cap PeerHas[p]

\* Mutation: the reserved piece stays in the queue.
ReserveUnqueued(p, x) ==
  /\ CanAcquire(p) /\ x \in Candidates(p)
  /\ inflight' = [inflight EXCEPT ![x] = p]
  /\ todo' = [todo EXCEPT ![p] = {x} \X Chunk]
  /\ wants' = [wants EXCEPT ![p] = FALSE]
  /\ UNCHANGED <<tracker, conn, choked, requests, victim, writer, disk, streamed, phase>>

\* reserve_piece
Reserve(p, x) ==
  /\ CanAcquire(p) /\ x \in Candidates(p)
  /\ queued' = queued \ {x}
  /\ inflight' = [inflight EXCEPT ![x] = p]
  /\ todo' = [todo EXCEPT ![p] = {x} \X Chunk]
  /\ wants' = [wants EXCEPT ![p] = FALSE]
  /\ UNCHANGED <<have, done, selected, needed, perFile, conn, choked, requests,
                 victim, writer, disk, streamed, phase>>

\* try_steal: the piece changes owner, the old owner is told later.
Steal(p, x) ==
  /\ CanAcquire(p) /\ x \in PeerHas[p]
  /\ inflight[x] \notin {None, p}
  /\ ~PieceLocked(x)
  /\ inflight' = [inflight EXCEPT ![x] = p]
  /\ victim' = [victim EXCEPT ![p] = <<inflight[x], x>>]
  /\ todo' = [todo EXCEPT ![p] = {x} \X Chunk]
  /\ wants' = [wants EXCEPT ![p] = FALSE]
  /\ UNCHANGED <<tracker, conn, choked, requests, writer, disk, streamed, phase>>

\* Nothing to acquire now, or the peer choked us again or became NotNeeded
\* since the check: wait for new pieces, then start over.
AcquireNothing(p) ==
  /\ RequesterIdle(p) /\ wants[p]
  /\ CanAcquire(p) => Candidates(p) = {}
  /\ wants' = [wants EXCEPT ![p] = FALSE]
  /\ UNCHANGED <<tracker, inflight, conn, choked, requests, todo, victim, writer,
                 disk, streamed, phase>>

\* on_steal, outside the lock: the old owner forgets its requests for the piece
\* (and is sent cancellations).
OnSteal(p) ==
  /\ Running /\ victim[p] # None
  /\ LET q == victim[p][1]
         x == victim[p][2]
     IN requests' = IF conn[q] = "live"
                    THEN [requests EXCEPT ![q] = {r \in @ : r[1] # x}]
                    ELSE requests
  /\ victim' = [victim EXCEPT ![p] = None]
  /\ UNCHANGED <<tracker, inflight, conn, choked, wants, todo, writer, disk, streamed, phase>>

\* One turn of the chunk loop: remember the request, then send it.
RequestChunk(p, r) ==
  /\ Running /\ conn[p] = "live" /\ victim[p] = None /\ ~InWriteToDisk(p)
  /\ r \in todo[p]
  /\ requests' = [requests EXCEPT ![p] = @ \cup {r}]
  /\ todo' = [todo EXCEPT ![p] = @ \ {r}]
  /\ UNCHANGED <<tracker, inflight, conn, choked, wants, victim, writer, disk, streamed, phase>>

\* on_received_piece up to the wait for a blocking-thread permit. A chunk that
\* was not asked for ends the connection (PeerDied).
ReceiveChunk(p, r) ==
  /\ Running /\ conn[p] = "live" /\ at[p] = "idle" /\ victim[p] = None
  /\ r \in requests[p]
  /\ requests' = [requests EXCEPT ![p] = @ \ {r}]
  /\ at' = [at EXCEPT ![p] = "check"]
  /\ job' = [job EXCEPT ![p] = r]
  /\ UNCHANGED <<tracker, inflight, conn, choked, wants, todo, victim, disk, streamed, phase>>
-----------------------------------------------------------------------------
(* write_to_disk *)

\* Leave on_received_piece; the peer stays connected.
Finish(p) == at' = [at EXCEPT ![p] = "idle"] /\ job' = [job EXCEPT ![p] = None]

\* Leave on_received_piece with an error: manage_peer returns it, the peer dies (PeerDied).
Fail(p) == at' = [at EXCEPT ![p] = "dying"] /\ job' = [job EXCEPT ![p] = None]

GoTo(p, stage) == at' = [at EXCEPT ![p] = stage] /\ UNCHANGED job

\* Mutation: the chunk is written whoever owns the piece.
CheckNoSteal(p) ==
  /\ Running /\ at[p] = "check" /\ victim[p] = None
  /\ GoTo(p, "write")
  /\ UNCHANGED <<tracker, inflight, conn, requester, disk, streamed, phase>>

\* "check_steal": ignore the chunk unless this peer still owns the piece;
\* otherwise keep the piece lock.
CheckSteal(p) ==
  /\ Running /\ at[p] = "check" /\ victim[p] = None
  /\ \/ inflight[job[p][1]] = p /\ GoTo(p, "write")
     \/ inflight[job[p][1]] # p /\ Finish(p)
  /\ UNCHANGED <<tracker, inflight, conn, requester, disk, streamed, phase>>

\* write_chunk: the bytes reach the disk, right or wrong.
WriteChunk(p) ==
  /\ Running /\ at[p] = "write"
  /\ \/ disk' = [disk EXCEPT ![job[p][1]] = @ \cup {job[p][2]}]
     \/ "badData" \in Env /\ disk' = [disk EXCEPT ![job[p][1]] = @ \ {job[p][2]}]
  /\ GoTo(p, "mark")
  /\ UNCHANGED <<tracker, inflight, conn, requester, streamed, phase>>

\* write_chunk fails: on_fatal_error reports the error once, the peer dies.
WriteError(p) ==
  /\ "writeError" \in Env /\ Running /\ at[p] = "write"
  /\ phase' = "fatal"
  /\ Fail(p)
  /\ UNCHANGED <<tracker, inflight, conn, requester, disk, streamed>>

\* mark_chunk_downloaded; the last chunk takes the piece out of inflight, so
\* that nobody steals it during the hash check. Completing a piece that is not
\* in flight ends here, without a hash check.
MarkChunk(p) ==
  LET x == job[p][1]
      c == job[p][2]
  IN /\ Running /\ at[p] = "mark"
     /\ \/ /\ done[x] = Chunk                       \* PreviouslyCompleted
           /\ Finish(p) /\ UNCHANGED <<done, inflight>>
        \/ /\ done[x] # Chunk /\ done[x] \cup {c} # Chunk    \* NotCompleted
           /\ done' = [done EXCEPT ![x] = @ \cup {c}]
           /\ Finish(p) /\ UNCHANGED inflight
        \/ /\ done[x] # Chunk /\ done[x] \cup {c} = Chunk    \* Completed
           /\ done' = [done EXCEPT ![x] = @ \cup {c}]
           /\ inflight' = [inflight EXCEPT ![x] = None]      \* take_inflight
           /\ IF inflight[x] # None THEN GoTo(p, "hash") ELSE Finish(p)
     /\ UNCHANGED <<have, queued, selected, needed, perFile, conn, requester,
                    disk, streamed, phase>>

\* check_piece reads the piece back and compares its hash. A read error leaves
\* write_to_disk by `?`.
HashCheck(p) ==
  /\ Running /\ at[p] = "hash"
  /\ \/ disk[job[p][1]] = Chunk /\ GoTo(p, "ok")
     \/ disk[job[p][1]] # Chunk /\ GoTo(p, "broken")
     \/ "readError" \in Env /\ Fail(p)
  /\ UNCHANGED <<tracker, inflight, conn, requester, disk, streamed, phase>>

\* Mutation: needed_bytes is reduced for a piece that is not selected.
MarkHashOkUnselected(p) ==
  /\ Running /\ at[p] = "ok"
  /\ have' = have \cup {job[p][1]}
  /\ needed' = needed - 1
  /\ GoTo(p, "completed")
  /\ UNCHANGED <<queued, done, selected, perFile, inflight, conn, requester,
                 disk, streamed, phase>>

\* mark_piece_hash_ok
MarkHashOk(p) ==
  LET x == job[p][1]
  IN /\ Running /\ at[p] = "ok"
     /\ have' = have \cup {x}
     /\ needed' = IF x \notin have /\ x \in selected THEN needed - 1 ELSE needed
     /\ GoTo(p, "completed")
     /\ UNCHANGED <<queued, done, selected, perFile, inflight, conn, requester,
                    disk, streamed, phase>>

\* mark_piece_hash_failed, then the peer is dropped as bogus.
MarkHashFailed(p) ==
  /\ Running /\ at[p] = "broken"
  /\ MarkBroken({job[p][1]})
  /\ Fail(p)
  /\ UNCHANGED <<have, selected, needed, perFile, inflight, conn, requester,
                 disk, streamed, phase>>

\* on_piece_completed, under the torrent lock: per-file counts, and whether
\* seeds are to be disconnected.
OnPieceCompleted(p) ==
  LET x == job[p][1]
  IN /\ Running /\ at[p] = "completed"
     /\ perFile' = [f \in File |-> perFile[f] + (IF f \in FilesOfPiece(x) THEN 1 ELSE 0)]
     /\ IF NothingToDownload THEN GoTo(p, "disconnect") ELSE Finish(p)
     /\ UNCHANGED <<have, queued, done, selected, needed, inflight, conn,
                    requester, disk, streamed, phase>>

\* disconnect_all_peers_that_have_full_torrent, after the lock is released: the
\* peers become NotNeeded and their Live state is dropped; their tasks go on
\* until they see the Disconnect message.
DisconnectSeeds(p) ==
  LET seeds == {q \in Peer : conn[q] = "live" /\ PeerHas[q] = Piece}
  IN /\ Running /\ at[p] = "disconnect"
     /\ conn' = [q \in Peer |-> IF q \in seeds THEN "dropped" ELSE conn[q]]
     /\ requests' = [q \in Peer |-> IF q \in seeds THEN {} ELSE requests[q]]
     /\ Finish(p)
     /\ UNCHANGED <<tracker, inflight, choked, wants, todo, victim, disk, streamed, phase>>

\* Mutation: the pieces stay in flight.
ReleaseNothing(p) == UNCHANGED <<inflight, queued, done>>

\* release_pieces_owned_by
ReleasePieces(p) ==
  LET mine == {x \in Piece : inflight[x] = p}
  IN /\ inflight' = [x \in Piece |-> IF x \in mine THEN None ELSE inflight[x]]
     /\ MarkBroken(mine)

\* on_peer_died: the task ends at an await point (the connection is closed, the
\* peer broke the protocol or was told to disconnect) or with an error. A peer
\* that is no longer Live (NotNeeded) keeps its pieces in flight.
PeerDied(p) ==
  /\ Running /\ conn[p] # "none" /\ victim[p] = None
  /\ \/ at[p] = "dying"
     \/ /\ at[p] \in {"idle", "check"}
        /\ "churn" \in Env \/ conn[p] = "dropped" \/ NothingLeftToDo(p)
  /\ IF conn[p] = "live" THEN ReleasePieces(p) ELSE UNCHANGED <<inflight, queued, done>>
  /\ conn' = [conn EXCEPT ![p] = "none"]
  /\ requests' = [requests EXCEPT ![p] = {}]
  /\ wants' = [wants EXCEPT ![p] = FALSE]
  /\ todo' = [todo EXCEPT ![p] = {}]
  /\ Finish(p)
  /\ UNCHANGED <<have, selected, needed, perFile, choked, victim, disk, streamed, phase>>
-----------------------------------------------------------------------------
(* The user *)

\* ChunkTracker::update_only_files, live or paused. Newly selected pieces are
\* requeued whether or not they are in flight.
UpdateOnlyFiles(files) ==
  LET new == SelectedPieces(files)
      fresh == new \ (selected \cup have)
  IN /\ "select" \in Env /\ phase # "error"
     /\ selected' = new
     /\ queued' = (queued \cup fresh) \cap (new \cup have)
     /\ done' = [x \in Piece |-> IF x \in fresh THEN {} ELSE done[x]]
     /\ needed' = Cardinality(new \ have)
     /\ UNCHANGED <<have, perFile, inflight, conn, requester, writer, disk, streamed, phase>>

SetStream(f) ==
  /\ "stream" \in Env /\ phase # "error"
  /\ streamed' = IF f \in streamed THEN streamed \ {f} ELSE streamed \cup {f}
  /\ UNCHANGED <<tracker, inflight, conn, requester, writer, disk, phase>>

\* What remains of the peers when the live state is taken away: every task
\* finds `pieces` empty at its next lock and returns.
StopPeers ==
  /\ conn' = [p \in Peer |-> "none"]
  /\ choked' = [p \in Peer |-> TRUE]
  /\ requests' = [p \in Peer |-> {}]
  /\ wants' = [p \in Peer |-> FALSE]
  /\ todo' = [p \in Peer |-> {}]
  /\ victim' = [p \in Peer |-> None]
  /\ at' = [p \in Peer |-> "idle"]
  /\ job' = [p \in Peer |-> None]

\* TorrentStateLive::pause with PieceTracker::into_chunks.
Pause ==
  /\ "pause" \in Env /\ Running
  /\ MarkBroken({x \in Piece : inflight[x] # None})
  /\ inflight' = [x \in Piece |-> None]
  /\ StopPeers
  /\ phase' = "paused"
  /\ UNCHANGED <<have, selected, needed, perFile, disk, streamed>>

\* TorrentStateLive::new wraps the paused ChunkTracker as it is.
Resume ==
  /\ phase = "paused"
  /\ phase' = "live"
  /\ UNCHANGED <<tracker, inflight, conn, requester, writer, disk, streamed>>

\* stop_with_error: the live state is paused and its ChunkTracker dropped.
StopWithError ==
  /\ phase = "fatal"
  /\ inflight' = [x \in Piece |-> None]
  /\ StopPeers
  /\ phase' = "error"
  /\ UNCHANGED <<tracker, disk, streamed>>

\* start() in the error state: initialize again, from the stored bitfield, which may be
\* older than `have`, or from a full check of the disk; streams of the old state are gone.
\* (A stored bitfield that claims too much is the subject of FastResume.)
Restart ==
  /\ phase = "error"
  /\ \E h \in (SUBSET have) \cup {{x \in Piece : disk[x] = Chunk}} : NewTracker(h)
  /\ streamed' = {}
  /\ phase' = "live"
  /\ UNCHANGED <<selected, inflight, conn, requester, writer, disk>>
-----------------------------------------------------------------------------
RequesterStep(p) ==
  \/ \E x \in Piece : Reserve(p, x) \/ Steal(p, x)
  \/ CheckFinished(p) \/ AcquireNothing(p) \/ OnSteal(p)
  \/ \E r \in todo[p] : RequestChunk(p, r)

WriterStep(p) ==
  \/ CheckSteal(p) \/ WriteChunk(p) \/ WriteError(p) \/ MarkChunk(p)
  \/ HashCheck(p) \/ MarkHashOk(p) \/ MarkHashFailed(p)
  \/ OnPieceCompleted(p) \/ DisconnectSeeds(p)

PeerStep(p) ==
  \/ Connect(p)
  \/ \E b \in BOOLEAN : SetChoked(p, b)
  \/ RequesterStep(p)
  \/ \E r \in requests[p] : ReceiveChunk(p, r)
  \/ WriterStep(p)
  \/ PeerDied(p)

TorrentStep ==
  \/ \E files \in SUBSET File : UpdateOnlyFiles(files)
  \/ \E f \in File : SetStream(f)
  \/ Pause \/ Resume \/ StopWithError \/ Restart

Next == (\E p \in Peer : PeerStep(p)) \/ TorrentStep

Spec == Init /\ [][Next]_vars
-----------------------------------------------------------------------------
(* Properties *)

\* The pieces whose hash is being checked: out of the queue and out of
\* inflight, not yet in have.
BeingChecked == {x \in Piece : \E p \in Peer : at[p] \in {"hash", "ok", "broken"} /\ job[p][1] = x}

\* A piece is never in two of the states completed, in flight and queued
\* (STATE.md, "Piece State Invariant").
PieceStatesDisjoint ==
  /\ have \cap queued = {}
  /\ \A x \in Piece : inflight[x] # None => x \notin have \cup queued

\* A selected piece that is missing is queued, in flight or being checked: no
\* sequence of steals, deaths and failures makes the torrent forget it.
NoPieceLost ==
  phase # "error" =>
    \A x \in selected \ have : x \in queued \cup BeingChecked \/ inflight[x] # None

\* While a task holds the lock of a piece (from the ownership check of
\* write_to_disk until the chunk is marked) the piece stays its own.
PieceLockProtects ==
  \A p \in Peer : at[p] \in {"write", "mark"} => inflight[job[p][1]] = p

\* Every piece in `have` has the right bytes on disk: what the bitfield
\* announces and uploads was verified and never overwritten since.
HaveIsVerified == \A x \in have : disk[x] = Chunk

\* An in-flight piece belongs to a connected peer, so that somebody's death
\* or success returns it.
OwnerIsConnected == \A x \in Piece : inflight[x] # None => conn[inflight[x]] = "live"

\* hns "MUST be in sync with the BFs": the count that decides whether the
\* torrent is finished equals the number of selected pieces missing.
NeededInSync == phase # "error" => needed = Cardinality(selected \ have)

\* Pieces of file f marked as had whose on_piece_completed is still to come.
Uncounted(f) == {x \in FilePieces[f] : \E p \in Peer : at[p] = "completed" /\ job[p][1] = x}

\* per_file_bytes counts every piece of the file exactly once.
PerFileInSync ==
  phase # "error" =>
    \A f \in File : perFile[f] + Cardinality(Uncounted(f)) = Cardinality(FilePieces[f] \cap have)
-----------------------------------------------------------------------------
(* The implementation of PieceBoard *)

PieceStatus ==
  [x \in Piece |-> IF x \in have THEN "had"
                   ELSE IF inflight[x] # None THEN "claimed"
                   ELSE IF x \in BeingChecked THEN "checking" ELSE "missing"]

Board == INSTANCE PieceBoard WITH status <- PieceStatus, owner <- inflight,
                                  intact <- {x \in Piece : disk[x] = Chunk},
                                  failed <- phase = "error"

\* Seen from the outside, reservations, steals, the chunks of several tasks,
\* deaths and failures are the steps of PieceBoard: the bytes of a piece change
\* only while somebody owns it, the verdict of check_piece is about the bytes
\* that are on disk when the piece is marked, and a piece that is had is not reserved,
\* written or lost again before a fatal error; the restart after one may only forget
\* pieces, or find those whose bytes are right.
ImplementsBoard == Board!Spec
-----------------------------------------------------------------------------
(* The inductive invariant behind PieceStatesDisjoint, PieceLockProtects and *)
(* HaveIsVerified when files are neither reselected nor streamed.            *)

NoSelectNoStream == Env \cap {"select", "stream"} = {}

\* The task of p is between take_inflight and the verdict on its piece.
Checking(p) == at[p] \in {"hash", "ok", "broken"}

\* A piece being checked is out of the queue and out of inflight, and only one
\* task checks it.
CheckerExclusive ==
  \A p \in Peer : Checking(p) =>
     /\ inflight[job[p][1]] = None /\ job[p][1] \notin queued
     /\ \A q \in Peer \ {p} : Checking(q) => job[q][1] # job[p][1]

\* A piece keeps the bytes its hash check found, right or wrong, until it is
\* marked.
VerdictHolds ==
  /\ \A p \in Peer : at[p] = "ok" => disk[job[p][1]] = Chunk
  /\ \A p \in Peer : at[p] = "broken" => disk[job[p][1]] # Chunk

\* No task survives the live state.
Quiescent ==
  ~Running => /\ \A p \in Peer : at[p] = "idle"
              /\ \A x \in Piece : inflight[x] = None

Inductive ==
  /\ TypeOK /\ streamed = {}
  /\ PieceStatesDisjoint /\ PieceLockProtects /\ HaveIsVerified
  /\ CheckerExclusive /\ VerdictHolds /\ Quiescent
=============================================================================
