----------------------------- MODULE FastResume -----------------------------
(***************************************************************************)
(* The stored bitfield of a torrent and what a restart makes of it.        *)
(*                                                                         *)
(* A DiskBackedBitV keeps the bits in memory and has a flusher task of its *)
(* own, which writes snapshots to <hash>.bitv.tmp and renames that over    *)
(* <hash>.bitv. An instance that is dropped sends a last snapshot, so the  *)
(* flusher of an old instance may still write when a new one already runs. *)
(* With Postgres every flush is a task of its own that updates the row.    *)
(* Initialization loads the file, tries a sample of the claimed pieces and *)
(* falls back to a full check.                                             *)
(***************************************************************************)
EXTENDS Integers, FiniteSets

CONSTANTS
  Pieces,     \* 1..n, in the order of the torrent
  Files,
  FilePieces, \* the pieces each file lies in
  Instances,  \* DiskBackedBitV objects
  FlushEvery, \* FLUSH_BITV_EVERY_BYTES, in pieces
  MaxFaults,  \* bound on the kinds of faults in one behaviour
  None,
  NoRequest,  \* an empty channel
  Empty       \* a file that was truncated and not written yet

ASSUME ConstantsAssumption ==
  /\ Pieces \subseteq Nat
  /\ FilePieces \in [Files -> SUBSET Pieces]
  /\ FlushEvery \in Nat \ {0}
  /\ MaxFaults \in Nat
  /\ None \notin Instances /\ None \notin {"tmp", "bitv", "gone"}

VARIABLES
  store,     \* the persistence, "json" or "postgres"
  data,      \* per piece: "absent" (unreadable), "wrong" or "good"
  moved,     \* the files that were moved to the completed folder
  phase,     \* where the torrent stands
  claim,     \* pieces the initialization is about to claim
  have,      \* the bits of the current instance
  completing, \* pieces with a bit whose on_piece_completed has not run
  unflushed, \* TorrentStateLocked::unflushed_bitv_bytes
  current,   \* the instance in the chunk tracker, or None
  stage,     \* of each flusher
  pending,   \* the last request in the channel of each flusher
  snapshot,  \* the request a flusher works on
  fd,        \* the name by which the file a flusher has open is found, or "gone"
  tmp,       \* contents of .bitv.tmp, or None
  bitv,      \* contents of .bitv or of have_bitfield, or None
  landing,   \* what store_initial_check wrote and is not in the file yet
  updates,   \* UPDATE tasks under way
  faults

torrent == <<store, data, moved, phase, claim, have, completing, unflushed, current>>
flushers == <<stage, pending, snapshot, fd>>
names == <<tmp, bitv, landing, updates>>
vars == <<torrent, flushers, names, faults>>

Contents == SUBSET Pieces
Request == {NoRequest, Empty}

Phases == {"down", "load", "validate", "full", "store", "reopen", "run", "paused", "error", "deleting", "deleted"}
FlusherStages == {"free", "idle", "open", "write", "rename", "dead"}

TypeOK ==
  /\ data \in [Pieces -> {"absent", "wrong", "good"}]
  /\ store \in {"json", "postgres"}
  /\ moved \subseteq Files
  /\ phase \in Phases
  /\ claim \subseteq Pieces /\ have \subseteq Pieces
  /\ completing \subseteq have
  /\ unflushed \in Nat
  /\ current \in Instances \cup {None}
  /\ stage \in [Instances -> FlusherStages]
  /\ pending \in [Instances -> Request \cup Contents]
  /\ snapshot \in [Instances -> Request \cup Contents]
  /\ fd \in [Instances -> {"tmp", "bitv", "gone", None}]
  /\ \A n \in {tmp, bitv, landing} : n \in {None, Empty} \/ n \in Contents
  /\ updates \subseteq Contents

Init ==
  /\ data = [p \in Pieces |-> "absent"]
  /\ store \in {"json", "postgres"}
  /\ moved = {}
  /\ phase = "load"
  /\ claim = {} /\ have = {} /\ completing = {} /\ unflushed = 0
  /\ current = None
  /\ stage = [g \in Instances |-> "free"]
  /\ pending = [g \in Instances |-> NoRequest]
  /\ snapshot = [g \in Instances |-> NoRequest]
  /\ fd = [g \in Instances |-> None]
  /\ tmp = None /\ bitv = None /\ landing = None /\ updates = {}
  /\ faults = {}

Good == {p \in Pieces : data[p] = "good"}

-----------------------------------------------------------------------------
(* Instances and flushers *)

FreeInstances == {g \in Instances : stage[g] = "free"}

\* The other flushers' open files after the given names were removed or replaced.
Unlinked(g, gone) ==
  [o \in Instances |-> IF o = g THEN None ELSE IF fd[o] \in gone THEN "gone" ELSE fd[o]]

Spawn(g) == g \in FreeInstances /\ stage' = [stage EXCEPT ![g] = "idle"]

\* DiskBackedBitV::drop sends a last snapshot; a dead flusher does not get it. A
\* PgBitfield has no flusher and nothing happens.
DropInstance(g, bits) ==
  IF g = None THEN UNCHANGED <<stage, pending>>
  ELSE IF stage[g] = "dead"
  THEN /\ stage' = [stage EXCEPT ![g] = "free"]
       /\ UNCHANGED pending
  ELSE /\ pending' = [pending EXCEPT ![g] = bits]
       /\ UNCHANGED stage

\* Only the last request in the channel is written.
Receive(g) ==
  /\ stage[g] = "idle" /\ pending[g] # NoRequest
  /\ stage' = [stage EXCEPT ![g] = "open"]
  /\ snapshot' = [snapshot EXCEPT ![g] = pending[g]]
  /\ pending' = [pending EXCEPT ![g] = NoRequest]
  /\ UNCHANGED <<torrent, fd, names, faults>>

\* The channel of a dropped instance is closed: its flusher ends.
Retire(g) ==
  /\ stage[g] = "idle" /\ pending[g] = NoRequest /\ current # g
  /\ stage' = [stage EXCEPT ![g] = "free"]
  /\ UNCHANGED <<torrent, pending, snapshot, fd, names, faults>>

OpenTmp(g) ==
  /\ stage[g] = "open"
  /\ tmp' = Empty
  /\ fd' = [fd EXCEPT ![g] = "tmp"]
  /\ stage' = [stage EXCEPT ![g] = "write"]
  /\ UNCHANGED <<torrent, pending, snapshot, bitv, landing, updates, faults>>

\* Another flusher may have renamed the open file.
WriteTmp(g) ==
  /\ stage[g] = "write"
  /\ tmp' = IF fd[g] = "tmp" THEN snapshot[g] ELSE tmp
  /\ bitv' = IF fd[g] = "bitv" THEN snapshot[g] ELSE bitv
  /\ fd' = [fd EXCEPT ![g] = None]
  /\ stage' = [stage EXCEPT ![g] = "rename"]
  /\ UNCHANGED <<torrent, pending, snapshot, landing, updates, faults>>

RenameTmp(g) ==
  /\ stage[g] = "rename" /\ tmp # None
  /\ bitv' = tmp /\ tmp' = None /\ landing' = None
  /\ fd' = [o \in Instances |-> CASE fd[o] = "tmp" -> "bitv" [] fd[o] = "bitv" -> "gone" [] OTHER -> fd[o]]
  /\ snapshot' = [snapshot EXCEPT ![g] = NoRequest]
  /\ stage' = [stage EXCEPT ![g] = "idle"]
  /\ UNCHANGED <<torrent, pending, updates, faults>>

\* An error, in particular a temporary file that another flusher has renamed away,
\* removes both names and ends the flusher.
FlusherFails(g) ==
  /\ \/ stage[g] = "rename" /\ tmp = None /\ UNCHANGED faults
     \/ stage[g] \in {"open", "write", "rename"} /\ faults' = faults \cup {"io"}
  /\ tmp' = None /\ bitv' = None /\ landing' = None
  /\ fd' = Unlinked(g, {"tmp", "bitv"})
  /\ snapshot' = [snapshot EXCEPT ![g] = NoRequest]
  /\ pending' = [pending EXCEPT ![g] = NoRequest]
  /\ stage' = [stage EXCEPT ![g] = IF current = g THEN "dead" ELSE "free"]
  /\ UNCHANGED <<torrent, updates>>

\* PgBitfield::flush: the tasks change a row that exists only. They run in any order,
\* so that an old one may replace what a newer one stored ("stale").
UpdateRow(bits) ==
  /\ bits \in updates
  /\ updates' = updates \ {bits}
  /\ \/ /\ bitv' = IF phase = "deleted" THEN None ELSE bits
        /\ faults' = IF bitv = None \/ bitv \subseteq bits THEN faults ELSE faults \cup {"stale"}
     \/ bitv' = bitv /\ faults' = faults \cup {"io"}
  /\ UNCHANGED <<torrent, flushers, tmp, landing>>

-----------------------------------------------------------------------------
(* Initialization *)

\* No earlier instance still has something to write.
Quiet == FreeInstances = Instances /\ updates = {}
Late == IF Quiet THEN {} ELSE {"late"}

\* Reading the file makes an instance with a flusher. A file of the wrong length is
\* ignored, and its instance is dropped like any other. An earlier instance may
\* still have its last snapshot to write ("late").
Load ==
  /\ phase = "load"
  /\ faults' = faults \cup Late
  /\ IF bitv = None
     THEN phase' = "full" /\ UNCHANGED <<claim, current, stage, pending>>
     ELSE IF store = "postgres"
     THEN phase' = "validate" /\ claim' = bitv /\ UNCHANGED <<current, stage, pending>>
     ELSE \E g \in FreeInstances :
       /\ Spawn(g)
       /\ IF bitv = Empty
          THEN /\ phase' = "full" /\ pending' = [pending EXCEPT ![g] = Empty]
               /\ UNCHANGED <<claim, current>>
          ELSE /\ phase' = "validate" /\ claim' = bitv /\ current' = g
               /\ UNCHANGED pending
  /\ UNCHANGED <<store, data, moved, have, completing, unflushed, snapshot, fd, names>>

\* At least one claimed piece of every file is tried, and others by chance. Only a
\* piece that cannot be read counts as broken.
Samples == {s \in SUBSET claim :
  \A f \in Files : FilePieces[f] \cap claim # {} => FilePieces[f] \cap s # {}}

Unreadable(s) == \E p \in s : data[p] = "absent"

\* Files get their full length, so that every piece can be read from now on.
EnsureLength == data' = [p \in Pieces |-> IF data[p] = "absent" THEN "wrong" ELSE data[p]]

ValidateOk ==
  /\ phase = "validate"
  /\ \E s \in Samples : ~Unreadable(s)
  /\ phase' = "run" /\ have' = claim /\ claim' = {} /\ unflushed' = 0
  /\ EnsureLength
  /\ UNCHANGED <<store, moved, completing, current, flushers, names, faults>>

\* The file is cleared; the instance is dropped after that and sends its claims.
ValidateBroken ==
  /\ phase = "validate"
  /\ \E s \in Samples : Unreadable(s)
  /\ phase' = "full" /\ current' = None
  /\ bitv' = None /\ fd' = Unlinked(None, {"bitv"}) /\ landing' = None
  /\ DropInstance(current, claim)
  /\ claim' = {}
  /\ UNCHANGED <<store, data, moved, have, completing, unflushed, snapshot, tmp, updates, faults>>

\* A file with an unreadable piece is not read any further.
Checked == {p \in Good : \A f \in Files, q \in Pieces :
  q < p /\ {p, q} \subseteq FilePieces[f] => data[q] # "absent"}

InitialCheck ==
  /\ phase = "full"
  /\ claim' = Checked
  /\ phase' = "store"
  /\ UNCHANGED <<store, data, moved, have, completing, unflushed, current, flushers, names, faults>>

\* store_initial_check has a temporary file of its own. It is renamed without a
\* flush, so the bytes may arrive after the rename. Postgres only starts an update.
\* The flusher of a dropped instance may write over the result ("late").
StoreInitialCheck ==
  /\ phase = "store"
  /\ faults' = faults \cup Late
  /\ IF store = "json"
     THEN /\ bitv' = Empty /\ landing' = claim /\ fd' = Unlinked(None, {"bitv"})
          /\ phase' = "reopen"
          /\ UNCHANGED <<data, claim, have, unflushed, updates>>
     ELSE /\ updates' = updates \cup {claim}
          /\ phase' = "run" /\ have' = claim /\ claim' = {} /\ unflushed' = 0
          /\ EnsureLength
          /\ UNCHANGED <<bitv, landing, fd>>
  /\ UNCHANGED <<store, moved, completing, current, stage, pending, snapshot, tmp>>

WriteLands ==
  /\ landing # None
  /\ bitv' = landing /\ landing' = None
  /\ UNCHANGED <<torrent, flushers, tmp, updates, faults>>

\* The instance is made from what the file says by now; the chunk tracker refuses
\* one of the wrong length.
Reopen ==
  /\ phase = "reopen"
  /\ claim' = {}
  /\ \/ /\ bitv = None
        /\ phase' = "error"
        /\ UNCHANGED <<data, have, unflushed, current, stage, pending>>
     \/ \E g \in Instances :
          /\ bitv = Empty
          /\ Spawn(g) /\ pending' = [pending EXCEPT ![g] = Empty]
          /\ phase' = "error"
          /\ UNCHANGED <<data, have, unflushed, current>>
     \/ \E g \in Instances :
          /\ bitv \notin {None, Empty}
          /\ Spawn(g) /\ UNCHANGED pending
          /\ current' = g /\ have' = bitv /\ unflushed' = 0
          /\ phase' = "run"
          /\ EnsureLength
  /\ UNCHANGED <<store, moved, completing, snapshot, fd, names, faults>>

Cancel ==
  /\ phase \in {"load", "full", "store", "reopen", "validate"}
  /\ phase' = "error"
  /\ claim' = {} /\ current' = None
  /\ DropInstance(current, claim)
  /\ UNCHANGED <<store, data, moved, have, completing, unflushed, snapshot, fd, names, faults>>

-----------------------------------------------------------------------------
(* The running torrent *)

\* Chunks of a piece are written until its hash is right.
WritePiece(p) ==
  /\ phase = "run" /\ p \notin have
  /\ \E d \in {"wrong", "good"} : data' = [data EXCEPT ![p] = d]
  /\ UNCHANGED <<store, moved, phase, claim, have, completing, unflushed, current, flushers, names, faults>>

\* Mutant: the bit is set when all chunks are there, before the hash is checked.
PieceVerifiedUnchecked(p) ==
  /\ phase = "run" /\ p \notin have /\ data[p] # "absent"
  /\ have' = have \cup {p} /\ completing' = completing \cup {p}
  /\ UNCHANGED <<store, data, moved, phase, claim, unflushed, current, flushers, names, faults>>

PieceVerified(p) ==
  /\ phase = "run" /\ p \notin have /\ data[p] = "good"
  /\ have' = have \cup {p} /\ completing' = completing \cup {p}
  /\ UNCHANGED <<store, data, moved, phase, claim, unflushed, current, flushers, names, faults>>

\* BitV::flush
Flush ==
  IF store = "postgres"
  THEN updates' = updates \cup {have} /\ UNCHANGED pending
  ELSE pending' = [pending EXCEPT ![current] = have] /\ UNCHANGED updates

\* A DiskBackedBitV whose flusher is dead cannot be flushed.
CanFlush == store = "postgres" \/ stage[current] # "dead"

\* Mutant: only full batches are flushed.
OnPieceCompletedBatched(p) ==
  /\ phase = "run" /\ p \in completing
  /\ completing' = completing \ {p}
  /\ IF unflushed + 1 >= FlushEvery /\ CanFlush
     THEN Flush /\ unflushed' = 0
     ELSE unflushed' = unflushed + 1 /\ UNCHANGED <<pending, updates>>
  /\ UNCHANGED <<store, data, moved, phase, claim, have, current, stage, snapshot, fd, tmp, bitv, landing, faults>>

\* The bits are flushed every so often, and when the torrent is complete.
OnPieceCompleted(p) ==
  /\ phase = "run" /\ p \in completing
  /\ completing' = completing \ {p}
  /\ IF (unflushed + 1 >= FlushEvery \/ have = Pieces) /\ CanFlush
     THEN Flush /\ unflushed' = 0
     ELSE unflushed' = unflushed + 1 /\ UNCHANGED <<pending, updates>>
  /\ UNCHANGED <<store, data, moved, phase, claim, have, current, stage, snapshot, fd, tmp, bitv, landing, faults>>

\* on_piece_completed finds no tracker after a pause; the next live torrent starts
\* with nothing to flush.
Pause ==
  /\ phase = "run"
  /\ phase' = "paused"
  /\ completing' = {} /\ unflushed' = 0
  /\ faults' = IF completing = {} THEN faults ELSE faults \cup {"cut"}
  /\ UNCHANGED <<store, data, moved, claim, have, current, flushers, names>>

Resume ==
  /\ phase = "paused" /\ phase' = "run"
  /\ UNCHANGED <<store, data, moved, claim, have, completing, unflushed, current, flushers, names, faults>>

\* A fatal error drops the chunk tracker and with it the instance.
StopWithError ==
  /\ phase = "run"
  /\ phase' = "error"
  /\ have' = {} /\ completing' = {} /\ unflushed' = 0 /\ current' = None
  /\ DropInstance(current, have)
  /\ UNCHANGED <<store, data, moved, claim, snapshot, fd, names, faults>>

\* Files that were moved away are gone for the next initialization.
Found == [p \in Pieces |-> IF \E f \in moved : p \in FilePieces[f] THEN "absent" ELSE data[p]]

Start ==
  /\ phase \in {"error", "deleted", "down"}
  /\ phase' = "load"
  /\ data' = Found /\ moved' = {}
  /\ UNCHANGED <<store, claim, have, completing, unflushed, current, flushers, names, faults>>

\* The files of a complete torrent are moved one by one; any move may be the last.
MoveCompleted(f) ==
  /\ phase = "run" /\ have = Pieces /\ f \notin moved
  /\ moved' = moved \cup {f}
  /\ faults' = faults \cup {"moved"}
  /\ UNCHANGED <<store, data, phase, claim, have, completing, unflushed, current, flushers, names>>

\* Delete drops the instance first and removes the stored bits later.
Delete ==
  /\ phase \in {"run", "paused", "error"}
  /\ phase' = "deleting"
  /\ have' = {} /\ completing' = {} /\ unflushed' = 0 /\ current' = None
  /\ DropInstance(current, have)
  /\ UNCHANGED <<store, data, moved, claim, snapshot, fd, names, faults>>

DeleteFiles ==
  /\ phase = "deleting"
  /\ phase' = "deleted"
  /\ bitv' = None /\ fd' = Unlinked(None, {"bitv"}) /\ landing' = None
  /\ \/ UNCHANGED <<data, faults>>
     \/ data' = [p \in Pieces |-> "absent"] /\ faults' = faults \cup {"removed"}
  /\ UNCHANGED <<store, moved, claim, have, completing, unflushed, current, stage, pending, snapshot, tmp, updates>>

-----------------------------------------------------------------------------
(* The process and the machine *)

Halt ==
  /\ phase' = "down"
  /\ claim' = {} /\ have' = {} /\ completing' = {} /\ unflushed' = 0 /\ current' = None
  /\ stage' = [g \in Instances |-> "free"]
  /\ pending' = [g \in Instances |-> NoRequest]
  /\ snapshot' = [g \in Instances |-> NoRequest]
  /\ fd' = [g \in Instances |-> None]
  /\ landing' = None /\ updates' = {}

Crash ==
  /\ phase # "down"
  /\ Halt
  /\ UNCHANGED <<store, data, moved, tmp, bitv, faults>>

\* Data is never synced: pieces that were written may be gone.
PowerLoss ==
  /\ phase # "down"
  /\ Halt
  /\ faults' = faults \cup {"power"}
  /\ \E lost \in SUBSET Good :
       data' = [p \in Pieces |-> IF p \in lost THEN "wrong" ELSE data[p]]
  /\ UNCHANGED <<store, moved, tmp, bitv>>

Tamper(p) ==
  /\ phase = "down" /\ data[p] # "absent"
  /\ data' = [data EXCEPT ![p] = "absent"]
  /\ faults' = faults \cup {"tamper"}
  /\ UNCHANGED <<store, moved, phase, claim, have, completing, unflushed, current, flushers, names>>

-----------------------------------------------------------------------------
FlusherStep(g) ==
  Receive(g) \/ Retire(g) \/ OpenTmp(g) \/ WriteTmp(g) \/ RenameTmp(g) \/ FlusherFails(g)

InitStep ==
  Load \/ ValidateOk \/ ValidateBroken \/ InitialCheck \/ StoreInitialCheck \/ WriteLands \/ Reopen

Next ==
  \/ \E g \in Instances : FlusherStep(g)
  \/ InitStep \/ Cancel
  \/ \E p \in Pieces : WritePiece(p) \/ PieceVerified(p) \/ OnPieceCompleted(p) \/ Tamper(p)
  \/ \E f \in Files : MoveCompleted(f)
  \/ \E bits \in updates : UpdateRow(bits)
  \/ Pause \/ Resume \/ StopWithError \/ Start \/ Delete \/ DeleteFiles \/ Crash \/ PowerLoss

Bounded == Cardinality(faults') <= MaxFaults

\* A spawned flusher, update task or writer of a chunk runs on.
Fairness ==
  /\ \A g \in Instances : WF_vars(Receive(g) \/ OpenTmp(g) \/ WriteTmp(g) \/ RenameTmp(g))
  /\ WF_vars(\E p \in Pieces : OnPieceCompleted(p))
  /\ \A bits \in SUBSET Pieces : WF_vars(UpdateRow(bits) /\ "io" \notin faults')

Spec == Init /\ [][Next /\ Bounded]_vars /\ Fairness

-----------------------------------------------------------------------------
(* Properties *)

\* Whatever claims a piece, the torrent, the file, a flusher or a request on its
\* way, is right about it, as long as nothing outside the program changed the data
\* and no torrent was restarted before its old flusher was done: a restart at any
\* moment believes the file after trying a sample.
ClaimsAreGood ==
  faults \subseteq {"io"} =>
    /\ have \subseteq Good /\ claim \subseteq Good
    /\ bitv \notin {None, Empty} => bitv \subseteq Good
    /\ landing # None => landing \subseteq Good
    /\ \A bits \in updates : bits \subseteq Good
    /\ \A g \in Instances : \A r \in {pending[g], snapshot[g]} : r \notin Request => r \subseteq Good

\* A complete torrent gets its completeness stored, although the last pieces are
\* fewer than a batch: unless it stops, a flush failed or arrived out of order, or a
\* pause cut off the completion of a piece.
CompletionIsStored ==
  (phase = "run" /\ have = Pieces)
    ~> (phase # "run" \/ ~CanFlush \/ faults \cap {"io", "cut", "stale", "late"} # {} \/ bitv = Pieces)
=============================================================================
