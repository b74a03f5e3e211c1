# TLA+ models of librtbit

librtbit is a BitTorrent client library: a session manages torrents, a live
torrent talks to many peers at once, and everything shares a few locked
tables. This directory holds TLA+ models of the parts whose correctness depends
on the order in which tasks run, TLC configurations for them, and TLAPS proofs of
the invariants that matter most. Paths below are relative to `src/src/`.

## The system

| part | state | operations | talks to |
|---|---|---|---|
| `chunk_tracker.rs`, `piece_tracker.rs` | `have`, `queue_pieces`, `chunk_status`, `selected`, `hns`, `per_file_bytes`, `inflight` | reserve, steal, release, mark chunk, hash ok / failed, update_only_files, into_chunks | called under the state lock of the live torrent |
| `torrent_state/live/peer_handler.rs` | choke flag, request window, `inflight_requests` | chunk requester loop, on_received_piece / write_to_disk, on_peer_died | piece tracker, storage, peer table, network |
| `torrent_state/live/{peers,peer}/mod.rs`, `tasks.rs` | one entry per address, counters, PEX set, queue of addresses | discover, dial, accept, die, back off, retry, prune, health check, reconnect | handler tasks, `peer_semaphore`, `peer_queue` |
| `torrent_state/live/mod.rs` | the locked state, per-piece locks, notifiers | pause, fatal error, on_piece_completed, update_only_files | all of the above |
| `torrent_state/mod.rs`, `initializing.rs`, `paused.rs` | `ManagedTorrentState`, intention, selection, cancellation tokens | start, pause, stop_with_error, update_only_files | session, initialization tasks, live torrent |
| `torrent_state/streaming.rs` | position and waker of each stream | stream, poll_read, seek, drop | live torrent, blocking permits |
| `session/` | database of torrents, ids | add, delete, pause, unpause, list | persistence, torrents |
| `session_persistence/`, `bitv.rs` | files or tables | store, update, delete, flush of the bitfield | session, initialization |
| `peer_connection.rs`, `read_buf.rs` | ring buffer, writer queue, broadcast of haves | read and write messages | handler |
| `storage/`, `file_ops.rs` | open files, cache | open, read, write, take | live torrent, initialization |
| `peer_info_reader`, `dht_utils.rs` | addresses, metadata pieces | resolve a magnet | peers, DHT, trackers |
| `rss/`, `watch.rs`, `category.rs` | items and rules, folder events, categories | poll, add, store | session, persistence |
| `ip_ranges.rs`, `limits.rs`, `spawn_utils.rs`, `http_api/` | small | see source | session |

What is hard to test, and what correctness means for each part:

* *Pieces.* A piece is queued, in flight, being checked, downloaded or not wanted.
  The write path of a chunk is six critical sections with disk I/O in between,
  and steals, deaths, pauses and selection changes fall into every gap. No piece
  may be forgotten, and nothing unverified may be recorded as downloaded.
* *Peers.* An entry of the table is changed by up to six tasks (adder, outgoing,
  incoming, timer, pruner, health monitor). Every connected entry must have a
  task, every task must find its own entry, and peers that died must come back.
* *Torrents.* Initialization tasks outlive the state that started them. The
  state, the running tasks, the storage and the wish of the user must agree.
* *Locks.* Six kinds of locks are nested; nobody may wait in a circle.
* *Persistence.* Database, bitfield, categories and data are written by
  independent tasks without a common order, and the process may stop in between.
  A restart must find what was there, and claim no piece that is not.
* *Streams.* A reader parks a waker; a completion elsewhere takes it. No wake-up may
  be lost, and readers must not take the permits the writers need.
* *Connections.* Pieces complete while a connection is being set up; the peer must
  learn of each of them once, by bitfield or by have.
* *Storage.* Pausing does not wait for writers, it takes their files away.

`PROJECT.json` lists the hazards at their lines, with the properties that cover
each.

## Modules

### The core

`PieceDownload` models the piece and chunk trackers with everybody who changes
them. One action is one critical section of the torrent lock or of a peer's
entry, or one call into the storage between two of them; `at[p]` says where the
task of peer `p` stands in `write_to_disk`.

| actions | code |
|---|---|
| `RequesterIdle`, `CheckFinished`, `Reserve`, `Steal`, `AcquireNothing`, `OnSteal`, `RequestChunk` | `task_peer_chunk_requester`, `acquire_next_piece`, `acquire_piece`, `try_steal`, `on_steal` |
| `ReceiveChunk`, `CheckSteal`, `WriteChunk`, `MarkChunk`, `HashCheck`, `MarkHashOk`, `MarkHashFailed`, `OnPieceCompleted`, `DisconnectSeeds` | `on_received_piece`, `write_to_disk`, `on_piece_completed` |
| `Connect`, `SetChoked`, `PeerDied` | handshake, choke messages, `on_peer_died` |
| `UpdateOnlyFiles`, `SetStream`, `Pause`, `Resume`, `StopWithError`, `Restart` | selection, streams, pause, fatal errors |

Pieces are one unit long, so byte counters count pieces; time is left out, so any
in-flight piece may be slow enough to be stolen; what a peer has is a constant.
`Pause` also drops the peer tasks. The code only cancels them, but `storage.take()`
makes every write after it fail, and a write before it commutes with the pause:
`Storage` checks that this is so. A closed connection (`PeerDied` with the event
"churn") also stands for the death of a peer that was sent a piece nobody asked it for.
`Restart` after a fatal error loads the stored bitfield, which may be any older subset of
what the torrent had, or checks the whole disk. Padding files, which `update_only_files`
skips, have no pieces of their own here: a file is what may be selected.

`PieceBoard` is the abstract specification of this: a piece is missing, claimed by
one peer, being checked or had; bytes are written only into claimed pieces, the verdict
of a check is the truth about the bytes, and what is had stays had until a fatal error,
after which a reload may forget pieces but claims only intact ones. `PieceDownload`
implements it under a mapping (`Board`) that forgets queues, chunks, connections and
locks.

`PeerLifecycle` models the table of peers. A task of the model is the holder of a
connection permit. Time is reduced to the order of the constants in the code:
whether a terminal state is older than `PEER_PRUNE_RETENTION`, and whether a
retry delay is longer than that. Sweeps over the table visit one entry per step,
as the sharded map lets other tasks in between; the completion of the torrent and
the disconnection of the seeds is one step. A torrent may also become finished by
deselecting files (`Deselect`, which disconnects nobody), and a requester that finds
nothing left to do with a seed ends its task without an error (`NothingLeftToDo`).
A connection is set up in two steps (`OnConnected`, `OnHandshake`) and ends in two
(`OnPeerDied`, which lets go of the entry, and `DropPeer`), between which other tasks may
take the entry. `env`, chosen at the start, says which addresses exist, whether peers say
they listen elsewhere than where they connect from, and which events happen.

`ManagedTorrent` models one torrent's state machine. A *run* is a call of
`start()`; its child token cancels the initialization task and the live torrent
that comes of it. An *epoch* is the per-torrent token, which pausing an
initialization replaces. `stage[k]` is where the task of run `k` stands between
its await points: a cancelled task is dropped at an await point only, so one that
has passed the last of them still installs its result. Handles outlive `delete()`: pause,
unpause and selection changes go on afterwards. `disturbed` remembers that an
initialization was paused or started again, or that a fatal error was handled late;
`late` the runs such a handle started under a token delete did not cancel.

`LockOrder` models which lock is taken under which. An operation is the sequence
of its lock and unlock steps on the branch that takes the most; a writer closes a
lock to new readers before it waits for the ones inside, as parking_lot's locks
do. An iteration over the peer table keeps a shard until it has the next one.
The locks themselves are external; the sequences are read off the source.

### Persistence

`SessionDb` models the database of torrents and its store. A call (add, delete,
pause, unpause, reselect) is a slot with a stage; between two stages are the awaits of
the code. The json store has rows in memory, the file `session.json`, which is renamed
into place before its bytes need have arrived, and a `.torrent` file per torrent, which is
truncated, may fail with a warning only, and is written without a flush, so that its bytes
are on their way (`arriving`) when the row is stored; the postgres store has atomic statements. The process may end at any moment and the next
one restores. `wish` remembers what a user may expect of each torrent.

`FastResume` models the bitfield of one torrent: instances with their flusher tasks,
the shared temporary file, the postgres updates that run in any order, loading,
the validated sample, the full check and its storing, and the data itself, which a
moved, removed or changed file and a power loss take away. Files are names bound to
contents; a flusher keeps the file it has opened when the name is bound anew.

`Categories` models requests on the map of categories and the file each of them writes
from its own snapshot. A file is an inode, so that overlapping writers are told apart, and
its bytes arrive after the request may have been answered (`late`). This is the json store:
with postgres `load_categories` and `store_categories` do nothing and categories live in
memory only.

### Data paths

`Streams` models streams byte by byte: positions, look-ahead, pieces that span files,
wakers, seeks, blocking permits, and the callers of `wait_until_completed`. `peers` says
whether the peers that have everything are connected: a completed torrent sends them away
unless a stream needs them, a new stream calls them back before it is in the table, and
the selection changes while all of this runs. `PollRead` merges the check of `have` and
the read after it: the lock is released in between, but a piece that is had is not written
again while the torrent is live (`HaveIsVerified` in `PieceDownload`).

`PeerWire` models one connection as the peer sees it: the setup of the writer, the
channel of haves with its capacity, bitfields in both directions, uploads through the
scheduler, metadata requests and rendezvous messages.

`ReadBuf` is the ring buffer as an algorithm on positions, checked against the sequence
of bytes the peer sent: fill, parse, wrap, make contiguous, full.

`Storage` models the files of a torrent and the optional write-through cache. A storage
object is a number, `take()` makes the next one; calls of `write_chunk` go from file to
file under the lock of the cache and the read lock of a file, while the torrent is
paused, resumed, fails and is created again. Bytes are zero, wrong or right per chunk and
file. A piece may be stolen half done, and its thief writes every chunk again. Reading a piece for its check is one step: the pieces it reads have no other writer.

`Magnet` models `resolve_magnet`: the stream of addresses, the permits and readers, the
pieces of metadata, and peers that repeat their extended handshake or send data nobody
asked for (`strays`).

### Around it

`Feeds` models the RSS monitor with its database, whose lookups and writes may fail, rules
and manual downloads; `WatchFolder` the walk, the watcher's events, files that come one by
one or inside a directory, reads that fail, and the adder.

`MC*` modules give the constants values; `*Proofs` modules hold the proofs. `MCServices`
explores seven components that share no state one at a time (`part` says which moves), so
that one run covers them.

## Runs

| run | bounds | checks |
|---|---|---|
| `pieces_core` | 2 peers, 2 pieces, 2 files sharing a piece; churn, chokes, wrong data, write errors | `NoPieceLost`, `PerFileInSync`, `PieceStatesDisjoint`, `PieceLockProtects`, `HaveIsVerified`, `OwnerIsConnected`, refinement `ImplementsBoard` |
| `pieces_env` | 2 peers, 1 piece; every event, also pause, selection, streams, read errors | `NeededInSync` |
| `pieces_live` | a seed and a leech, 2 pieces, 3 faults | `DownloadCompletes` |
| `pieces_pause_lost` | 1 piece, pause | `NoPieceLost` fails |
| `peers` | 2 permits, queue of 2; two addresses of which one is never dialled, or one address with long backoff and a full queue, or one with completion and reselection too, or a peer that says it listens on the address of another | `ActiveHasTask`, `TaskOwnsPeer`, `QueuedIsScheduled`, `PexIsExact`, `DeadIsRetried` |
| `torrent` | 3 calls of start, 2 permits, 2 selections, every event | `InitializationEnds`, `DeletedIsStopped`, `NoOrphanLive`, `LiveIsAlive`, `SelectionApplied`, `StorageUsable`, `IntentionHonoured` |
| `locks` | 3 threads, 2 shards, every operation but one | `NoCircularWait` |
| `locks_update_only_files` | the remaining one too | `NoCircularWait` fails |
| `session` | 2 torrents, 2 overlapping calls, 3 calls in all, two kinds of fault, both stores and none | `IndexAgrees`, `Durable`, `RowHasTorrentFile`, `FreshIdIsFree` |
| `resume` | 2 pieces, 2 files sharing one, 2 instances, one kind of fault, both stores | `ClaimsAreGood`, `CompletionIsStored` |
| `streams` | 2 streams, 1 waiter, 2 files in 3 bytes of which either is selected, pieces of 2 bytes, 3 permits, one kind of fault | `NoLostWakeup`, `DeliversVerified`, `WaitersAreTold`, `StreamProgresses` |
| `services` | 3 pieces and a channel of 2 haves; a buffer of 5 bytes and messages up to 6; 3 addresses of which 2 are honest; 2 feeds, 2 items, a rule; 3 paths; 2 overlapping requests on a category; 2 storage objects, 2 writers, 2 pieces of which one has two chunks, no cache or one of one piece | `AnnouncesAreExact`, `BytesInOrder`, `ResolvesUnlessLost`, `FeedItemsHandled`, `WatchedFilesAdded`, `CategoriesAreStored`, `VerifiedIsOnDisk`, `GoodDataPasses` |

Two peers are enough for every race over a piece, which has one owner and one
thief or successor; a second piece and a second file let counters drift apart.
Two permits let an old and a new task of one address overlap, which is where the
table goes wrong if it does. Three calls of start are a task, its successor and
one that waits. A circle of waiting threads through the locks of this code needs
two threads, three when a closing writer takes part. Two overlapping calls reach every
race over a row or an id, and three in all let a torrent be added, changed and deleted,
or deleted and added again, with a restart anywhere; two kinds of fault let one that the
property excepts and one that it does not meet. Two instances of the bitfield are the old flusher and the new one. The
streams need a file that starts inside a piece and a short last piece, which three bytes
have. Three permits are one more than the streams hold, so a writer always gets one in turn
and `Exhausted` excuses nothing in this run. The buffer must be shorter than one message and hold a handshake and more than
one message. Two storage objects are the one whose writers are late and its successor.

`CHECK_DEADLOCK FALSE` appears where a system may come to rest: a download that
is complete, a torrent that is deleted, or a bound on calls that is used up.

### What the failing runs show

* `pieces_pause_lost`: `write_to_disk` takes a piece out of the in-flight table
  before its hash check; `into_chunks` requeues only that table. A pause in
  between leaves the piece in no state, and after the resume nobody asks for it.
* `locks_update_only_files`: `update_only_files` locks the peers under the state
  lock, against the order stated in `live/mod.rs`.

### What the properties except

Several properties hold only without certain events. Where that is so, the model has the
event, and either a run's `Env` leaves it out or a variable (`faults`, `disturbed`, `env`)
remembers it and the property names it; removing the exception shows the behaviour.

Pieces. With a read error in the hash check `NoPieceLost` fails as with a pause; with a
pause between `mark_piece_hash_ok` and `on_piece_completed` `PerFileInSync` fails; with
selection changes a piece in flight is queued again (`PieceStatesDisjoint`), reserved over
its writer (`PieceLockProtects`), and a peer dropped as not needed keeps its pieces
(`OwnerIsConnected`). With streams the priority loop of `acquire_piece`
(`piece_tracker.rs:140`) hands out a piece that is being checked, because it is neither
downloaded nor in flight, and the second download lands on the verified piece
(`HaveIsVerified`).

Peers. Once the torrent finishes, a peer that is disconnected and reconnected at once has
two tasks (`TaskOwnsPeer`); with a full queue a discovered peer stays Queued for good
(`QueuedIsScheduled`); a peer whose retry is longer than the retention is pruned before it
fires (`DeadIsRetried` speaks of short retries only). Two things leave the PEX set wrong
about an address for good (`mislisted`): a peer whose extended handshake names another
address than the one it connected from, and a connection that takes an entry between the
end of `on_peer_died` and its `drop_peer`, which then leaves the address of a gone peer
in the set (`PexIsExact` goes on for the other addresses).

Torrents (`disturbed`). Unpausing a torrent that was added paused and is still initializing
starts a second task; the first one installs Paused and the second then does nothing
(`torrent_state/mod.rs:401`, `IntentionHonoured`). When an initialization is paused and
restarted, the cancelled task writes its error over the new attempt or over a live torrent
(`NoOrphanLive`); when it is started twice, both tasks take the storage of one object and
the dummy may be installed (`StorageUsable`). `DeletedIsStopped` holds with all of this, but
for `late`: a handle kept across `delete()` that unpauses the torrent after a pause, or the
delete itself, has replaced the cancelled token starts a live torrent nothing will stop.

Session. `sameTorrent`: two calls about one torrent overlap and the row of a deleted one may
be written back. `sameId`: the json store gives two overlapping adds one id, and the second
answers with the first one's torrent. `flush`: a failed write leaves the row in memory and
the next flush stores it. `stop`: the session stops under a call. `torn`: the process ends
before the bytes of the renamed file have arrived, and the next start fails to read it.
`restore`: a torrent that could not be restored is missing until the next start.
`torrentFile`: the `.torrent` file could not be opened or written, or the process ended
before its bytes had arrived; only `RowHasTorrentFile` excepts it.

Bitfield. `io`: a flush failed. `late`: a torrent is started again while the flusher of its
last instance still writes. `stale`: postgres updates overtake each other. `cut`: a pause
between the marking and the completion of a piece, whose flush never comes. `moved`,
`removed`, `tamper`: the data changed after it was claimed, and the sample need not
notice; a piece in the sample that fails its hash does not count, because a wrong hash is
not an error of `check_piece` (`initializing.rs:162`). `power`: the bitfield is synced, the
data is not.

Streams. `cut`, `error`: a pause or an error between the marking and the completion of a
piece skips the wake-up. `missed`: completion between the check and the subscription of
`wait_until_completed`. `deselected`: a change of the selection completes the torrent and
notifies nobody. `stranded`: the peers were sent away by a decision made before a new
stream was in the table and after it had called for them. Streams that hold every permit
stop the writers they wait for (`Exhausted`). A waiter of a live torrent that is paused or
fails waits on an object nobody uses any more, and is not counted.

Services. A connection misses haves when its channel overflows (`lagged`), or when the
bitfield of the peer is not known yet, since it is then taken to have the piece (`silent`).
A peer is not told of a piece it said it has (`claimed`), also when a later bitfield takes
that back. A request for the metadata piece after the last one passes the bound and panics
(`panic`, `peer_handler.rs:1036`), unless the length is a multiple of the piece size
(`MetadataExact`). A peer that repeats its extended handshake resets the metadata
collected so far, and one that sends data before the handshake or after the last piece
makes `unwrap` panic (`strays`). An item of a feed is stored before it is added and never
tried again (`notAdded`, `seen`), and added twice when its row is pruned (`rowLost`) or
cannot be looked up, which counts as not stored (`notLookedUp`). A file
completed between the walk and the watch of a folder is not seen (`gap`), nor a magnet that
was there before (`magnet`), nor files already in a directory that appears (`directory`),
and a file that cannot be read is not tried again (`unread`). Overlapping requests on
categories store the older snapshot (`overlap`), and one that was answered may still be
with the writing thread when the process stops (`late`). A cache that evicts a half-written
piece makes its check read zeros (`evicted`). When a thief writes a chunk again that was
already marked, the cache takes it first; if the write to disk then fails, cache and disk
differ on a chunk that counts, and a third peer may complete the piece before the fatal
error stops the torrent (`halfRewritten`). A torrent added without `allow_overwrite` cannot be started again after an
error, because its own files exist (`Storage`, `MayOpen`).

### Fairness

* `pieces_live`: the executor polls every task, a lost peer is dialled again, and a
  connected peer unchokes and answers. Faults are bounded by `MaxFaults`, and one
  peer has every piece. A steal is announced before its piece is stolen again:
  the announcement follows without an await, the next steal waits for a multiple
  of the average piece time. Without this assumption a late `on_steal` makes a peer
  that stole its piece back forget what it has just asked for.
* `peers`: the adder, the spawned tasks and the timers run. A timer gets
  strong fairness since only the model's bound on the queue, which the code does
  not wait for, can disable it.
* `torrent`: the steps of initialization tasks and of a started delete happen;
  permits are granted in order, so waiting for one is strongly fair.
* `resume`: the flusher tasks and the tails of `on_piece_completed` run, and an update
  of the database row that does not fail is carried out.
* `streams`: a write that is repeatedly able to take a permit takes one (the permits
  are granted in order), and a write that has one finishes. Readers need no
  fairness: the property is about being woken.

## Proofs

Every theorem holds for all values of the constants, under the named assumptions of the
module (`ConstantsAssumption` and its like) and, where the statement has one, under a
hypothesis on the environment. Each proof follows one pattern: an inductive invariant,
stated in the proof module as a conjunction of named parts, holds initially, is kept by
each action (one step or lemma per action) and implies the property. The table names the
theorem of each property.

| module | theorems (property) |
|---|---|
| `PieceDownloadProofs` | `TypeCorrect` (`TypeOK`), `PiecesDisjoint` (`PieceStatesDisjoint`), `PieceLockHolds` (`PieceLockProtects`), `VerifiedDataIsKept` (`HaveIsVerified`), `NeededIsInSync` (`NeededInSync`), `OwnersAreConnected` (`OwnerIsConnected`), `NothingIsForgotten` (`NoPieceLost`), `FilesAreCounted` (`PerFileInSync`), `DownloadImplementsBoard` (`ImplementsBoard`) |
| `PeerLifecycleProofs` | `NoZombiePeers` (`ActiveHasTask`), `TasksOwnTheirPeers` (`TaskOwnsPeer`), `QueuedPeersAreDialled` (`QueuedIsScheduled`), `PexTellsTheTruth` (`PexIsExact`) |
| `ManagedTorrentProofs` | `DeleteStopsEverything` (`DeletedIsStopped`), `NoneRunsUnseen` (`NoOrphanLive`), `TheStateIsAlive` (`LiveIsAlive`), `SelectionIsInstalled` (`SelectionApplied`), `StorageIsInstalled` (`StorageUsable`), `WishIsHonoured` (`IntentionHonoured`) |
| `LockOrderProofs` | `LocksAreOrdered` (`NoCircularWait`) |
| `SessionDbProofs` | `MapsAgree` (`IndexAgrees`), `HandedOutIdsAreFree` (`FreshIdIsFree`), `RowsHaveFiles` (`RowHasTorrentFile`), `RestartFindsTheLastCall` (`Durable`) |
| `FastResumeProofs` | `StoredClaimsAreGood` (`ClaimsAreGood`) |
| `StreamsProofs` | `WakeupsAreNotLost` (`NoLostWakeup`), `ReadsAreVerified` (`DeliversVerified`), `CompletionIsTold` (`WaitersAreTold`) |
| `ServicesProofs` | `PeersAreToldExactly` (`AnnouncesAreExact`), `BytesArriveInOrder` (`BytesInOrder`), `MagnetsResolve` (`ResolvesUnlessLost`), `ChosenItemsAreAddedOnce` (`FeedItemsHandled`), `FilesAreNotOverlooked` (`WatchedFilesAdded`), `CategoriesSurvive` (`CategoriesAreStored`), `VerifiedPiecesAreOnDisk` (`VerifiedIsOnDisk`), `GoodPiecesPass` (`GoodDataPasses`) |

### The arguments

*Pieces.* `PiecesDisjoint`, `PieceLockHolds` and `VerifiedDataIsKept` need each other:
that a chunk is never written over a verified piece needs that its writer owns the piece;
that the owner stays needs that a reserved piece is in no other state; and that the piece
is in no other state when its hash is ok needs that a piece being checked is out of the
queue and of the in-flight table and has one checker (`CheckerExclusive`), that its bytes
do not change after the verdict (`VerdictHolds`), and that nothing survives a pause
(`Quiescent`). `Inductive` is their conjunction, under `NoSelectNoStream`: files are
neither reselected nor streamed. On top of it:

* `NeededIsInSync` has no hypothesis at all. The set of missing selected pieces changes by
  one piece in `mark_piece_hash_ok`, which must not count a piece that is had or not
  selected, and is counted anew on reselection and restart.
* `OwnersAreConnected` needs `OwnerInv`: only selected pieces are in flight, and a peer
  that has everything is disconnected only once nothing selected is missing, so it can own
  nothing by then.
* `NothingIsForgotten` assumes `Uninterrupted` (also no pause) and `ReadsSucceed`: both
  are ways to lose a piece between its chunks and its verdict, as `pieces_pause_lost`
  shows for the pause.
* `FilesAreCounted` assumes `Uninterrupted`, because a pause skips `on_piece_completed`,
  and `FilesAdjoin`: the files of a piece are all those that contain it. The code takes
  the files from the first that contains the piece to the first that does not
  (`live/mod.rs:667`), so an empty file between two files that share a piece cuts the
  second off; the assumption is not a formality. The invariant counts the pieces whose
  completion is still to come (`Uncounted`) and says that no piece is on its way twice
  (`CountedOnce`).

*Refinement.* Without reselection, streams and read errors, `PieceDownload` implements
`PieceBoard`. Initial states map to initial states; from `Inductive` before and after a
step, every requester step is a claim or a stutter, every writer step a write, a
submission, a verdict or a stutter, the death of a peer gives its claims back, a pause
or an error is the abstract stop, and a restart is the abstract reload, from a subset of
what was had or from the intact pieces.

*Peers.* In `Owned` the entry and the task point at each other. `QueuedPeersAreDialled`
follows an address from the queue to the adder to the task; it needs `Owned` only to know
that nothing is finished. `PexTellsTheTruth` needs that whatever is listed and not
`mislisted` is live *under its own address* (`PexListed`), since `set_state` removes the current outgoing address of an
entry, whatever it was when it was inserted.

*Torrents.* `TorrentInv` says how runs, tokens and tasks are ordered (`RunsInOrder`), what
a delete has established at each of its stages (`DeleteGoesOn`), and, unless disturbed,
that one initialization task at most is under way and will install what the user asked for
(`OneInitialization`). Deleting is proved with every disturbance and with handles that go on
after it: a run that is not in `late` hangs on a token that is closed.

*Locks.* `LocksAreOrdered` assumes that `update_only_files` is not among the operations,
which locks the peers under the state (`locks_update_only_files` shows the circle), and
nothing else: any threads, any number of shards. The locks have a rank: the database, the
torrent, the shards of the peer table one after the other, then the choked, state and PEX
locks, then streams and pieces. A script is `Orderly` when every place in it can be
annotated with the locks that may be held there, such that a thread that waits has only
locks of a lower rank; scripts put together of orderly parts are orderly, and the
iteration over the shards, whose script is a recursive function of the number of shards
left, is so by a least counterexample. The lock of a piece is the exception: it is held
while the state is locked again. But nobody waits to write a piece, so a reader of it waits
for a thread that tried it, which lets it go in its next step without waiting. In a circle,
the thread that waits for the highest lock would wait for one that waits for a higher lock.

*Session.* `DbInv`: what a call holds follows from its stage (`Proper`), objects referred
to exist and are what they are taken for (`Refs`), and a restore is over before the first
call (`Restoring`). `IdInv` adds where handed-out ids stand against the counter or the
rows; `Owned` says of every row of a torrent who answers for it: the restore, the index or
the call that is deleting or changing it, and therefore when its `.torrent` file may go.
`KeptInv`, for `Durable`: as long as there was no fault but that of a `.torrent` file, the rows in memory and the rows
stored each hold at most one row of a torrent, with a setting its user may expect, and none
only where none is expected (`Fits`); they differ only for the torrent of a call between
its row and its flush (`Agree`); a torrent of the database has its row, or its add is about
to write it, and every row belongs to someone (`Known`); and what a call may count on
follows from its stage (`Counts`). `Durable` holds at every moment and not only between
calls: the user of a call that has not been answered may expect the old or the new state.

*Bitfield.* `Claims` bounds every copy of the bitfield (file, row, snapshot, request,
temporary file about to be renamed) by the pieces that are good now, or that stay good
because the torrent has them (`Trusted`); `OneFlusher` and `Initializing` say which copies
can exist in which phase.

*Streams.* A parked reader has its waker in the table in use and is not at the end of its
file. `ReadsAreVerified` is arithmetic: what `compute_current_piece` allows to read lies
in one piece and in the file, for any lengths.

*Services.* `WireInv` orders marking, counting and broadcasting of a piece against the
decision on the bitfield. `RingInv` says that slot `start + k` modulo the length holds the
byte `consumed + k` of the peer; moving a wrapped buffer into one piece is two lemmas about
its two halves. `MagnetInv` says of each reader what it has and what its peer still owes.
`FeedInv` and `WatchInv` say where an item or a file is between two steps. `StoreInOrder`
says what a request that is alone knows of the two names and their inodes at each step of
its store. `StorageInv`: nobody writes into files that were taken, the chunks of a piece
have one writer, and a good page of the cache is on disk but for the chunks being written
and the pieces of which a chunk is cached again only (`NotWritten`, `halfRewritten`).
`AheadInv`, for `GoodDataPasses`, is the other direction: unless an unverified piece was
evicted, every unverified piece of which something has been written is in the cache the
live torrent reads, or the next one will (`CacheIsFresh`, `CacheOf`), and what is good on
disk is good there; a writer is ahead of the disk by the part it is about to write
(`JobAhead`). It needs what `get_or_insert_mut` does to the least-recently-used order: a
piece that is touched stays, and nothing else leaves a cache that had it (`TouchedHolds`),
and so what taking an element out of a sequence leaves (`Without`).

### Assumptions

The assumptions on constants are typing, that sentinels (`None`, `NoPath`, "torn",
`NoInode`) are not values, and that sets the code cannot have empty are not (`File`, the
storage objects). `StorageAssumption` states of each chunk that the files it touches on
disk form a sequence, which TLC evaluates. The exceptions of the properties
("What the properties except") are theirs and not the theorems'.

### Only model-checked

Every invariant a run checks, and the refinement, is stated by a theorem. What is left to
TLC is liveness under fairness (`DownloadCompletes`, `DeadIsRetried`, `InitializationEnds`,
`CompletionIsStored`, `StreamProgresses`), which is out of the prover's reach, and the two
disagreements of `pieces_pause_lost` and `locks_update_only_files`, which are
counterexamples. Where a proof needs induction over data (the iteration over the shards, the
first occurrence in a sequence) it takes a least counterexample from the well-foundedness of
the numbers.

## Not modelled

* Contents of messages, speed and statistics, file priorities (they only order
  candidates), trackers and DHT, UPnP, creation of torrents, the web UI: formatting, I/O
  or sequential code without shared state.
* HTTP handlers translate; the calls behind them are actions of the models of what they
  change. Authentication is left out.
* The window of outstanding requests (`requests_sem`), whose permits come back with a
  chunk or an unchoke only.
* The accept loop (`session/network.rs`) and dialling over TCP and uTP
  (`stream_connect.rs`): an accepted or dialled connection is one step of
  `PeerLifecycle`. The loop drives the handshakes in a branch of a select that a failed
  handshake switches off until the next connection is accepted, so a liveness property
  of it would need connections that keep coming.
* The mmap storage, the removal of files on delete, rate limits, lookup in IP ranges.
* Categories with the postgres store, which keeps them in memory only.

## Plan

Done: the core, persistence, streams, connections, storage and services, the refinement of
the download, and a theorem for every safety property. Next:

1. The accept loop and its liveness; the request window in `PieceDownload`.
2. The removal of files on delete, against writers of the storage that was taken.
