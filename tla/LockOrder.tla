------------------------------ MODULE LockOrder ------------------------------
(***************************************************************************)
(* The locks of a session and a live torrent, and who holds which of them  *)
(* while waiting for which other: the database of torrents, the state of   *)
(* one torrent, the shards of the table of peers, the state of the live    *)
(* torrent, the per-piece locks, the table of streams, the set of peers    *)
(* for PEX and the choke flag of a peer handler.                           *)
(*                                                                         *)
(* An operation is the sequence of its lock and unlock steps, on the       *)
(* branch of the code that takes the most locks; what it computes is in    *)
(* the other modules. Locks are parking_lot's: a writer closes the lock to *)
(* new readers first and then waits for the ones inside.                   *)
(***************************************************************************)
EXTENDS Naturals, Sequences, FiniteSets

CONSTANTS
  Thread,   \* threads of the runtime
  Shards,   \* number of shards of the table of peers
  Ops       \* operations that happen

OpNames == {"acquire_next_piece", "on_peer_died", "on_received_piece", "add_incoming_peer",
            "prune_dead_peers", "pex", "pause", "stats", "api_torrent_list", "delete",
            "stream", "poll_read", "update_only_files"}

ASSUME ConstantsAssumption == Shards \in Nat \ {0} /\ Ops \subseteq OpNames

Shard == {<<"shard", i>> : i \in 1..Shards}

Lock == {<<"db">>, <<"torrent">>, <<"choked">>, <<"state">>, <<"piece">>, <<"streams">>, <<"pex">>}
        \cup Shard

VARIABLES
  todo,     \* the steps each thread has left in its operation
  readers,  \* of each lock
  writer    \* {} or the thread in each lock, or closing it to new readers

vars == <<todo, readers, writer>>

Kinds == {"read", "write", "try", "unlock"}

TypeOK ==
  /\ \A t \in Thread : \A i \in DOMAIN todo[t] :
       todo[t][i].do \in Kinds /\ todo[t][i].lock \in Lock
  /\ readers \in [Lock -> SUBSET Thread]
  /\ writer \in [Lock -> SUBSET Thread]
  /\ \A l \in Lock : Cardinality(writer[l]) <= 1
-----------------------------------------------------------------------------
(* The steps of the operations *)

Step(k, l) == <<[do |-> k, lock |-> l]>>

\* A guard that lives for the steps of body.
Read(l, body) == Step("read", l) \o body \o Step("unlock", l)
Write(l, body) == Step("write", l) \o body \o Step("unlock", l)

\* iter_mut() of the table of peers: one shard after the other, each released
\* once the next one is locked.
SweepFrom(body) ==
  LET From[i \in 1..Shards] ==
        IF i = Shards THEN body \o Step("unlock", <<"shard", i>>)
        ELSE body \o Step("write", <<"shard", i + 1>>) \o Step("unlock", <<"shard", i>>) \o From[i + 1]
  IN From

Sweep(body) == Step("write", <<"shard", 1>>) \o SweepFrom(body)[1]

\* on_steal: statistics of both peers, then the requests of the victim.
OnSteal(mine, theirs) == Read(mine, <<>>) \o Read(theirs, <<>>) \o Write(theirs, <<>>)

\* Mutation: the victim is told while the peer is still locked.
AcquireNextPieceUnderPeer(mine, theirs) ==
  Write(mine,
    Read(<<"choked">>, <<>>)
    \o Write(<<"state">>, Read(<<"streams">>, <<>>)
                          \o Step("try", <<"piece">>) \o Step("unlock", <<"piece">>))
    \o OnSteal(mine, theirs))

\* acquire_next_piece: can_steal only tries the lock of the piece, and the
\* victim is told after both locks are released.
AcquireNextPiece(mine, theirs) ==
  Write(mine,
    Read(<<"choked">>, <<>>)
    \o Write(<<"state">>, Read(<<"streams">>, <<>>)
                          \o Step("try", <<"piece">>) \o Step("unlock", <<"piece">>)))
  \o OnSteal(mine, theirs)

\* on_peer_died of a live peer: its entry stays locked while its pieces are
\* released and while the torrent is asked whether it is finished.
OnPeerDied(mine) ==
  Write(mine,
    Write(<<"pex">>, <<>>) \o Write(<<"state">>, <<>>)
    \o Read(<<"state">>, <<>>) \o Read(<<"state">>, Read(<<"streams">>, <<>>)))
  \o Write(mine, <<>>)

\* on_piece_completed: the streams are woken under the lock of the state, the
\* seeds are disconnected without it ("prevent deadlocks").
OnPieceCompleted ==
  Write(<<"state">>, Write(<<"streams">>, <<>>) \o Read(<<"streams">>, <<>>))
  \o Sweep(Write(<<"pex">>, <<>>))

\* on_received_piece: the request is forgotten; write_to_disk takes the lock of
\* the piece under the state and keeps it until the chunk is marked.
OnReceivedPiece(mine) ==
  Write(mine, <<>>)
  \o Read(<<"state">>, Step("read", <<"piece">>))
  \o Write(<<"state">>, <<>>) \o Step("unlock", <<"piece">>)
  \o Write(<<"state">>, <<>>) \o Write(mine, <<>>) \o OnPieceCompleted

\* add_incoming_peer, connecting_to_live and every other set_state of one peer.
AddIncomingPeer(mine) == Write(mine, Write(<<"pex">>, <<>>))

\* prune_dead_peers, requeue_dead_peers
PruneDeadPeers == Sweep(<<>>)

\* task_send_pex_to_peer
Pex == Read(<<"pex">>, <<>>)

\* pause, and stop_with_error
Pause == Write(<<"torrent">>, Write(<<"state">>, <<>>))

\* stats
Stats == Read(<<"torrent">>, Read(<<"state">>, <<>>) \o Read(<<"state">>, <<>>))

\* with_torrents: the callback runs under the lock of the database.
ApiTorrentList == Read(<<"db">>, Stats)

\* Session::delete: the torrent is looked up and removed, then paused, and its
\* state taken by with_state_mut, which pauses one that went live in between.
Delete == Read(<<"db">>, <<>>) \o Write(<<"db">>, <<>>) \o Pause \o Pause

\* ManagedTorrent::stream: reconnects the peers it needs, one lock inside.
Stream ==
  Read(<<"torrent">>, <<>>) \o Read(<<"torrent">>, Read(<<"state">>, <<>>))
  \o Read(<<"torrent">>, Sweep(<<>>)) \o Write(<<"streams">>, <<>>)

\* FileStream::poll_read of a piece that is not there.
PollRead ==
  Read(<<"torrent">>, Read(<<"state">>, Write(<<"streams">>, <<>>)))

\* update_only_files reconnects the peers under the lock of the state.
UpdateOnlyFiles == Write(<<"torrent">>, Write(<<"state">>, Sweep(<<>>)))

ScriptsOf(o) ==
  CASE o = "acquire_next_piece" -> {AcquireNextPiece(m, v) : m, v \in Shard}
    [] o = "on_peer_died" -> {OnPeerDied(m) : m \in Shard}
    [] o = "on_received_piece" -> {OnReceivedPiece(m) : m \in Shard}
    [] o = "add_incoming_peer" -> {AddIncomingPeer(m) : m \in Shard}
    [] o = "prune_dead_peers" -> {PruneDeadPeers}
    [] o = "pex" -> {Pex}
    [] o = "pause" -> {Pause}
    [] o = "stats" -> {Stats}
    [] o = "api_torrent_list" -> {ApiTorrentList}
    [] o = "delete" -> {Delete}
    [] o = "stream" -> {Stream}
    [] o = "poll_read" -> {PollRead}
    [] o = "update_only_files" -> {UpdateOnlyFiles}
-----------------------------------------------------------------------------
(* Threads and locks *)

Init ==
  /\ todo = [t \in Thread |-> <<>>]
  /\ readers = [l \in Lock |-> {}]
  /\ writer = [l \in Lock |-> {}]

Begin(t) ==
  /\ todo[t] = <<>>
  /\ \E o \in Ops : \E s \in ScriptsOf(o) : todo' = [todo EXCEPT ![t] = s]
  /\ UNCHANGED <<readers, writer>>

At(t, k, l) == todo[t] # <<>> /\ Head(todo[t]) = [do |-> k, lock |-> l]

Advance(t) == todo' = [todo EXCEPT ![t] = Tail(todo[t])]

LockRead(t, l) ==
  /\ At(t, "read", l) /\ writer[l] = {}
  /\ readers' = [readers EXCEPT ![l] = @ \cup {t}]
  /\ Advance(t) /\ UNCHANGED writer

\* The writer bit is set: no new readers.
CloseToReaders(t, l) ==
  /\ At(t, "write", l) /\ writer[l] = {}
  /\ writer' = [writer EXCEPT ![l] = {t}]
  /\ UNCHANGED <<todo, readers>>

LockWrite(t, l) ==
  /\ At(t, "write", l) /\ writer[l] = {t} /\ readers[l] = {}
  /\ Advance(t) /\ UNCHANGED <<readers, writer>>

\* try_write fails instead of waiting; its guard is dropped at once.
TryWrite(t, l) ==
  /\ At(t, "try", l)
  /\ writer' = [writer EXCEPT ![l] = IF writer[l] = {} /\ readers[l] = {} THEN {t} ELSE @]
  /\ Advance(t) /\ UNCHANGED readers

Unlock(t, l) ==
  /\ At(t, "unlock", l)
  /\ writer' = [writer EXCEPT ![l] = @ \ {t}]
  /\ readers' = [readers EXCEPT ![l] = @ \ {t}]
  /\ Advance(t)

\* The lock that the next step of t is about.
NextLock(t) == {todo[t][i].lock : i \in DOMAIN todo[t] \cap {1}}

Next ==
  \E t \in Thread :
    \/ Begin(t)
    \/ \E l \in NextLock(t) :
         LockRead(t, l) \/ CloseToReaders(t, l) \/ LockWrite(t, l) \/ TryWrite(t, l) \/ Unlock(t, l)

Spec == Init /\ [][Next]_vars
-----------------------------------------------------------------------------
(* Properties *)

\* u keeps t from taking the lock it waits for (t itself, when it asks twice).
Blocks(u, t) ==
  \E l \in NextLock(t) :
    \/ (At(t, "read", l) \/ At(t, "write", l)) /\ u \in writer[l] /\ ~(u = t /\ At(t, "write", l))
    \/ At(t, "write", l) /\ writer[l] = {t} /\ u \in readers[l]

\* "peers one first, then the global one": no set of threads in which everybody
\* waits for a lock that somebody of the set holds.
NoCircularWait ==
  \A S \in (SUBSET Thread) \ {{}} : \E t \in S : \A u \in S : ~Blocks(u, t)
=============================================================================
