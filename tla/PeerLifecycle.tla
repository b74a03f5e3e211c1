---------------------------- MODULE PeerLifecycle ----------------------------
(***************************************************************************)
(* The table of peers of a live torrent and the tasks that move a peer     *)
(* through it: the queue and the adder that dials, one task per            *)
(* connection, incoming connections, retry timers after a death, the       *)
(* health monitor, the pruner, and the torrent completing and being        *)
(* reselected.                                                             *)
(*                                                                         *)
(* Every action is what one task does while it holds the peer's entry of   *)
(* the table. A task stands for the connection permit it holds             *)
(* (peer_semaphore). Time is reduced to what the constants of the code     *)
(* order: whether a terminal state has outlived PEER_PRUNE_RETENTION, and  *)
(* whether a retry delay is shorter than that.                             *)
(***************************************************************************)
EXTENDS Integers, Sequences, FiniteSets

CONSTANTS
  Addr,           \* peer addresses
  Task,           \* connection permits (peer_limit)
  Seed,           \* peers that have the full torrent
  ListenOn,       \* ListenOn[a]: where a peer that connects from a listens, in some environments
  Blocked,        \* addresses the adder skips (blocklist, port 0, IPv6)
  DisableUpload,  \* disable_upload option
  MinActive,      \* MIN_PEERS_THRESHOLD
  QueueLen,       \* capacity of peer_queue
  MaxTimers,      \* bound on the pending retries of one peer
  Environments,   \* the environments considered: [swarm, elsewhere, events]
  None

\* What an environment may do besides discovering, connecting and losing peers.
Events == {"finish",       \* the torrent completes and is reselected
           "queueFull",    \* peers are discovered faster than they are dialled
           "longBackoff"}  \* a retry delay exceeds PEER_PRUNE_RETENTION

ASSUME ConstantsAssumption ==
  /\ Seed \subseteq Addr /\ Blocked \subseteq Addr
  /\ ListenOn \in [Addr -> Addr]
  /\ DisableUpload \in BOOLEAN
  /\ MinActive \in Nat /\ QueueLen \in Nat \ {0} /\ MaxTimers \in Nat \ {0}
  /\ Environments \subseteq [swarm : SUBSET Addr, elsewhere : BOOLEAN, events : SUBSET Events]
  /\ None \notin Addr /\ None \notin Task

VARIABLES
  peer,         \* PeerState of each address, "absent" if it is not in the table
  holder,       \* the task whose channel the Connecting or Live state holds
  out,          \* outgoing_address
  dialled,      \* outgoing_connections > 0
  pex,          \* live_outgoing_peers
  mislisted,    \* addresses whose listing in pex is no longer tied to their entry
  queue,        \* peer_queue
  adding,       \* the address for which the adder waits for a permit, or None
  stage,        \* of each task
  addr,         \* the address it serves, or None
  incoming,     \* whether the peer connected to us
  timers,       \* pending wait_for_peer tasks of each peer
  wait,         \* delay of the retry the current Dead state waits for
  old,          \* terminal states older than PEER_PRUNE_RETENTION
  requeueing,   \* entries the health monitor has still to visit
  reconnecting, \* entries reconnect_all_not_needed_peers has still to visit
  finished,     \* is_finished_and_no_active_streams
  env           \* the environment: the peers there are and what may happen

table == <<peer, holder, out, dialled, pex, wait, old, mislisted>>
tasks == <<stage, addr, incoming>>
sweeps == <<requeueing, reconnecting>>
vars == <<table, queue, adding, tasks, timers, sweeps, finished, env>>

States == {"absent", "queued", "connecting", "live", "dead", "notNeeded"}

\* The entry holds the channel of a connection.
Active(a) == peer[a] \in {"connecting", "live"}

\* The torrent does not complete in this environment.
NeverFinishes == "finish" \notin env.events

\* "spawned" has not yet marked its peer Connecting; "dialling" has, and waits
\* for the handshake; "running" has exchanged it; "leaving" has told its
\* connection to disconnect because nothing is left to do; "dropping" is about to
\* remove an entry it found in a wrong state.
Started(t) == stage[t] \in {"dialling", "running", "leaving"}

TypeOK ==
  /\ peer \in [Addr -> States]
  /\ holder \in [Addr -> Task \cup {None}]
  /\ out \in [Addr -> Addr \cup {None}]
  /\ dialled \in [Addr -> BOOLEAN]
  /\ pex \subseteq Addr /\ mislisted \subseteq Addr
  /\ queue \in Seq(Addr)
  /\ adding \in Addr \cup {None}
  /\ stage \in [Task -> {"free", "spawned", "dialling", "running", "leaving", "dropping"}]
  /\ addr \in [Task -> Addr \cup {None}]
  /\ \A t \in Task : addr[t] = None <=> stage[t] = "free"
  /\ incoming \in [Task -> BOOLEAN]
  /\ timers \in [Addr -> 0..MaxTimers]
  /\ wait \in [Addr -> {"none", "short", "long"}]
  /\ old \subseteq Addr /\ requeueing \subseteq Addr /\ reconnecting \subseteq Addr
  /\ finished \in BOOLEAN /\ env \in Environments

Init ==
  /\ peer = [a \in Addr |-> "absent"]
  /\ holder = [a \in Addr |-> None]
  /\ out = [a \in Addr |-> None]
  /\ dialled = [a \in Addr |-> FALSE]
  /\ pex = {} /\ mislisted = {} /\ queue = <<>> /\ adding = None
  /\ stage = [t \in Task |-> "free"]
  /\ addr = [t \in Task |-> None]
  /\ incoming = [t \in Task |-> FALSE]
  /\ timers = [a \in Addr |-> 0]
  /\ wait = [a \in Addr |-> "none"]
  /\ old = {} /\ requeueing = {} /\ reconnecting = {}
  /\ finished = FALSE /\ env \in Environments
-----------------------------------------------------------------------------
(* Entries *)

\* Mutation: a peer that is no longer live stays listed for PEX.
SetStateKeepingPex(a, s, t, d) ==
  /\ peer' = [peer EXCEPT ![a] = s]
  /\ holder' = [holder EXCEPT ![a] = t]
  /\ pex' = IF s = "live" /\ out[a] # None /\ d THEN pex \cup {out[a]} ELSE pex
  /\ wait' = [wait EXCEPT ![a] = "none"]
  /\ old' = old \ {a}

\* Peer::set_state on the entry of a, which holds the channel of task t (None
\* for a state without one); d says whether we ever reached a by dialling.
\* The addresses live by outgoing connections are kept for PEX.
SetState(a, s, t, d) ==
  LET left == IF peer[a] = "live" THEN pex \ {out[a]} ELSE pex
  IN /\ peer' = [peer EXCEPT ![a] = s]
     /\ holder' = [holder EXCEPT ![a] = t]
     /\ pex' = IF s = "live" /\ out[a] # None /\ d THEN left \cup {out[a]} ELSE left
     /\ wait' = [wait EXCEPT ![a] = "none"]
     /\ old' = old \ {a}

\* drop_peer, and removal by the pruner.
Forget(s) ==
  /\ peer' = [a \in Addr |-> IF a \in s THEN "absent" ELSE peer[a]]
  /\ holder' = [a \in Addr |-> IF a \in s THEN None ELSE holder[a]]
  /\ wait' = [a \in Addr |-> IF a \in s THEN "none" ELSE wait[a]]
  /\ old' = old \ s
  /\ UNCHANGED <<out, dialled, pex>>

HasRoom == Len(queue) < QueueLen

\* Mutation: the last slot of the queue is not used.
TrySendOffByOne(a) == queue' = IF Len(queue) + 1 < QueueLen THEN Append(queue, a) ELSE queue

\* try_send: the address is dropped when the queue is full.
TrySend(a) ==
  /\ HasRoom \/ "queueFull" \in env.events
  /\ queue' = IF HasRoom THEN Append(queue, a) ELSE queue
-----------------------------------------------------------------------------
(* Discovery and dialling *)

\* add_peer_if_not_seen
AddIfNotSeen(a) ==
  /\ a \in env.swarm /\ peer[a] = "absent"
  /\ out' = [out EXCEPT ![a] = a]
  /\ dialled' = [dialled EXCEPT ![a] = FALSE]
  /\ peer' = [peer EXCEPT ![a] = "queued"]
  /\ TrySend(a)
  /\ UNCHANGED <<holder, pex, wait, old, mislisted, adding, tasks, timers, sweeps, finished, env>>

\* task_peer_adder takes an address off the queue. If nothing is left to do it
\* marks the peer NotNeeded, whatever its state.
AdderTakes ==
  /\ adding = None /\ queue # <<>>
  /\ queue' = Tail(queue)
  /\ LET a == Head(queue)
     IN \/ /\ DisableUpload /\ finished
           /\ IF peer[a] # "absent"
              THEN SetState(a, "notNeeded", None, FALSE) ELSE UNCHANGED <<peer, holder, pex, wait, old>>
           /\ UNCHANGED adding
        \/ /\ ~(DisableUpload /\ finished) /\ a \in Blocked
           /\ UNCHANGED <<peer, holder, pex, wait, old, adding>>
        \/ /\ ~(DisableUpload /\ finished) /\ a \notin Blocked
           /\ adding' = a
           /\ UNCHANGED <<peer, holder, pex, wait, old>>
  /\ UNCHANGED <<out, dialled, mislisted, tasks, timers, sweeps, finished, env>>

\* The adder gets a permit and spawns task_manage_outgoing_peer.
AdderSpawns(t) ==
  /\ adding # None /\ stage[t] = "free"
  /\ stage' = [stage EXCEPT ![t] = "spawned"]
  /\ addr' = [addr EXCEPT ![t] = adding]
  /\ incoming' = [incoming EXCEPT ![t] = FALSE]
  /\ adding' = None
  /\ UNCHANGED <<table, queue, timers, sweeps, finished, env>>

\* The task returns and its permit is free again.
Exit(t) ==
  /\ stage' = [stage EXCEPT ![t] = "free"]
  /\ addr' = [addr EXCEPT ![t] = None]
  /\ UNCHANGED incoming

\* Mutation: any peer that is not Live is taken for idle.
MarkConnectingAnyway(t) ==
  LET a == addr[t]
  IN /\ stage[t] = "spawned"
     /\ IF peer[a] \notin {"absent", "live"}
        THEN /\ SetState(a, "connecting", t, FALSE)
             /\ stage' = [stage EXCEPT ![t] = "dialling"]
             /\ UNCHANGED <<addr, incoming>>
        ELSE Exit(t) /\ UNCHANGED <<peer, holder, pex, wait, old>>
     /\ UNCHANGED <<out, dialled, mislisted, queue, adding, timers, sweeps, finished, env>>

\* mark_peer_connecting: only from Queued or NotNeeded; a peer that connected
\* to us or died meanwhile makes the task return.
MarkConnecting(t) ==
  LET a == addr[t]
  IN /\ stage[t] = "spawned"
     /\ IF peer[a] \in {"queued", "notNeeded"}
        THEN /\ SetState(a, "connecting", t, FALSE)
             /\ stage' = [stage EXCEPT ![t] = "dialling"]
             /\ UNCHANGED <<addr, incoming>>
        ELSE Exit(t) /\ UNCHANGED <<peer, holder, pex, wait, old>>
     /\ UNCHANGED <<out, dialled, mislisted, queue, adding, timers, sweeps, finished, env>>

\* on_connected: counted whether or not a handshake follows.
OnConnected(t) ==
  /\ stage[t] = "dialling" /\ peer[addr[t]] # "absent" /\ ~dialled[addr[t]]
  /\ dialled' = [dialled EXCEPT ![addr[t]] = TRUE]
  /\ UNCHANGED <<peer, holder, out, pex, wait, old, mislisted, tasks, queue, adding, timers, sweeps, finished, env>>

\* on_handshake: connecting_to_live moves the channel that the Connecting state holds,
\* whoever it belongs to.
OnHandshake(t) ==
  LET a == addr[t]
  IN /\ stage[t] = "dialling"
     /\ stage' = [stage EXCEPT ![t] = "running"]
     /\ dialled' = [dialled EXCEPT ![a] = IF peer[a] = "absent" THEN @ ELSE TRUE]
     /\ IF peer[a] = "connecting"
        THEN SetState(a, "live", holder[a], TRUE)
        ELSE UNCHANGED <<peer, holder, pex, wait, old>>
     /\ UNCHANGED <<out, mislisted, addr, incoming, queue, adding, timers, sweeps, finished, env>>

\* add_incoming_peer with a free permit and a peer that is not active.
AddIncomingPeer(a, t) ==
  /\ a \in env.swarm /\ stage[t] = "free" /\ ~Active(a)
  /\ IF peer[a] = "absent"
     THEN /\ peer' = [peer EXCEPT ![a] = "live"]
          /\ holder' = [holder EXCEPT ![a] = t]
          /\ out' = [out EXCEPT ![a] = None]
          /\ dialled' = [dialled EXCEPT ![a] = FALSE]
          /\ UNCHANGED <<pex, wait, old>>
     ELSE SetState(a, "live", t, dialled[a]) /\ UNCHANGED <<out, dialled>>
  /\ stage' = [stage EXCEPT ![t] = "running"]
  /\ addr' = [addr EXCEPT ![t] = a]
  /\ incoming' = [incoming EXCEPT ![t] = TRUE]
  /\ UNCHANGED <<mislisted, queue, adding, timers, sweeps, finished, env>>

\* on_extended_handshake of an incoming peer: the address it listens on. The list for
\* PEX is not told: what the entry was listed under stays there, and a peer that listens
\* elsewhere shares that address with the entry that was dialled under it.
OnExtendedHandshake(t) ==
  /\ stage[t] = "running" /\ incoming[t] /\ peer[addr[t]] # "absent"
  /\ LET a == addr[t]
         listen == IF env.elsewhere THEN ListenOn[a] ELSE a
     IN /\ out' = [out EXCEPT ![a] = listen]
        /\ mislisted' = IF listen = a THEN mislisted
                        ELSE mislisted \cup {listen} \cup ({out[a]} \ {None})
  /\ UNCHANGED <<peer, holder, dialled, pex, wait, old, queue, adding, tasks, timers, sweeps, finished, env>>

\* The chunk requester finds nothing to download from, or upload to, a peer
\* that has the full torrent. Its entry stays Live until the task ends.
NothingLeftToDo(t) ==
  /\ stage[t] = "running" /\ finished
  /\ addr[t] \in Seed /\ peer[addr[t]] = "live"
  /\ stage' = [stage EXCEPT ![t] = "leaving"]
  /\ UNCHANGED <<table, queue, adding, addr, incoming, timers, sweeps, finished, env>>
-----------------------------------------------------------------------------
(* Death and retry *)

\* Mutation: the entry of an incoming peer stays as it is.
OnPeerDiedLeaving(t, error) ==
  LET a == addr[t]
  IN /\ Started(t)
     /\ ~error => peer[a] # "live" \/ stage[t] = "leaving"
     /\ IF Active(a) /\ ~incoming[t]
        THEN SetState(a, "dead", None, FALSE) ELSE UNCHANGED <<peer, holder, pex, wait, old>>
     /\ Exit(t)
     /\ UNCHANGED <<out, dialled, mislisted, timers, queue, adding, sweeps, finished, env>>

\* on_peer_died. A task that ends without an error found that its peer is not
\* Live, or that nothing is left to do. An entry that is Queued or Dead is reported
\* as a bug: take_state has made it Queued, and the task lets go of it before it
\* drops the peer.
OnPeerDied(t, error) ==
  LET a == addr[t]
      retry == error /\ ~finished /\ ~incoming[t]
  IN /\ Started(t)
     /\ ~error => peer[a] # "live" \/ stage[t] = "leaving"
     /\ \/ /\ peer[a] = "absent"
           /\ UNCHANGED <<peer, holder, pex, wait, old, timers>> /\ Exit(t)
        \/ /\ peer[a] = "notNeeded"
           /\ old' = old \ {a}
           /\ UNCHANGED <<peer, holder, pex, wait, timers>> /\ Exit(t)
        \/ /\ peer[a] \in {"queued", "dead"}
           /\ SetState(a, "queued", None, FALSE)
           /\ stage' = [stage EXCEPT ![t] = "dropping"]
           /\ UNCHANGED <<addr, incoming, timers>>
        \/ /\ Active(a) /\ ~retry
           /\ SetState(a, IF error /\ ~finished THEN "dead" ELSE "notNeeded", None, FALSE)
           /\ UNCHANGED timers /\ Exit(t)
        \/ /\ Active(a) /\ retry
           /\ peer' = [peer EXCEPT ![a] = "dead"]
           /\ holder' = [holder EXCEPT ![a] = None]
           /\ pex' = IF peer[a] = "live" THEN pex \ {out[a]} ELSE pex
           /\ \E w \in {"short"} \cup (IF "longBackoff" \in env.events THEN {"long"} ELSE {}) :
                 wait' = [wait EXCEPT ![a] = w]
           /\ timers' = [timers EXCEPT ![a] = IF @ < MaxTimers THEN @ + 1 ELSE @]
           /\ old' = old \ {a} /\ Exit(t)
     /\ UNCHANGED <<out, dialled, mislisted, queue, adding, sweeps, finished, env>>

\* drop_peer removes the entry as it is by then: a connection made since is not taken
\* off the list for PEX.
DropPeer(t) ==
  LET a == addr[t]
  IN /\ stage[t] = "dropping"
     /\ Forget({a})
     /\ mislisted' = IF peer[a] = "live" THEN mislisted \cup ({out[a]} \ {None}) ELSE mislisted
     /\ Exit(t)
     /\ UNCHANGED <<queue, adding, timers, sweeps, finished, env>>

\* A retry delay ends. A long one ends after the pruner has seen the Dead state
\* it was started for.
TimerFires(a) ==
  /\ timers[a] > 0 /\ wait[a] # "long"
  /\ timers' = [timers EXCEPT ![a] = @ - 1]
  /\ IF peer[a] = "dead"
     THEN SetState(a, "queued", None, FALSE) /\ TrySend(a)
     ELSE UNCHANGED <<peer, holder, pex, wait, old, queue>>
  /\ UNCHANGED <<out, dialled, mislisted, adding, tasks, sweeps, finished, env>>

\* A terminal state outlives PEER_PRUNE_RETENTION, unless it is a Dead state
\* whose retry comes before that.
GrowOld(a) ==
  /\ peer[a] \in {"dead", "notNeeded"} /\ a \notin old /\ wait[a] # "short"
  /\ old' = old \cup {a}
  /\ UNCHANGED <<peer, holder, out, dialled, pex, wait, mislisted, queue, adding, tasks, timers, sweeps, finished, env>>

\* prune_dead_peers
PruneDeadPeers ==
  /\ old # {}
  /\ Forget(old)
  /\ UNCHANGED <<mislisted, queue, adding, tasks, timers, sweeps, finished, env>>

\* task_peer_health_monitor finds too few active peers.
HealthCheck ==
  /\ ~finished /\ requeueing = {}
  /\ Cardinality({a \in Addr : Active(a)}) < MinActive
  /\ \E a \in Addr : peer[a] = "dead"
  /\ requeueing' = env.swarm
  /\ UNCHANGED <<table, queue, adding, tasks, timers, reconnecting, finished, env>>

\* requeue_dead_peers, one entry; it stops when the queue is full.
RequeueDeadPeer(a) ==
  /\ a \in requeueing
  /\ IF peer[a] = "dead"
     THEN /\ SetState(a, "queued", None, FALSE)
          /\ TrySend(a)
          /\ requeueing' = IF HasRoom THEN requeueing \ {a} ELSE {}
     ELSE requeueing' = requeueing \ {a} /\ UNCHANGED <<peer, holder, pex, wait, old, queue>>
  /\ UNCHANGED <<out, dialled, mislisted, adding, tasks, timers, reconnecting, finished, env>>
-----------------------------------------------------------------------------
(* The torrent *)

\* The last piece is completed: disconnect_all_peers_that_have_full_torrent
\* marks the seeds NotNeeded; their tasks end when they see the message.
Complete ==
  LET seeds == {a \in Seed : peer[a] = "live"}
  IN /\ ~NeverFinishes /\ ~finished
     /\ finished' = TRUE
     /\ peer' = [a \in Addr |-> IF a \in seeds THEN "notNeeded" ELSE peer[a]]
     /\ holder' = [a \in Addr |-> IF a \in seeds THEN None ELSE holder[a]]
     /\ pex' = pex \ {out[a] : a \in seeds}
     /\ old' = old \ seeds
     /\ UNCHANGED <<out, dialled, wait, mislisted, queue, adding, tasks, timers, sweeps, env>>

\* Fewer files are selected, and the torrent has them all: nobody is told.
Deselect ==
  /\ ~NeverFinishes /\ ~finished
  /\ finished' = TRUE
  /\ UNCHANGED <<table, queue, adding, tasks, timers, sweeps, env>>

\* Files that are not complete are selected or streamed, whether or not the
\* torrent was finished: reconnect_all_not_needed_peers starts.
Reselect ==
  /\ ~NeverFinishes
  /\ finished' = FALSE
  /\ reconnecting' = env.swarm
  /\ UNCHANGED <<table, queue, adding, tasks, timers, requeueing, env>>

\* reconnect_not_needed_peer, one entry; the iteration stops when the queue is
\* full. A peer that listens elsewhere is queued under that address and its
\* own entry stays as it is.
ReconnectNotNeededPeer(a) ==
  /\ a \in reconnecting
  /\ IF peer[a] = "notNeeded" /\ out[a] # None
     THEN /\ TrySend(out[a])
          /\ reconnecting' = IF HasRoom THEN reconnecting \ {a} ELSE {}
          /\ IF out[a] = a THEN SetState(a, "queued", None, FALSE)
                           ELSE UNCHANGED <<peer, holder, pex, wait, old>>
     ELSE reconnecting' = reconnecting \ {a} /\ UNCHANGED <<peer, holder, pex, wait, old, queue>>
  /\ UNCHANGED <<out, dialled, mislisted, adding, tasks, timers, requeueing, finished, env>>
-----------------------------------------------------------------------------
TaskStep(t) ==
  \/ AdderSpawns(t) \/ MarkConnecting(t) \/ OnConnected(t) \/ OnHandshake(t)
  \/ OnExtendedHandshake(t) \/ NothingLeftToDo(t) \/ DropPeer(t)
  \/ \E a \in Addr : AddIncomingPeer(a, t)
  \/ \E error \in BOOLEAN : OnPeerDied(t, error)

PeerStep(a) ==
  \/ AddIfNotSeen(a) \/ TimerFires(a) \/ GrowOld(a)
  \/ RequeueDeadPeer(a) \/ ReconnectNotNeededPeer(a)

Next ==
  \/ \E t \in Task : TaskStep(t)
  \/ \E a \in Addr : PeerStep(a)
  \/ AdderTakes \/ PruneDeadPeers \/ HealthCheck
  \/ Complete \/ Deselect \/ Reselect

Spec == Init /\ [][Next]_vars
-----------------------------------------------------------------------------
(* Properties *)

\* An entry that is Connecting or Live always has a task that will end it: no
\* order of incoming and outgoing connections, deaths, completion and
\* reselection leaves a zombie that is neither used nor retried nor pruned.
ActiveHasTask ==
  \A a \in Addr : Active(a) => /\ holder[a] \in Task
                               /\ Started(holder[a]) /\ addr[holder[a]] = a

\* While nothing completes, a connection task finds the entry of its peer
\* Connecting or Live with its own channel: it is the only task of that peer
\* (live/mod.rs, "Each peer has one main task"), and on_peer_died never meets
\* the states it calls a bug.
TaskOwnsPeer ==
  NeverFinishes =>
     \A t \in Task : Started(t) => Active(addr[t]) /\ holder[addr[t]] = t

\* Queued: "Will be tried to be connected as soon as possible." An address the
\* adder does not skip is on its way to being dialled, as long as the queue
\* takes what is sent to it and the torrent does not complete.
QueuedIsScheduled ==
  env.events = {} =>
     \A a \in Addr \ Blocked : peer[a] = "queued" =>
        \/ \E i \in 1..Len(queue) : queue[i] = a
        \/ adding = a
        \/ \E t \in Task : stage[t] = "spawned" /\ addr[t] = a

\* live_outgoing_peers, "live addresses we connected to, for PEX": it holds only
\* addresses that are live and, while nothing completes, every live peer we
\* dialled under its own address. Two things spoil an address for good: a peer that
\* connected from elsewhere said it listens there, and a drop_peer that met a
\* connection made after its task had let go of the entry.
PexIsExact ==
  /\ \A a \in pex \ mislisted : peer[a] = "live"
  /\ NeverFinishes =>
        \A a \in Addr \ mislisted : peer[a] = "live" /\ out[a] = a /\ ~incoming[holder[a]] => a \in pex

\* Nothing keeps a peer that is queued, or that died and waits for a short
\* backoff, from being connected again: not a lost timer, not a stale queue
\* entry, not the health monitor or an incoming connection in between.
DeadIsRetried ==
  \A a \in Addr \ Blocked :
     env.events = {} /\ (peer[a] = "queued" \/ (peer[a] = "dead" /\ wait[a] = "short")) ~> Active(a)
-----------------------------------------------------------------------------
\* The adder, the timers and the spawned tasks keep running; a permit that is
\* free goes to the waiting adder. A timer is delayed only by the bound on the
\* queue, which the code does not wait for: strong fairness.
Fairness ==
  /\ WF_vars(AdderTakes)
  /\ WF_vars(\E t \in Task : AdderSpawns(t))
  /\ \A t \in Task : WF_vars(MarkConnecting(t))
  /\ \A a \in Addr : SF_vars(TimerFires(a))

FairSpec == Spec /\ Fairness
=============================================================================
