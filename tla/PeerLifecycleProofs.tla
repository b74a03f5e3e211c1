------------------------ MODULE PeerLifecycleProofs ------------------------
(* Machine-checked proofs about PeerLifecycle, for any number of addresses,  *)
(* permits and queue slots.                                                  *)
EXTENDS PeerLifecycle, TLAPS

\* Only terminal states grow old.
OldIsTerminal == \A a \in old : peer[a] \in {"dead", "notNeeded"}

\* The inductive invariant of both theorems.
Owned ==
  /\ TypeOK /\ OldIsTerminal /\ ActiveHasTask
  /\ NeverFinishes => ~finished /\ \A t \in Task : stage[t] # "dropping"
  /\ TaskOwnsPeer

USE DEF Active, Started, States, NeverFinishes

\* The initial state is well typed.
LEMMA TypeInit == Init => TypeOK
<1> SUFFICES ASSUME Init PROVE TypeOK
  OBVIOUS
<1>1. queue \in Seq(Addr) /\ timers \in [Addr -> 0..MaxTimers]
  BY ConstantsAssumption DEF Init, ConstantsAssumption
<1>2. /\ dialled \in [Addr -> BOOLEAN] /\ incoming \in [Task -> BOOLEAN]
      /\ finished \in BOOLEAN
  BY DEF Init
<1>3. \A t \in Task : addr[t] = None <=> stage[t] = "free"
  BY DEF Init
<1> QED
  BY <1>1, <1>2, <1>3 DEF Init, TypeOK

\* set_state keeps the types of the table.
LEMMA SetStateType ==
  ASSUME TypeOK, NEW a \in Addr, NEW s \in States, NEW t \in Task \cup {None},
         NEW d \in BOOLEAN, SetState(a, s, t, d)
  PROVE  /\ peer' \in [Addr -> States] /\ holder' \in [Addr -> Task \cup {None}]
         /\ pex' \subseteq Addr /\ wait' \in [Addr -> {"none", "short", "long"}]
         /\ old' \subseteq Addr
  BY DEF TypeOK, SetState

\* Dropping entries keeps the types of the table.
LEMMA ForgetType ==
  ASSUME TypeOK, NEW z \in SUBSET Addr, Forget(z)
  PROVE  /\ peer' \in [Addr -> States] /\ holder' \in [Addr -> Task \cup {None}]
         /\ pex' \subseteq Addr /\ wait' \in [Addr -> {"none", "short", "long"}]
         /\ old' \subseteq Addr /\ UNCHANGED <<out, dialled>>
  BY DEF TypeOK, Forget

\* A send to the queue keeps its type.
LEMMA SendType == ASSUME TypeOK, NEW a \in Addr, TrySend(a) PROVE queue' \in Seq(Addr)
  BY DEF TypeOK, TrySend

\* The end of a task keeps the types of the tasks.
LEMMA ExitType ==
  ASSUME TypeOK, NEW t \in Task, Exit(t)
  PROVE  /\ stage' \in [Task -> {"free", "spawned", "dialling", "running", "leaving", "dropping"}]
         /\ addr' \in [Task -> Addr \cup {None}] /\ incoming' \in [Task -> BOOLEAN]
         /\ \A u \in Task : addr'[u] = None <=> stage'[u] = "free"
  BY ConstantsAssumption DEF TypeOK, Exit, ConstantsAssumption

\* Every step of a connection task keeps the types.
LEMMA TypeTask ==
  ASSUME TypeOK, NEW t \in Task, TaskStep(t) PROVE TypeOK'
<1> USE ConstantsAssumption DEF ConstantsAssumption, table, tasks, sweeps
<1>1. CASE AdderSpawns(t)
  BY <1>1 DEF TypeOK, AdderSpawns
<1>2. CASE MarkConnecting(t)
  <2>1. addr[t] \in Addr
    BY <1>2 DEF TypeOK, MarkConnecting
  <2>2. CASE SetState(addr[t], "connecting", t, FALSE) /\ UNCHANGED <<addr, incoming>>
             /\ stage' = [stage EXCEPT ![t] = "dialling"]
    <3>1. /\ peer' \in [Addr -> States] /\ holder' \in [Addr -> Task \cup {None}]
          /\ pex' \subseteq Addr /\ wait' \in [Addr -> {"none", "short", "long"}]
          /\ old' \subseteq Addr
      BY <2>1, <2>2, SetStateType
    <3> QED
      BY <1>2, <2>2, <3>1 DEF TypeOK, MarkConnecting
  <2>3. CASE Exit(t) /\ UNCHANGED <<peer, holder, pex, wait, old>>
    BY <1>2, <2>3, ExitType DEF TypeOK, MarkConnecting
  <2> QED
    BY <1>2, <2>2, <2>3 DEF MarkConnecting
<1>3. CASE OnHandshake(t)
  <2>1. addr[t] \in Addr
    BY <1>3 DEF TypeOK, OnHandshake
  <2>2. /\ peer' \in [Addr -> States] /\ holder' \in [Addr -> Task \cup {None}]
        /\ pex' \subseteq Addr /\ wait' \in [Addr -> {"none", "short", "long"}]
        /\ old' \subseteq Addr
    <3>1. CASE SetState(addr[t], "live", holder[addr[t]], TRUE)
      <4>1. holder[addr[t]] \in Task \cup {None}
        BY <2>1 DEF TypeOK
      <4> QED
        BY <2>1, <3>1, <4>1, SetStateType
    <3>2. CASE UNCHANGED <<peer, holder, pex, wait, old>>
      BY <3>2 DEF TypeOK
    <3> QED
      BY <1>3, <3>1, <3>2 DEF OnHandshake
  <2>3. dialled' \in [Addr -> BOOLEAN]
    BY <1>3, <2>1 DEF TypeOK, OnHandshake
  <2> QED
    BY <1>3, <2>1, <2>2, <2>3 DEF TypeOK, OnHandshake
<1>8. CASE OnConnected(t)
  <2>1. addr[t] \in Addr
    BY <1>8 DEF TypeOK, OnConnected
  <2>2. dialled' \in [Addr -> BOOLEAN]
    BY <1>8, <2>1 DEF TypeOK, OnConnected
  <2> QED
    BY <1>8, <2>2 DEF TypeOK, OnConnected
<1>9. CASE DropPeer(t)
  <2>1. addr[t] \in Addr
    BY <1>9 DEF TypeOK, DropPeer
  <2>2. Forget({addr[t]}) /\ Exit(t) /\ UNCHANGED <<queue, adding, timers, sweeps, finished, env>>
    BY <1>9 DEF DropPeer
  <2>3. mislisted' \subseteq Addr
    BY <1>9, <2>1 DEF TypeOK, DropPeer
  <2> QED
    BY <2>1, <2>2, <2>3, ForgetType, ExitType DEF TypeOK
<1>4. CASE OnExtendedHandshake(t)
  <2>1. /\ addr[t] \in Addr /\ ListenOn[addr[t]] \in Addr
        /\ UNCHANGED <<peer, holder, dialled, pex, wait, old, queue, adding, tasks, timers, sweeps, finished, env>>
    BY <1>4 DEF TypeOK, OnExtendedHandshake
  <2>2. out' \in [Addr -> Addr \cup {None}] /\ mislisted' \subseteq Addr
    BY <1>4, <2>1 DEF TypeOK, OnExtendedHandshake
  <2> QED
    BY <2>1, <2>2 DEF TypeOK
<1>5. ASSUME NEW a \in Addr, AddIncomingPeer(a, t) PROVE TypeOK'
  <2>1. /\ peer' \in [Addr -> States] /\ holder' \in [Addr -> Task \cup {None}]
        /\ pex' \subseteq Addr /\ wait' \in [Addr -> {"none", "short", "long"}]
        /\ old' \subseteq Addr /\ out' \in [Addr -> Addr \cup {None}]
        /\ dialled' \in [Addr -> BOOLEAN]
    <3>1. CASE SetState(a, "live", t, dialled[a]) /\ UNCHANGED <<out, dialled>>
      <4>1. dialled[a] \in BOOLEAN
        BY DEF TypeOK
      <4>2. /\ peer' \in [Addr -> States] /\ holder' \in [Addr -> Task \cup {None}]
            /\ pex' \subseteq Addr /\ wait' \in [Addr -> {"none", "short", "long"}]
            /\ old' \subseteq Addr
        BY <3>1, <4>1, SetStateType
      <4> QED
        BY <3>1, <4>2 DEF TypeOK
    <3>2. CASE peer[a] = "absent"
      <4>1. /\ peer' = [peer EXCEPT ![a] = "live"] /\ holder' = [holder EXCEPT ![a] = t]
            /\ out' = [out EXCEPT ![a] = None] /\ dialled' = [dialled EXCEPT ![a] = FALSE]
            /\ UNCHANGED <<pex, wait, old>>
        BY <1>5, <3>2 DEF AddIncomingPeer
      <4>2. dialled' \in [Addr -> BOOLEAN]
        BY <4>1 DEF TypeOK
      <4> QED
        BY <4>1, <4>2 DEF TypeOK
    <3> QED
      BY <1>5, <3>1, <3>2 DEF AddIncomingPeer
  <2> QED
    BY <1>5, <2>1 DEF TypeOK, AddIncomingPeer
<1>6. ASSUME NEW error \in BOOLEAN, OnPeerDied(t, error) PROVE TypeOK'
  <2>1. addr[t] \in Addr /\ UNCHANGED <<out, dialled, mislisted, queue, adding, sweeps, finished, env>>
    BY <1>6 DEF TypeOK, OnPeerDied
  <2>2. ASSUME NEW s \in {"queued", "dead", "notNeeded"}, SetState(addr[t], s, None, FALSE)
        PROVE  /\ peer' \in [Addr -> States] /\ holder' \in [Addr -> Task \cup {None}]
               /\ pex' \subseteq Addr /\ wait' \in [Addr -> {"none", "short", "long"}]
               /\ old' \subseteq Addr
    <3>1. s \in States /\ None \in Task \cup {None} /\ FALSE \in BOOLEAN
      OBVIOUS
    <3> QED
      BY <2>1, <2>2, <3>1, SetStateType
  <2>3. CASE UNCHANGED <<peer, holder, pex, wait, timers>> /\ old' \subseteq old /\ Exit(t)
    BY <2>1, <2>3, ExitType DEF TypeOK
  <2>4. CASE /\ SetState(addr[t], "queued", None, FALSE)
             /\ stage[t] # "free" /\ stage' = [stage EXCEPT ![t] = "dropping"]
             /\ UNCHANGED <<addr, incoming, timers>>
    <3>1. /\ peer' \in [Addr -> States] /\ holder' \in [Addr -> Task \cup {None}]
          /\ pex' \subseteq Addr /\ wait' \in [Addr -> {"none", "short", "long"}]
          /\ old' \subseteq Addr
      BY <2>2, <2>4
    <3> QED
      BY <2>1, <2>4, <3>1 DEF TypeOK
  <2>5. ASSUME NEW s \in {"dead", "notNeeded"}, SetState(addr[t], s, None, FALSE), UNCHANGED timers, Exit(t)
        PROVE  TypeOK'
    BY <2>1, <2>2, <2>5, ExitType DEF TypeOK
  <2>6. CASE /\ peer' = [peer EXCEPT ![addr[t]] = "dead"]
             /\ holder' = [holder EXCEPT ![addr[t]] = None]
             /\ pex' = IF peer[addr[t]] = "live" THEN pex \ {out[addr[t]]} ELSE pex
             /\ \E w \in {"short"} \cup (IF "longBackoff" \in env.events THEN {"long"} ELSE {}) :
                   wait' = [wait EXCEPT ![addr[t]] = w]
             /\ timers' = [timers EXCEPT ![addr[t]] = IF @ < MaxTimers THEN @ + 1 ELSE @]
             /\ old' = old \ {addr[t]} /\ Exit(t)
    <3>1. /\ peer' \in [Addr -> States] /\ holder' \in [Addr -> Task \cup {None}]
          /\ pex' \subseteq Addr /\ wait' \in [Addr -> {"none", "short", "long"}]
          /\ old' \subseteq Addr /\ timers' \in [Addr -> 0..MaxTimers]
      BY <2>1, <2>6 DEF TypeOK
    <3> QED
      BY <2>1, <2>6, <3>1, ExitType DEF TypeOK
  <2> QED
    BY <1>6, <2>3, <2>4, <2>5, <2>6 DEF OnPeerDied
<1>7. CASE NothingLeftToDo(t)
  BY <1>7 DEF TypeOK, NothingLeftToDo
<1> QED
  BY <1>1, <1>2, <1>3, <1>4, <1>5, <1>6, <1>7, <1>8, <1>9 DEF TaskStep

\* Every step about one peer keeps the types.
LEMMA TypePeer ==
  ASSUME TypeOK, NEW a \in Addr, PeerStep(a) PROVE TypeOK'
<1> USE ConstantsAssumption DEF ConstantsAssumption, table, tasks, sweeps
<1>1. CASE AddIfNotSeen(a)
  BY <1>1, SendType DEF TypeOK, AddIfNotSeen
<1>2. ASSUME SetState(a, "queued", None, FALSE)
      PROVE  /\ peer' \in [Addr -> States] /\ holder' \in [Addr -> Task \cup {None}]
             /\ pex' \subseteq Addr /\ wait' \in [Addr -> {"none", "short", "long"}]
             /\ old' \subseteq Addr
  BY <1>2, SetStateType
<1>3. ASSUME UNCHANGED <<peer, holder, pex, wait, old>>
      PROVE  /\ peer' \in [Addr -> States] /\ holder' \in [Addr -> Task \cup {None}]
             /\ pex' \subseteq Addr /\ wait' \in [Addr -> {"none", "short", "long"}]
             /\ old' \subseteq Addr
  BY <1>3 DEF TypeOK
<1>4. CASE TimerFires(a)
  <2>1. timers' \in [Addr -> 0..MaxTimers]
    BY <1>4 DEF TypeOK, TimerFires
  <2> QED
    BY <1>2, <1>3, <1>4, <2>1, SendType DEF TypeOK, TimerFires
<1>5. CASE GrowOld(a)
  BY <1>5 DEF TypeOK, GrowOld
<1>6. CASE RequeueDeadPeer(a)
  <2>1. CASE peer[a] = "dead"
    <3>1. queue' \in Seq(Addr)
      BY <1>6, <2>1, SendType DEF RequeueDeadPeer
    <3> QED
      BY <1>2, <1>6, <2>1, <3>1 DEF TypeOK, RequeueDeadPeer
  <2>2. CASE peer[a] # "dead"
    BY <1>6, <2>2 DEF TypeOK, RequeueDeadPeer
  <2> QED
    BY <2>1, <2>2
<1>7. CASE ReconnectNotNeededPeer(a)
  <2>1. CASE peer[a] = "notNeeded" /\ out[a] # None
    <3>1. queue' \in Seq(Addr)
      BY <1>7, <2>1, SendType DEF TypeOK, ReconnectNotNeededPeer
    <3>2. SetState(a, "queued", None, FALSE) \/ UNCHANGED <<peer, holder, pex, wait, old>>
      BY <1>7, <2>1, Zenon DEF ReconnectNotNeededPeer
    <3> QED
      BY <1>2, <1>3, <1>7, <2>1, <3>1, <3>2 DEF TypeOK, ReconnectNotNeededPeer
  <2>2. CASE ~(peer[a] = "notNeeded" /\ out[a] # None)
    BY <1>7, <2>2 DEF TypeOK, ReconnectNotNeededPeer
  <2> QED
    BY <2>1, <2>2
<1> QED
  BY <1>1, <1>4, <1>5, <1>6, <1>7 DEF PeerStep

\* Every step keeps the types.
LEMMA TypeStep == TypeOK /\ [Next]_vars => TypeOK'
<1> SUFFICES ASSUME TypeOK, [Next]_vars PROVE TypeOK'
  OBVIOUS
<1> USE ConstantsAssumption DEF ConstantsAssumption, table, tasks, sweeps
<1>1. CASE AdderTakes
  <2>1. Head(queue) \in Addr /\ queue' \in Seq(Addr)
    BY <1>1 DEF AdderTakes, TypeOK
  <2>2. /\ peer' \in [Addr -> States] /\ holder' \in [Addr -> Task \cup {None}]
        /\ pex' \subseteq Addr /\ wait' \in [Addr -> {"none", "short", "long"}]
        /\ old' \subseteq Addr
    <3>1. CASE SetState(Head(queue), "notNeeded", None, FALSE)
      BY <2>1, <3>1, SetStateType
    <3>2. CASE UNCHANGED <<peer, holder, pex, wait, old>>
      BY <3>2 DEF TypeOK
    <3> QED
      BY <1>1, <3>1, <3>2 DEF AdderTakes
  <2>3. adding' \in Addr \cup {None}
    BY <1>1, <2>1 DEF AdderTakes, TypeOK
  <2> QED
    BY <1>1, <2>1, <2>2, <2>3 DEF TypeOK, AdderTakes
<1>2. CASE PruneDeadPeers
  BY <1>2, ForgetType DEF TypeOK, PruneDeadPeers
<1>3. CASE HealthCheck
  BY <1>3 DEF TypeOK, HealthCheck
<1>4. CASE Complete
  BY <1>4 DEF TypeOK, Complete
<1>5. CASE Reselect
  BY <1>5 DEF TypeOK, Reselect
<1>6. CASE Deselect
  BY <1>6 DEF TypeOK, Deselect
<1>7. CASE UNCHANGED vars
  BY <1>7 DEF TypeOK, vars
<1> QED
  BY <1>1, <1>2, <1>3, <1>4, <1>5, <1>6, <1>7, TypeTask, TypePeer DEF Next
-----------------------------------------------------------------------------
(* Who owns an entry *)

\* A step after which every entry it changed is inactive, or active for a task
\* that has started at that address, keeps ActiveHasTask; the others keep it
\* because their tasks go on.
LEMMA ActiveStep ==
  ASSUME ActiveHasTask,
         \A a \in Addr : \/ peer'[a] \notin {"connecting", "live"}
                         \/ /\ holder'[a] \in Task /\ addr'[holder'[a]] = a
                            /\ stage'[holder'[a]] \in {"dialling", "running", "leaving"}
                         \/ /\ peer'[a] = peer[a] /\ holder'[a] = holder[a]
                            /\ Active(a) => /\ addr'[holder[a]] = addr[holder[a]]
                                           /\ stage'[holder[a]] = stage[holder[a]]
  PROVE  ActiveHasTask'
  BY DEF ActiveHasTask

\* Steps that leave the tasks alone and only make entries inactive.
LEMMA QuietStep ==
  ASSUME Owned, TypeOK', UNCHANGED <<tasks, env>>,
         \A a \in Addr : \/ peer'[a] = peer[a] /\ holder'[a] = holder[a]
                         \/ peer'[a] \notin {"connecting", "live"},
         NeverFinishes => /\ ~finished'
                          /\ \A a \in Addr : Active(a) => peer'[a] = peer[a] /\ holder'[a] = holder[a],
         \A a \in old' : peer'[a] \in {"dead", "notNeeded"}
  PROVE  Owned'
<1>1. ActiveHasTask'
  BY ActiveStep DEF Owned, tasks
<1>2. TaskOwnsPeer'
  BY DEF Owned, TaskOwnsPeer, tasks, TypeOK
<1> QED
  BY <1>1, <1>2 DEF Owned, OldIsTerminal, tasks

\* Steps of a connection task keep the invariant.
LEMMA OwnedTask ==
  ASSUME Owned, TypeOK', NEW t \in Task, TaskStep(t) PROVE Owned'
<1> USE DEF table, tasks, sweeps
<1>0. TypeOK /\ OldIsTerminal /\ ActiveHasTask
  BY DEF Owned
<1>1. CASE AdderSpawns(t)
  <2>1. ActiveHasTask'
    BY <1>0, <1>1, ActiveStep DEF AdderSpawns, TypeOK, ActiveHasTask
  <2>2. TaskOwnsPeer'
    BY <1>0, <1>1 DEF AdderSpawns, TypeOK, Owned, TaskOwnsPeer
  <2> QED
    BY <1>1, <2>1, <2>2 DEF Owned, OldIsTerminal, AdderSpawns
<1>2. CASE MarkConnecting(t)
  <2>1. CASE /\ peer[addr[t]] \in {"queued", "notNeeded"}
             /\ SetState(addr[t], "connecting", t, FALSE)
             /\ stage' = [stage EXCEPT ![t] = "dialling"] /\ UNCHANGED <<addr, incoming>>
    <3>1. addr[t] \in Addr /\ stage[t] = "spawned" /\ UNCHANGED <<finished, env>>
      BY <1>0, <1>2 DEF MarkConnecting, TypeOK
    <3>2. ActiveHasTask'
      BY <1>0, <2>1, <3>1, ActiveStep DEF SetState, TypeOK, ActiveHasTask
    <3>3. TaskOwnsPeer'
      BY <1>0, <2>1, <3>1 DEF SetState, TypeOK, Owned, TaskOwnsPeer
    <3> QED
      BY <1>0, <2>1, <3>1, <3>2, <3>3 DEF Owned, OldIsTerminal, SetState, TypeOK
  <2>2. CASE Exit(t) /\ UNCHANGED <<peer, holder, pex, wait, old>>
    <3>1. ActiveHasTask'
      BY <1>0, <1>2, <2>2, ActiveStep DEF MarkConnecting, Exit, TypeOK, ActiveHasTask
    <3>2. TaskOwnsPeer'
      BY <1>0, <1>2, <2>2 DEF MarkConnecting, Exit, TypeOK, Owned, TaskOwnsPeer
    <3> QED
      BY <1>0, <1>2, <2>2, <3>1, <3>2 DEF Owned, OldIsTerminal, MarkConnecting, Exit, TypeOK
  <2> QED
    BY <1>2, <2>1, <2>2 DEF MarkConnecting
<1>3. CASE OnHandshake(t)
  <2>1. /\ addr[t] \in Addr /\ stage[t] = "dialling" /\ UNCHANGED <<addr, finished, env>>
        /\ stage' = [stage EXCEPT ![t] = "running"]
    BY <1>0, <1>3 DEF OnHandshake, TypeOK
  <2>2. /\ holder' = holder
        /\ \A a \in Addr : peer'[a] \in {"connecting", "live"} <=> Active(a)
        /\ \A a \in old' : a \in old /\ peer'[a] = peer[a]
    BY <1>0, <1>3, <2>1 DEF OnHandshake, SetState, TypeOK
  <2>3. ActiveHasTask'
    BY <1>0, <2>1, <2>2 DEF ActiveHasTask, TypeOK
  <2>4. TaskOwnsPeer'
    BY <1>0, <2>1, <2>2 DEF Owned, TaskOwnsPeer, TypeOK
  <2> QED
    BY <2>1, <2>2, <2>3, <2>4 DEF Owned, OldIsTerminal
<1>4. CASE OnExtendedHandshake(t) \/ OnConnected(t)
  BY <1>4, QuietStep DEF OnExtendedHandshake, OnConnected, Owned, OldIsTerminal
<1>8. CASE DropPeer(t)
  <2>1. addr[t] \in Addr /\ stage[t] = "dropping" /\ Exit(t) /\ UNCHANGED <<finished, env>>
    BY <1>0, <1>8 DEF DropPeer, TypeOK
  <2>2. /\ \A a \in Addr \ {addr[t]} : peer'[a] = peer[a] /\ holder'[a] = holder[a]
        /\ peer'[addr[t]] = "absent" /\ old' = old \ {addr[t]}
    BY <1>0, <1>8, <2>1 DEF DropPeer, Forget
  <2>3. ActiveHasTask'
    BY <1>0, <2>1, <2>2, ActiveStep DEF Exit, TypeOK, ActiveHasTask
  <2>4. ~NeverFinishes /\ ~NeverFinishes'
    BY <2>1 DEF Owned
  <2>5. OldIsTerminal'
    BY <1>0, <2>2 DEF OldIsTerminal, TypeOK
  <2> QED
    BY <2>3, <2>4, <2>5 DEF Owned, TaskOwnsPeer
<1>5. ASSUME NEW a \in Addr, AddIncomingPeer(a, t) PROVE Owned'
  <2>1. /\ stage[t] = "free" /\ ~Active(a) /\ UNCHANGED <<finished, env>>
        /\ peer' = [peer EXCEPT ![a] = "live"] /\ holder' = [holder EXCEPT ![a] = t]
        /\ stage' = [stage EXCEPT ![t] = "running"] /\ addr' = [addr EXCEPT ![t] = a]
        /\ old' \subseteq old \ {a}
    BY <1>0, <1>5 DEF AddIncomingPeer, SetState, OldIsTerminal
  <2>2. ActiveHasTask'
    BY <1>0, <2>1, ActiveStep DEF TypeOK, ActiveHasTask
  <2>3. TaskOwnsPeer'
    BY <1>0, <2>1 DEF Owned, TaskOwnsPeer, TypeOK
  <2> QED
    BY <1>0, <2>1, <2>2, <2>3 DEF Owned, OldIsTerminal, TypeOK
<1>6. ASSUME NEW error \in BOOLEAN, OnPeerDied(t, error) PROVE Owned'
  <2>1. addr[t] \in Addr /\ Started(t) /\ UNCHANGED <<finished, env>>
    BY <1>0, <1>6 DEF OnPeerDied, TypeOK
  <2>6. /\ \A u \in Task \ {t} : stage'[u] = stage[u] /\ addr'[u] = addr[u]
        /\ stage'[t] \in {"free", "dropping"}
        /\ stage'[t] = "dropping" => ~Active(addr[t])
    <3>1. \/ Exit(t)
          \/ /\ peer[addr[t]] \in {"queued", "dead"} /\ UNCHANGED addr
             /\ stage' = [stage EXCEPT ![t] = "dropping"]
      BY <1>6 DEF OnPeerDied
    <3> QED
      BY <1>0, <3>1 DEF Exit, TypeOK
  <2>2. /\ \A a \in Addr \ {addr[t]} : peer'[a] = peer[a] /\ holder'[a] = holder[a]
        /\ peer'[addr[t]] \notin {"connecting", "live"}
        /\ old' \subseteq old
        /\ addr[t] \in old' => peer'[addr[t]] = peer[addr[t]]
    BY <1>0, <1>6, <2>1 DEF OnPeerDied, SetState, TypeOK
  <2>3. ActiveHasTask'
    BY <1>0, <2>1, <2>2, <2>6, ActiveStep DEF TypeOK, ActiveHasTask
  <2>4. TaskOwnsPeer'
    <3> SUFFICES ASSUME NeverFinishes, NEW u \in Task, Started(u)' PROVE (Active(addr[u]) /\ holder[addr[u]] = u)'
      BY <2>1 DEF TaskOwnsPeer
    <3>1. u # t /\ Started(u) /\ addr'[u] = addr[u] /\ addr[u] \in Addr
      BY <1>0, <2>6 DEF TypeOK
    <3>2. holder[addr[t]] = t /\ holder[addr[u]] = u /\ Active(addr[u])
      BY <2>1, <3>1 DEF Owned, TaskOwnsPeer
    <3> QED
      BY <2>2, <3>1, <3>2
  <2>7. NeverFinishes => stage'[t] # "dropping"
    BY <2>1, <2>6 DEF Owned, TaskOwnsPeer
  <2>5. OldIsTerminal'
    <3>1. \A a \in old' : a \in Addr /\ a \in old
      BY <1>0, <2>2 DEF TypeOK
    <3>2. \A a \in old' : peer'[a] = peer[a]
      BY <2>2, <3>1
    <3> QED
      BY <1>0, <3>1, <3>2 DEF OldIsTerminal
  <2> QED
    BY <2>1, <2>3, <2>4, <2>5, <2>6, <2>7 DEF Owned
<1>7. CASE NothingLeftToDo(t)
  <2>1. /\ stage[t] = "running" /\ stage' = [stage EXCEPT ![t] = "leaving"]
        /\ UNCHANGED <<peer, holder, old, addr, finished, env>>
    BY <1>7 DEF NothingLeftToDo
  <2>2. ActiveHasTask'
    BY <1>0, <2>1 DEF ActiveHasTask, TypeOK
  <2>3. TaskOwnsPeer'
    BY <1>0, <2>1 DEF Owned, TaskOwnsPeer, TypeOK
  <2> QED
    BY <2>1, <2>2, <2>3 DEF Owned, OldIsTerminal
<1> QED
  BY <1>1, <1>2, <1>3, <1>4, <1>5, <1>6, <1>7, <1>8 DEF TaskStep

\* The steps of the timers, the monitor, the pruner, the adder and the torrent
\* keep the invariant.
LEMMA OwnedOther ==
  ASSUME Owned, TypeOK',
         \/ \E a \in Addr : PeerStep(a)
         \/ AdderTakes \/ PruneDeadPeers \/ HealthCheck
         \/ Complete \/ Deselect \/ Reselect
  PROVE  Owned'
<1> USE DEF table, tasks, sweeps
<1>0. TypeOK /\ OldIsTerminal /\ (NeverFinishes => ~finished)
  BY DEF Owned
<1>1. ASSUME NEW a \in Addr, AddIfNotSeen(a) PROVE Owned'
  BY <1>0, <1>1, QuietStep DEF AddIfNotSeen, OldIsTerminal, TypeOK
<1>2. ASSUME NEW a \in Addr, TimerFires(a) PROVE Owned'
  BY <1>0, <1>2, QuietStep DEF TimerFires, SetState, OldIsTerminal, TypeOK
<1>3. ASSUME NEW a \in Addr, GrowOld(a) PROVE Owned'
  BY <1>0, <1>3, QuietStep DEF GrowOld, OldIsTerminal
<1>4. ASSUME NEW a \in Addr, RequeueDeadPeer(a) PROVE Owned'
  BY <1>0, <1>4, QuietStep DEF RequeueDeadPeer, SetState, OldIsTerminal, TypeOK
<1>5. ASSUME NEW a \in Addr, ReconnectNotNeededPeer(a) PROVE Owned'
  <2>1. CASE peer[a] = "notNeeded" /\ SetState(a, "queued", None, FALSE)
    BY <1>0, <1>5, <2>1, QuietStep DEF ReconnectNotNeededPeer, SetState, OldIsTerminal, TypeOK
  <2>2. CASE UNCHANGED <<peer, holder, pex, wait, old>>
    BY <1>0, <1>5, <2>2, QuietStep DEF ReconnectNotNeededPeer, OldIsTerminal
  <2> QED
    BY <1>5, <2>1, <2>2 DEF ReconnectNotNeededPeer
<1>6. CASE AdderTakes
  <2>1. CASE finished /\ SetState(Head(queue), "notNeeded", None, FALSE)
    BY <1>0, <1>6, <2>1, QuietStep DEF AdderTakes, SetState, OldIsTerminal, TypeOK
  <2>2. CASE UNCHANGED <<peer, holder, pex, wait, old>>
    BY <1>0, <1>6, <2>2, QuietStep DEF AdderTakes, OldIsTerminal
  <2> QED
    BY <1>6, <2>1, <2>2 DEF AdderTakes
<1>7. CASE PruneDeadPeers
  BY <1>0, <1>7, QuietStep DEF PruneDeadPeers, Forget, OldIsTerminal, TypeOK
<1>8. CASE HealthCheck
  BY <1>0, <1>8, QuietStep DEF HealthCheck, OldIsTerminal
<1>9. CASE Complete
  <2>1. ~NeverFinishes
    BY <1>9 DEF Complete, NeverFinishes
  <2> QED
    BY <1>0, <1>9, <2>1, QuietStep DEF Complete, OldIsTerminal, TypeOK
<1>10. CASE Reselect
  BY <1>0, <1>10, QuietStep DEF Reselect, OldIsTerminal
<1>11. CASE Deselect
  BY <1>0, <1>11, QuietStep DEF Deselect, NeverFinishes, OldIsTerminal
<1> QED
  BY <1>1, <1>2, <1>3, <1>4, <1>5, <1>6, <1>7, <1>8, <1>9, <1>10, <1>11 DEF PeerStep

\* Init establishes the invariant and every step keeps it.
LEMMA OwnedInvariant == Spec => []Owned
<1>1. Init => Owned
  BY TypeInit DEF Init, Owned, OldIsTerminal, ActiveHasTask, TaskOwnsPeer
<1>2. Owned /\ [Next]_vars => Owned'
  <2> SUFFICES ASSUME Owned, [Next]_vars PROVE Owned'
    OBVIOUS
  <2>1. TypeOK'
    BY TypeStep DEF Owned
  <2>2. CASE UNCHANGED vars
    <3>1. UNCHANGED <<table, tasks, finished, env>>
      BY <2>2 DEF vars
    <3> QED
      BY <2>1, <3>1, QuietStep DEF Owned, OldIsTerminal, table, tasks
  <2> QED
    BY <2>1, <2>2, OwnedTask, OwnedOther DEF Next
<1> QED
  BY <1>1, <1>2, PTL DEF Spec

\* No zombie entries: in every reachable state, with completion, reselection,
\* full queues and any number of peers, a Connecting or Live entry of the table
\* has a running task of that peer whose end will change it.
THEOREM NoZombiePeers == Spec => []ActiveHasTask
  BY OwnedInvariant, PTL DEF Owned

\* As long as the torrent does not complete, a connection task and the entry of
\* its peer belong to each other: one task per peer, and on_peer_died never
\* meets the states it reports as a bug.
THEOREM TasksOwnTheirPeers == Spec => []TaskOwnsPeer
  BY OwnedInvariant, PTL DEF Owned
-----------------------------------------------------------------------------
(* What is queued is dialled *)

\* An address is on its way to being dialled.
Scheduled(a) ==
  \/ \E i \in 1..Len(queue) : queue[i] = a
  \/ adding = a
  \/ \E t \in Task : stage[t] = "spawned" /\ addr[t] = a

\* A step that leaves nobody behind keeps QueuedIsScheduled: whoever is Queued after
\* it was so and scheduled before, and still is, or is scheduled by it.
LEMMA ScheduledStep ==
  ASSUME QueuedIsScheduled, UNCHANGED env,
         env.events = {} => \A a \in Addr \ Blocked : peer'[a] = "queued" =>
             Scheduled(a)' \/ (peer[a] = "queued" /\ (Scheduled(a) => Scheduled(a)'))
  PROVE  QueuedIsScheduled'
  BY DEF QueuedIsScheduled, Scheduled

\* An address that was scheduled stays so when it is appended to the queue or the
\* queue is left alone, and an address that is sent is scheduled when there is room.
LEMMA SendSchedules ==
  ASSUME TypeOK, NEW a \in Addr, env.events = {}, TrySend(a)
  PROVE  /\ \E i \in 1..Len(queue') : queue'[i] = a
         /\ \A b \in Addr : (\E i \in 1..Len(queue) : queue[i] = b) => \E i \in 1..Len(queue') : queue'[i] = b
<1>1. queue \in Seq(Addr) /\ queue' = Append(queue, a)
  BY DEF TypeOK, TrySend
<1>2. /\ Len(queue') = Len(queue) + 1 /\ queue'[Len(queue) + 1] = a /\ Len(queue) \in Nat
      /\ \A i \in 1..Len(queue) : queue'[i] = queue[i]
  BY <1>1
<1>3. \A i \in 1..Len(queue) : i \in 1..Len(queue')
  BY <1>2
<1>4. Len(queue) + 1 \in 1..Len(queue')
  BY <1>2
<1> QED
  BY <1>2, <1>3, <1>4

\* Every step keeps what is queued scheduled.
LEMMA QueuedStep == Owned /\ QueuedIsScheduled /\ [Next]_vars => QueuedIsScheduled'
<1> SUFFICES ASSUME Owned, QueuedIsScheduled, [Next]_vars PROVE QueuedIsScheduled'
  OBVIOUS
<1> USE DEF table, tasks, sweeps
<1>0. TypeOK /\ (env.events = {} => ~finished)
  BY DEF Owned
<1>1. ASSUME UNCHANGED <<queue, adding, env>>,
             \A t \in Task : stage[t] = "spawned" => stage'[t] = "spawned" /\ addr'[t] = addr[t],
             \A a \in Addr : peer'[a] = "queued" => peer[a] = "queued"
      PROVE  QueuedIsScheduled'
  BY <1>1, ScheduledStep DEF Scheduled
<1>2. ASSUME NEW a \in Addr, TrySend(a), UNCHANGED <<adding, stage, addr, env>>,
             \A b \in Addr : b # a /\ peer'[b] = "queued" => peer[b] = "queued"
      PROVE  QueuedIsScheduled'
  <2>1. ASSUME env.events = {}, NEW b \in Addr \ Blocked, peer'[b] = "queued"
        PROVE  Scheduled(b)' \/ (peer[b] = "queued" /\ (Scheduled(b) => Scheduled(b)'))
    <3>1. CASE b = a
      BY <1>0, <1>2, <2>1, <3>1, SendSchedules DEF Scheduled
    <3>2. CASE b # a
      <4>1. (\E i \in 1..Len(queue) : queue[i] = b) => \E i \in 1..Len(queue') : queue'[i] = b
        BY <1>0, <1>2, <2>1, SendSchedules
      <4> QED
        BY <1>2, <2>1, <3>2, <4>1 DEF Scheduled
    <3> QED
      BY <3>1, <3>2
  <2> QED
    BY <1>2, <2>1, ScheduledStep
<1>3. ASSUME NEW t \in Task, TaskStep(t) PROVE QueuedIsScheduled'
  <2>1. CASE AdderSpawns(t)
    <3>1. /\ adding \in Addr /\ stage[t] = "free" /\ UNCHANGED <<peer, queue, env>> /\ adding' = None
          /\ stage'[t] = "spawned" /\ addr'[t] = adding
          /\ \A u \in Task : u # t => stage'[u] = stage[u] /\ addr'[u] = addr[u]
      BY <1>0, <2>1 DEF AdderSpawns, TypeOK
    <3>2. \A a \in Addr : Scheduled(a) => Scheduled(a)'
      BY <3>1 DEF Scheduled
    <3> QED
      BY <3>1, <3>2, ScheduledStep
  <2>2. CASE MarkConnecting(t)
    <3> DEFINE a == addr[t]
    <3>1. stage[t] = "spawned" /\ UNCHANGED <<queue, adding, env>> /\ a \in Addr
      BY <1>0, <2>2 DEF MarkConnecting, TypeOK
    <3>2. /\ \A b \in Addr : b # a => peer'[b] = peer[b]
          /\ peer'[a] # "queued"
          /\ \A u \in Task : u # t => stage'[u] = stage[u] /\ addr'[u] = addr[u]
      <4>1. CASE peer[a] \in {"queued", "notNeeded"}
        BY <1>0, <2>2, <3>1, <4>1 DEF MarkConnecting, SetState, TypeOK
      <4>2. CASE peer[a] \notin {"queued", "notNeeded"}
        BY <1>0, <2>2, <3>1, <4>2 DEF MarkConnecting, Exit, TypeOK
      <4> QED
        BY <4>1, <4>2
    <3>3. \A b \in Addr : b # a /\ Scheduled(b) => Scheduled(b)'
      BY <3>1, <3>2 DEF Scheduled
    <3> QED
      BY <3>1, <3>2, <3>3, ScheduledStep
  <2>3. CASE OnConnected(t) \/ OnHandshake(t) \/ OnExtendedHandshake(t) \/ NothingLeftToDo(t)
    <3>1. /\ UNCHANGED <<queue, adding, env, addr>> /\ stage[t] # "spawned" /\ addr[t] \in Addr
          /\ \A u \in Task : u # t => stage'[u] = stage[u]
      BY <1>0, <2>3 DEF OnConnected, OnHandshake, OnExtendedHandshake, NothingLeftToDo, TypeOK
    <3>2. UNCHANGED peer \/ SetState(addr[t], "live", holder[addr[t]], TRUE)
      BY <2>3, Zenon DEF OnConnected, OnHandshake, OnExtendedHandshake, NothingLeftToDo
    <3>3. \A a \in Addr : peer'[a] = "queued" => peer[a] = "queued"
      BY <1>0, <3>1, <3>2 DEF SetState, TypeOK
    <3> QED
      BY <1>1, <3>1, <3>3
  <2>4. ASSUME NEW a \in Addr, AddIncomingPeer(a, t) PROVE QueuedIsScheduled'
    <3>1. /\ UNCHANGED <<queue, adding, env>> /\ stage[t] = "free"
          /\ \A u \in Task : u # t => stage'[u] = stage[u] /\ addr'[u] = addr[u]
          /\ peer' = [peer EXCEPT ![a] = "live"]
      BY <1>0, <2>4 DEF AddIncomingPeer, SetState, TypeOK
    <3> QED
      BY <1>0, <1>1, <3>1 DEF TypeOK
  <2>5. ASSUME NEW error \in BOOLEAN, OnPeerDied(t, error) PROVE QueuedIsScheduled'
    <3>1. /\ UNCHANGED <<queue, adding, env>> /\ stage[t] # "spawned" /\ addr[t] \in Addr
          /\ \A u \in Task : u # t => stage'[u] = stage[u] /\ addr'[u] = addr[u]
      <4>1. \/ Exit(t)
            \/ UNCHANGED addr /\ stage' = [stage EXCEPT ![t] = "dropping"]
        BY <2>5 DEF OnPeerDied
      <4>2. UNCHANGED <<queue, adding, env>> /\ Started(t)
        BY <2>5 DEF OnPeerDied
      <4> QED
        BY <1>0, <4>1, <4>2 DEF Exit, TypeOK
    <3>2. \A a \in Addr : a # addr[t] /\ peer'[a] = "queued" => peer[a] = "queued"
      BY <1>0, <2>5, <3>1 DEF OnPeerDied, SetState, TypeOK
    <3>3. env.events = {} => peer'[addr[t]] # "queued"
      <4>1. env.events = {} => Active(addr[t])
        BY <2>5 DEF Owned, TaskOwnsPeer, OnPeerDied
      <4> QED
        BY <1>0, <2>5, <3>1, <4>1 DEF OnPeerDied, SetState, TypeOK
    <3>4. \A a \in Addr : Scheduled(a) => Scheduled(a)'
      BY <3>1 DEF Scheduled
    <3> QED
      BY <3>1, <3>2, <3>3, <3>4, ScheduledStep
  <2>6. CASE DropPeer(t)
    <3>1. /\ UNCHANGED <<queue, adding, env>> /\ stage[t] # "spawned" /\ addr[t] \in Addr
          /\ \A u \in Task : u # t => stage'[u] = stage[u] /\ addr'[u] = addr[u]
          /\ \A a \in Addr : peer'[a] = "queued" => peer[a] = "queued"
      BY <1>0, <2>6 DEF DropPeer, Exit, Forget, TypeOK
    <3> QED
      BY <1>1, <3>1
  <2> QED
    BY <1>3, <2>1, <2>2, <2>3, <2>4, <2>5, <2>6 DEF TaskStep
<1>4. ASSUME NEW a \in Addr, PeerStep(a) PROVE QueuedIsScheduled'
  <2>1. CASE AddIfNotSeen(a)
    BY <1>0, <1>2, <2>1 DEF AddIfNotSeen, TypeOK
  <2>2. CASE TimerFires(a) \/ RequeueDeadPeer(a)
    <3>1. UNCHANGED <<adding, stage, addr, env>>
      BY <2>2 DEF TimerFires, RequeueDeadPeer
    <3>2. CASE peer[a] = "dead"
      <4>1. SetState(a, "queued", None, FALSE) /\ TrySend(a)
        BY <2>2, <3>2, Zenon DEF TimerFires, RequeueDeadPeer
      <4> QED
        BY <1>0, <1>2, <3>1, <4>1 DEF SetState, TypeOK
    <3>3. CASE peer[a] # "dead"
      <4>1. UNCHANGED <<peer, queue>>
        BY <2>2, <3>3 DEF TimerFires, RequeueDeadPeer
      <4> QED
        BY <1>1, <3>1, <4>1
    <3> QED
      BY <3>2, <3>3
  <2>3. CASE GrowOld(a)
    BY <1>1, <2>3 DEF GrowOld
  <2>4. CASE ReconnectNotNeededPeer(a)
    <3>1. UNCHANGED <<adding, stage, addr, env>>
      BY <2>4 DEF ReconnectNotNeededPeer
    <3>2. CASE peer[a] = "notNeeded" /\ out[a] # None
      <4>1. TrySend(out[a]) /\ out[a] \in Addr
        BY <1>0, <2>4, <3>2 DEF ReconnectNotNeededPeer, TypeOK
      <4>2. (out[a] = a /\ SetState(a, "queued", None, FALSE)) \/ UNCHANGED peer
        BY <2>4, <3>2, Zenon DEF ReconnectNotNeededPeer
      <4>3. \A b \in Addr : b # out[a] /\ peer'[b] = "queued" => peer[b] = "queued"
        BY <1>0, <4>2 DEF SetState, TypeOK
      <4> QED
        BY <1>2, <3>1, <4>1, <4>3
    <3>3. CASE ~(peer[a] = "notNeeded" /\ out[a] # None)
      <4>1. UNCHANGED <<peer, queue>>
        BY <2>4, <3>3 DEF ReconnectNotNeededPeer
      <4> QED
        BY <1>1, <3>1, <4>1
    <3> QED
      BY <3>2, <3>3
  <2> QED
    BY <1>4, <2>1, <2>2, <2>3, <2>4 DEF PeerStep
<1>5. CASE AdderTakes
  <2> DEFINE a == Head(queue)
  <2>1. /\ adding = None /\ queue # <<>> /\ queue' = Tail(queue) /\ UNCHANGED <<stage, addr, env>>
        /\ queue \in Seq(Addr)
    BY <1>0, <1>5 DEF AdderTakes, TypeOK
  <2>2. \A b \in Addr : b # a /\ (\E i \in 1..Len(queue) : queue[i] = b) => \E i \in 1..Len(queue') : queue'[i] = b
    <3> SUFFICES ASSUME NEW b \in Addr, b # a, NEW i \in 1..Len(queue), queue[i] = b
                 PROVE  \E j \in 1..Len(queue') : queue'[j] = b
      OBVIOUS
    <3>1. i # 1 /\ i - 1 \in 1..Len(Tail(queue)) /\ Tail(queue)[i - 1] = queue[i]
      BY <2>1
    <3> QED
      BY <2>1, <3>1
  <2>3. a \in Addr
    BY <2>1
  <2>4. ASSUME env.events = {}
        PROVE  UNCHANGED peer /\ (a \in Blocked \/ adding' = a)
    BY <1>0, <1>5, <2>4 DEF AdderTakes
  <2>5. ASSUME env.events = {}, NEW b \in Addr \ Blocked, peer'[b] = "queued"
        PROVE  Scheduled(b)' \/ (peer[b] = "queued" /\ (Scheduled(b) => Scheduled(b)'))
    <3>1. CASE b = a
      BY <2>4, <2>5, <3>1 DEF Scheduled
    <3>2. CASE b # a
      <4>1. adding # b
        BY <2>1, ConstantsAssumption DEF ConstantsAssumption
      <4> QED
        BY <2>1, <2>2, <2>4, <2>5, <3>2, <4>1 DEF Scheduled
    <3> QED
      BY <3>1, <3>2
  <2> QED
    BY <2>1, <2>5, ScheduledStep
<1>6. CASE PruneDeadPeers \/ HealthCheck \/ Complete \/ Deselect \/ Reselect
  <2>1. /\ UNCHANGED <<queue, adding, stage, addr, env>>
        /\ \A a \in Addr : peer'[a] = "queued" => peer[a] = "queued"
    BY <1>0, <1>6 DEF PruneDeadPeers, HealthCheck, Complete, Deselect, Reselect, Forget, TypeOK
  <2> QED
    BY <1>1, <2>1
<1>7. CASE UNCHANGED vars
  BY <1>1, <1>7 DEF vars
<1> QED
  BY <1>3, <1>4, <1>5, <1>6, <1>7 DEF Next

\* "Will be tried to be connected as soon as possible": a Queued peer that the adder
\* does not skip is in the queue, with the adder or with a task that has not started,
\* whatever the order of timers, the health monitor, deaths and incoming connections,
\* as long as the queue takes what is sent and the torrent does not complete.
THEOREM QueuedPeersAreDialled == Spec => []QueuedIsScheduled
<1>1. Init => QueuedIsScheduled
  BY DEF Init, QueuedIsScheduled
<1> QED
  BY <1>1, QueuedStep, OwnedInvariant, PTL DEF Spec
-----------------------------------------------------------------------------
(* The addresses told to other peers *)

\* An entry is known by its own address or one that is spoilt, and what is listed and
\* not spoilt is live under its own address.
PexListed ==
  /\ \A a \in Addr : out[a] \in {a, None} \cup mislisted
  /\ \A a \in pex \ mislisted : peer[a] = "live" /\ out[a] = a

\* A live peer that we dialled under its own address is listed.
PexComplete ==
  NeverFinishes =>
     \A a \in Addr \ mislisted : peer[a] = "live" /\ out[a] = a /\ ~incoming[holder[a]] => a \in pex

\* set_state keeps the list: it takes the entry off when it was live and puts it on
\* when it becomes live by a dialled connection, and touches no other.
LEMMA SetStateLists ==
  ASSUME TypeOK, PexListed, NEW a \in Addr, NEW st \in States, NEW t, NEW d \in BOOLEAN,
         SetState(a, st, t, d), UNCHANGED <<out, mislisted>>
  PROVE  /\ PexListed'
         /\ \A b \in Addr \ mislisted : b # a => (b \in pex' <=> b \in pex)
         /\ \A b \in Addr : b # a => peer'[b] = peer[b] /\ holder'[b] = holder[b]
         /\ peer'[a] = st /\ holder'[a] = t
         /\ st = "live" /\ d /\ out[a] = a => a \in pex'
<1>0. None \notin Addr /\ pex \subseteq Addr
  BY ConstantsAssumption DEF ConstantsAssumption, TypeOK
<1>1. /\ peer'[a] = st /\ holder'[a] = t
      /\ \A b \in Addr : b # a => peer'[b] = peer[b] /\ holder'[b] = holder[b]
  BY DEF SetState, TypeOK
<1>2. out[a] = a \/ out[a] = None \/ out[a] \in mislisted
  BY DEF PexListed
<1>3. \A b \in Addr \ mislisted : b # a => (b \in pex' <=> b \in pex)
  BY <1>0, <1>2 DEF SetState
<1>4. pex' \subseteq Addr /\ (a \in pex' \ mislisted => st = "live" /\ out[a] = a)
  <2>1. a \in pex \ mislisted => peer[a] = "live" /\ out[a] = a
    BY DEF PexListed
  <2>2. out[a] \in Addr \cup {None}
    BY DEF TypeOK
  <2>3. CASE st = "live" /\ out[a] # None /\ d
    BY <1>0, <1>2, <2>1, <2>2, <2>3 DEF SetState
  <2>4. CASE ~(st = "live" /\ out[a] # None /\ d)
    <3>1. pex' = IF peer[a] = "live" THEN pex \ {out[a]} ELSE pex
      BY <2>4 DEF SetState
    <3> QED
      BY <1>0, <2>1, <3>1
  <2> QED
    BY <2>3, <2>4
<1>5. st = "live" /\ d /\ out[a] = a => a \in pex'
  BY <1>0 DEF SetState
<1>6. \A b \in pex' \ mislisted : peer'[b] = "live" /\ out[b] = b
  BY <1>1, <1>3, <1>4 DEF PexListed
<1> QED
  BY <1>1, <1>3, <1>5, <1>6 DEF PexListed

\* A step keeps PexComplete when every live peer dialled under its own address, which is
\* not spoilt, is listed after it, or was live by the same connection before and is
\* listed if it was.
LEMMA PexCompleteStep ==
  ASSUME PexComplete, UNCHANGED env, mislisted \subseteq mislisted',
         NeverFinishes => \A a \in Addr \ mislisted' : peer'[a] = "live" /\ out'[a] = a /\ ~incoming'[holder'[a]] =>
            \/ a \in pex'
            \/ /\ peer[a] = "live" /\ out[a] = a /\ holder'[a] = holder[a]
               /\ incoming'[holder[a]] = incoming[holder[a]] /\ (a \in pex => a \in pex')
  PROVE  PexComplete'
  BY DEF PexComplete

\* Every step of a connection task keeps the list exact.
LEMMA PexTask ==
  ASSUME Owned, PexListed, PexComplete, NEW t \in Task, TaskStep(t)
  PROVE  PexListed' /\ PexComplete'
<1> USE DEF table, tasks, sweeps
<1>0. TypeOK /\ ActiveHasTask /\ TaskOwnsPeer
  BY DEF Owned
<1>1. None \notin Addr
  BY ConstantsAssumption DEF ConstantsAssumption
<1>2. ASSUME stage[t] = "free" PROVE \A a \in Addr : peer[a] = "live" => holder[a] \in Task \ {t}
  BY <1>0, <1>2 DEF ActiveHasTask
<1>3. CASE AdderSpawns(t)
  <2>1. /\ UNCHANGED <<peer, holder, out, pex, mislisted, env>> /\ stage[t] = "free"
        /\ \A u \in Task : u # t => incoming'[u] = incoming[u]
    BY <1>0, <1>3 DEF AdderSpawns, TypeOK
  <2>2. PexListed'
    BY <2>1 DEF PexListed
  <2>3. PexComplete'
    BY <1>2, <2>1, PexCompleteStep
  <2> QED
    BY <2>2, <2>3
<1>4. CASE MarkConnecting(t)
  <2>1. UNCHANGED <<out, mislisted, incoming, env>> /\ addr[t] \in Addr
    BY <1>0, <1>4 DEF MarkConnecting, Exit, TypeOK
  <2>2. SetState(addr[t], "connecting", t, FALSE) \/ UNCHANGED <<peer, holder, pex>>
    BY <1>4, Zenon DEF MarkConnecting
  <2>3. CASE SetState(addr[t], "connecting", t, FALSE)
    <3>1. /\ PexListed' /\ peer'[addr[t]] = "connecting"
          /\ \A b \in Addr \ mislisted : b # addr[t] => (b \in pex' <=> b \in pex) /\ peer'[b] = peer[b] /\ holder'[b] = holder[b]
      BY <1>0, <2>1, <2>3, SetStateLists
    <3> QED
      BY <2>1, <3>1, PexCompleteStep
  <2>4. CASE UNCHANGED <<peer, holder, pex>>
    BY <2>1, <2>4, PexCompleteStep DEF PexListed
  <2> QED
    BY <2>2, <2>3, <2>4
<1>5. CASE OnHandshake(t)
  <2> DEFINE a == addr[t]
  <2>1. UNCHANGED <<out, mislisted, incoming, env>> /\ a \in Addr
    BY <1>0, <1>5 DEF OnHandshake, TypeOK
  <2>2. SetState(a, "live", holder[a], TRUE) \/ UNCHANGED <<peer, holder, pex>>
    BY <1>5, Zenon DEF OnHandshake
  <2>3. CASE SetState(a, "live", holder[a], TRUE)
    <3>1. /\ PexListed'
          /\ \A b \in Addr \ mislisted : b # a => (b \in pex' <=> b \in pex) /\ peer'[b] = peer[b] /\ holder'[b] = holder[b]
          /\ out[a] = a => a \in pex'
      BY <1>0, <2>1, <2>3, SetStateLists
    <3> QED
      BY <2>1, <3>1, PexCompleteStep
  <2>4. CASE UNCHANGED <<peer, holder, pex>>
    BY <2>1, <2>4, PexCompleteStep DEF PexListed
  <2> QED
    BY <2>2, <2>3, <2>4
<1>6. CASE OnExtendedHandshake(t)
  <2> DEFINE a == addr[t]
             listen == IF env.elsewhere THEN ListenOn[a] ELSE a
  <2>1. /\ UNCHANGED <<peer, holder, pex, incoming, env>> /\ a \in Addr /\ incoming[t] /\ Started(t)
        /\ out' = [out EXCEPT ![a] = listen]
        /\ mislisted' = IF listen = a THEN mislisted ELSE mislisted \cup {listen} \cup ({out[a]} \ {None})
    BY <1>0, <1>6 DEF OnExtendedHandshake, TypeOK
  <2> HIDE DEF listen
  <2>2. out'[a] = listen /\ \A b \in Addr : b # a => out'[b] = out[b]
    BY <1>0, <2>1 DEF TypeOK
  <2>3. pex \subseteq Addr /\ mislisted \subseteq mislisted' /\ (listen # a => listen \in mislisted')
    BY <1>0, <2>1 DEF TypeOK
  <2>4. PexListed'
    <3>1. \A b \in Addr : out'[b] \in {b, None} \cup mislisted'
      BY <2>2, <2>3 DEF PexListed
    <3>2. ASSUME NEW b \in pex \ mislisted' PROVE peer[b] = "live" /\ out'[b] = b
      <4>1. peer[b] = "live" /\ out[b] = b
        BY <2>3, <3>2 DEF PexListed
      <4>2. CASE b # a
        BY <2>2, <2>3, <4>1, <4>2
      <4>3. CASE b = a
        <5>1. listen = a
          BY <1>1, <2>1, <3>2, <4>1, <4>3
        <5> QED
          BY <2>2, <4>1, <4>3, <5>1
      <4> QED
        BY <4>2, <4>3
    <3> QED
      BY <2>1, <3>1, <3>2 DEF PexListed
  <2>5. NeverFinishes => holder[a] = t
    BY <1>0, <2>1 DEF TaskOwnsPeer
  <2>6. PexComplete'
    BY <2>1, <2>2, <2>3, <2>5, PexCompleteStep
  <2> QED
    BY <2>4, <2>6
<1>10. CASE OnConnected(t)
  BY <1>10, PexCompleteStep DEF OnConnected, PexListed
<1>11. CASE DropPeer(t)
  <2> DEFINE a == addr[t]
  <2>1. /\ UNCHANGED <<out, pex, incoming, env>> /\ a \in Addr
        /\ mislisted' = IF peer[a] = "live" THEN mislisted \cup ({out[a]} \ {None}) ELSE mislisted
        /\ peer' = [b \in Addr |-> IF b \in {a} THEN "absent" ELSE peer[b]]
        /\ holder' = [b \in Addr |-> IF b \in {a} THEN None ELSE holder[b]]
    BY <1>0, <1>11 DEF DropPeer, Forget, Exit, TypeOK
  <2>2. pex \subseteq Addr /\ mislisted \subseteq mislisted'
    BY <1>0, <2>1 DEF TypeOK
  <2>3. ASSUME NEW b \in pex \ mislisted' PROVE peer'[b] = "live" /\ out[b] = b
    <3>1. peer[b] = "live" /\ out[b] = b /\ b \in Addr
      BY <2>2, <2>3 DEF PexListed
    <3>2. b # a
      BY <1>1, <2>1, <2>3, <3>1
    <3> QED
      BY <2>1, <3>1, <3>2
  <2>4. PexListed'
    BY <2>1, <2>2, <2>3 DEF PexListed
  <2>5. PexComplete'
    BY <2>1, <2>2, PexCompleteStep
  <2> QED
    BY <2>4, <2>5
<1>7. CASE NothingLeftToDo(t)
  BY <1>7, PexCompleteStep DEF NothingLeftToDo, PexListed
<1>8. ASSUME NEW a \in Addr, AddIncomingPeer(a, t) PROVE PexListed' /\ PexComplete'
  <2>1. /\ stage[t] = "free" /\ UNCHANGED <<mislisted, env>> /\ ~Active(a)
        /\ incoming'[t] = TRUE /\ \A u \in Task : u # t => incoming'[u] = incoming[u]
    BY <1>0, <1>8 DEF AddIncomingPeer, TypeOK
  <2>2. /\ PexListed' /\ holder'[a] = t
        /\ \A b \in Addr \ mislisted :
             b # a => /\ b \in pex' <=> b \in pex
                      /\ peer'[b] = peer[b] /\ holder'[b] = holder[b] /\ out'[b] = out[b]
    <3>1. CASE peer[a] = "absent"
      <4>1. /\ peer' = [peer EXCEPT ![a] = "live"] /\ holder' = [holder EXCEPT ![a] = t]
            /\ out' = [out EXCEPT ![a] = None] /\ pex' = pex
        BY <1>8, <3>1 DEF AddIncomingPeer
      <4>2. a \notin pex \ mislisted /\ pex \subseteq Addr
        BY <1>0, <3>1 DEF PexListed, TypeOK
      <4> QED
        BY <1>0, <2>1, <4>1, <4>2 DEF PexListed, TypeOK
    <3>2. CASE peer[a] # "absent"
      <4>1. SetState(a, "live", t, dialled[a]) /\ UNCHANGED out
        BY <1>8, <3>2 DEF AddIncomingPeer
      <4>2. dialled[a] \in BOOLEAN
        BY <1>0 DEF TypeOK
      <4> QED
        BY <1>0, <2>1, <4>1, <4>2, SetStateLists
    <3> QED
      BY <3>1, <3>2
  <2>3. PexComplete'
    BY <1>2, <2>1, <2>2, PexCompleteStep
  <2> QED
    BY <2>2, <2>3
<1>9. ASSUME NEW error \in BOOLEAN, OnPeerDied(t, error) PROVE PexListed' /\ PexComplete'
  <2> DEFINE a == addr[t]
  <2>1. UNCHANGED <<out, mislisted, incoming, env>> /\ a \in Addr
    <3>1. a \in Addr
      BY <1>0, <1>9 DEF OnPeerDied, TypeOK
    <3>2. UNCHANGED <<out, mislisted, env>>
      BY <1>9 DEF OnPeerDied
    <3>3. UNCHANGED incoming
      BY <1>9 DEF OnPeerDied, Exit
    <3> QED
      BY <3>1, <3>2, <3>3
  <2>2. \/ UNCHANGED <<peer, holder, pex>>
        \/ \E st \in {"queued", "dead", "notNeeded"} : SetState(a, st, None, FALSE)
        \/ /\ peer' = [peer EXCEPT ![a] = "dead"] /\ holder' = [holder EXCEPT ![a] = None]
           /\ pex' = IF peer[a] = "live" THEN pex \ {out[a]} ELSE pex
    BY <1>9 DEF OnPeerDied
  <2>3. CASE UNCHANGED <<peer, holder, pex>>
    BY <2>1, <2>3, PexCompleteStep DEF PexListed
  <2>4. ASSUME NEW st \in {"queued", "dead", "notNeeded"}, SetState(a, st, None, FALSE)
        PROVE  PexListed' /\ PexComplete'
    <3>1. st \in States /\ FALSE \in BOOLEAN
      OBVIOUS
    <3>2. /\ PexListed' /\ peer'[a] # "live"
          /\ \A b \in Addr \ mislisted : b # a => (b \in pex' <=> b \in pex)
          /\ \A b \in Addr : b # a => peer'[b] = peer[b] /\ holder'[b] = holder[b]
      BY <1>0, <2>1, <2>4, <3>1, SetStateLists, ZenonT(40)
    <3> QED
      BY <2>1, <3>2, PexCompleteStep
  <2>5. CASE /\ peer' = [peer EXCEPT ![a] = "dead"] /\ holder' = [holder EXCEPT ![a] = None]
             /\ pex' = IF peer[a] = "live" THEN pex \ {out[a]} ELSE pex
    <3>1. a \in pex \ mislisted => peer[a] = "live" /\ out[a] = a
      BY DEF PexListed
    <3>2. pex \subseteq Addr /\ out[a] \in {a, None} \cup mislisted
      BY <1>0, <2>1 DEF PexListed, TypeOK
    <3>3. /\ a \notin pex' \ mislisted /\ pex' \subseteq pex
          /\ \A b \in Addr \ mislisted : b # a => (b \in pex' <=> b \in pex)
      BY <1>1, <2>5, <3>1, <3>2
    <3>4. peer'[a] = "dead" /\ \A b \in Addr : b # a => peer'[b] = peer[b] /\ holder'[b] = holder[b]
      BY <1>0, <2>1, <2>5 DEF TypeOK
    <3>5. PexListed'
      BY <2>1, <3>2, <3>3, <3>4 DEF PexListed
    <3> QED
      BY <2>1, <3>3, <3>4, <3>5, PexCompleteStep
  <2> QED
    BY <2>2, <2>3, <2>4, <2>5
<1> QED
  BY <1>3, <1>4, <1>5, <1>6, <1>7, <1>8, <1>9, <1>10, <1>11 DEF TaskStep

\* The steps of the timers, the monitor, the pruner, the adder and the torrent keep the
\* list exact.
LEMMA PexOther ==
  ASSUME Owned, PexListed, PexComplete,
         \/ \E a \in Addr : PeerStep(a)
         \/ AdderTakes \/ PruneDeadPeers \/ HealthCheck
         \/ Complete \/ Deselect \/ Reselect
  PROVE  PexListed' /\ PexComplete'
<1> USE DEF table, tasks, sweeps
<1>0. TypeOK /\ OldIsTerminal /\ None \notin Addr /\ pex \subseteq Addr /\ old \subseteq Addr
  BY ConstantsAssumption DEF ConstantsAssumption, Owned, TypeOK
<1>1. ASSUME UNCHANGED <<peer, holder, out, pex, mislisted, incoming, env>> PROVE PexListed' /\ PexComplete'
  BY <1>1, PexCompleteStep DEF PexListed
<1>2. ASSUME NEW a \in Addr, NEW st \in {"queued", "notNeeded"}, SetState(a, st, None, FALSE), UNCHANGED <<out, mislisted, incoming, env>>
      PROVE  PexListed' /\ PexComplete'
  <2>1. st \in States /\ FALSE \in BOOLEAN
    OBVIOUS
  <2>2. /\ PexListed' /\ peer'[a] = st
        /\ \A b \in Addr \ mislisted : b # a => (b \in pex' <=> b \in pex) /\ peer'[b] = peer[b] /\ holder'[b] = holder[b]
    BY <1>0, <1>2, <2>1, SetStateLists
  <2> QED
    BY <1>2, <2>2, PexCompleteStep
<1>3. ASSUME NEW a \in Addr, PeerStep(a) PROVE PexListed' /\ PexComplete'
  <2>1. CASE AddIfNotSeen(a)
    <3>1. /\ peer[a] = "absent" /\ UNCHANGED <<holder, pex, mislisted, incoming, env>>
          /\ peer' = [peer EXCEPT ![a] = "queued"] /\ out' = [out EXCEPT ![a] = a]
      BY <2>1 DEF AddIfNotSeen
    <3>2. a \notin pex \ mislisted
      BY <3>1 DEF PexListed
    <3>3. /\ peer'[a] = "queued" /\ out'[a] = a
          /\ \A b \in Addr : b # a => peer'[b] = peer[b] /\ out'[b] = out[b]
      BY <1>0, <3>1 DEF TypeOK
    <3>4. PexListed'
      BY <1>0, <3>1, <3>2, <3>3 DEF PexListed
    <3> QED
      BY <3>1, <3>3, <3>4, PexCompleteStep
  <2>2. CASE TimerFires(a) \/ RequeueDeadPeer(a) \/ ReconnectNotNeededPeer(a) \/ GrowOld(a)
    <3>1. UNCHANGED <<out, mislisted, incoming, env>>
      BY <2>2 DEF TimerFires, RequeueDeadPeer, ReconnectNotNeededPeer, GrowOld
    <3>2. SetState(a, "queued", None, FALSE) \/ UNCHANGED <<peer, holder, pex>>
      BY <2>2, Zenon DEF TimerFires, RequeueDeadPeer, ReconnectNotNeededPeer, GrowOld
    <3> QED
      BY <1>1, <1>2, <3>1, <3>2
  <2> QED
    BY <1>3, <2>1, <2>2 DEF PeerStep
<1>4. CASE AdderTakes
  <2>1. UNCHANGED <<out, mislisted, incoming, env>> /\ Head(queue) \in Addr
    BY <1>0, <1>4 DEF AdderTakes, TypeOK
  <2>2. SetState(Head(queue), "notNeeded", None, FALSE) \/ UNCHANGED <<peer, holder, pex>>
    BY <1>4, Zenon DEF AdderTakes
  <2> QED
    BY <1>1, <1>2, <2>1, <2>2
<1>5. CASE PruneDeadPeers
  <2>1. /\ UNCHANGED <<out, pex, mislisted, incoming, env>>
        /\ \A a \in Addr : a \notin old => peer'[a] = peer[a] /\ holder'[a] = holder[a]
        /\ \A a \in Addr : a \in old => peer'[a] = "absent"
    BY <1>5 DEF PruneDeadPeers, Forget
  <2>2. (pex \ mislisted) \cap old = {}
    BY <1>0 DEF PexListed, OldIsTerminal
  <2>3. PexListed'
    BY <1>0, <2>1, <2>2 DEF PexListed
  <2> QED
    BY <2>1, <2>3, PexCompleteStep
<1>6. CASE Complete
  <2> DEFINE seeds == {a \in Seed : peer[a] = "live"}
  <2>1. /\ UNCHANGED <<out, mislisted, incoming, env>> /\ ~NeverFinishes
        /\ peer' = [a \in Addr |-> IF a \in seeds THEN "notNeeded" ELSE peer[a]]
        /\ pex' = pex \ {out[a] : a \in seeds}
    BY <1>6 DEF Complete
  <2>2. (pex' \ mislisted) \cap seeds = {}
    BY <2>1 DEF PexListed
  <2>3. PexListed'
    BY <1>0, <2>1, <2>2 DEF PexListed
  <2> QED
    BY <2>1, <2>3, PexCompleteStep
<1>7. CASE HealthCheck \/ Deselect \/ Reselect
  BY <1>1, <1>7 DEF HealthCheck, Deselect, Reselect
<1> QED
  BY <1>3, <1>4, <1>5, <1>6, <1>7

\* live_outgoing_peers holds exactly the live peers we dialled: no order of deaths,
\* incoming connections, completions and prunings leaves an address of a peer that is
\* gone in what PEX tells others, and, while nothing completes, none that is live and was
\* dialled is missing. Excepted are the addresses a peer elsewhere claimed for itself and
\* those a late drop_peer took the entry of.
THEOREM PexTellsTheTruth == Spec => []PexIsExact
<1>1. Init => PexListed /\ PexComplete
  BY DEF Init, PexListed, PexComplete
<1>2. Owned /\ PexListed /\ PexComplete /\ [Next]_vars => PexListed' /\ PexComplete'
  <2> SUFFICES ASSUME Owned, PexListed, PexComplete, [Next]_vars PROVE PexListed' /\ PexComplete'
    OBVIOUS
  <2>1. CASE UNCHANGED vars
    <3>1. UNCHANGED <<peer, holder, out, pex, mislisted, incoming, env>>
      BY <2>1 DEF vars, table, tasks
    <3> QED
      BY <3>1, PexCompleteStep DEF PexListed
  <2> QED
    BY <2>1, PexTask, PexOther DEF Next
<1>3. PexListed /\ PexComplete => PexIsExact
  BY DEF PexListed, PexComplete, PexIsExact
<1> QED
  BY <1>1, <1>2, <1>3, OwnedInvariant, PTL DEF Spec
=============================================================================
