--------------------------- MODULE SessionDbProofs ---------------------------
(* Machine-checked proofs about SessionDb, for any number of torrents, calls, *)
(* ids and selections, every store and any number of faults.                  *)
EXTENDS SessionDb, NaturalsInduction, WellFoundedInduction, TLAPS

\* What a call holds follows from where it stands.
Proper(r) ==
  /\ r.stage = "idle" => r = Idle
  /\ r.stage # "idle" => r.hash \in Hashes /\ r.op \in Ops
  /\ r.stage = "id" => r.op = "add"
  /\ r.stage \notin {"idle", "id"} => r.id \in Ids
  /\ r.stage \in {"id", "insert"} => r.op \in {"add", "restore"} /\ r.row \in Settings /\ r.h = None
  /\ r.stage \notin {"idle", "id", "insert"} => r.h # None
  /\ r.stage \in {"row", "flush"} /\ r.op # "delete" => r.row \in Row /\ r.row.hash = r.hash
  /\ r.stage = "snapshot" => r.op # "delete"
  /\ r.stage = "start" => r.op \in {"add", "restore"}
  /\ r.stage = "unlink" => r.op = "delete"
  /\ r.stage \in {"apply", "failed"} => r.op \in {"pause", "unpause", "select"}

\* The torrent a call or the table refers to exists, and is the one it is taken for.
Refs ==
  /\ \A i \in Ids : torrents[i] # None =>
       /\ handle[torrents[i]] # None /\ handle[torrents[i]].id = i
       /\ index[handle[torrents[i]].hash] = i
  /\ \A h \in Hashes : index[h] # None =>
       torrents[index[h]] # None /\ handle[torrents[index[h]]].hash = h
  /\ \A c \in Calls : call[c].h # None =>
       /\ handle[call[c].h] # None
       /\ handle[call[c].h].hash = call[c].hash /\ handle[call[c].h].id = call[c].id

Callers == \A c \in Calls : Proper(call[c])

\* A restore is done with before the first call of a user, and looks at rows only.
Restoring ==
  /\ phase # "restoring" => toRestore = {} /\ \A c \in Calls : call[c].op # "restore"
  /\ phase = "restoring" => \A c \in Calls : call[c].op \in {"restore", ""}
  /\ phase = "down" => \A c \in Calls : call[c].op = ""
  /\ \A i \in toRestore : rows[i] # None

DbInv == TypeOK /\ Callers /\ Refs /\ Restoring

\* The objects stay, with their hashes and ids.
SameTorrents ==
  \A k \in Handles :
    /\ handle'[k] = None <=> handle[k] = None
    /\ handle[k] # None => handle'[k].hash = handle[k].hash /\ handle'[k].id = handle[k].id

-----------------------------------------------------------------------------
(* What the steps of calls have in common *)

USE DEF dotTorrent

\* A call changes its own state only.
LEMMA OneCall ==
  ASSUME TypeOK, Callers, NEW c \in Calls, NEW r \in CallState, Proper(r), call' = [call EXCEPT ![c] = r]
  PROVE  call' \in [Calls -> CallState] /\ Callers'
  BY DEF TypeOK, Callers

\* References stay right when no object goes or comes.
LEMMA RefsStay ==
  ASSUME TypeOK, Refs, SameTorrents, UNCHANGED <<torrents, index>>,
         \A c \in Calls : call'[c].h # None =>
           \/ call'[c].h = call[c].h /\ call'[c].hash = call[c].hash /\ call'[c].id = call[c].id
           \/ \E i \in Ids : /\ call'[c].h = torrents[i] /\ call'[c].id = i
                             /\ call'[c].hash = handle[torrents[i]].hash
  PROVE  Refs'
<1>1. \A i \in Ids : torrents[i] \in Handles \cup {None}
  BY DEF TypeOK
<1>2. \A c \in Calls : call[c].h \in Handles \cup {None}
  BY DEF TypeOK, CallState
<1>3. \A h \in Hashes : index[h] \in Ids \cup {None}
  BY DEF TypeOK
<1> QED
  BY <1>1, <1>2, <1>3 DEF Refs, SameTorrents

\* Returning frees the object of the call when nobody else refers to it.
LEMMA Returning ==
  ASSUME TypeOK, Callers, NEW c \in Calls, NEW table \in [Ids -> Handles \cup {None}], ReturnWith(c, table)
  PROVE  /\ call' \in [Calls -> CallState] /\ Callers'
         /\ handle' \in [Handles -> Torrent \cup {None}]
         /\ call'[c] = Idle /\ \A d \in Calls \ {c} : call'[d] = call[d]
         /\ \A k \in Handles : handle'[k] = handle[k] \/
              /\ k = call[c].h
              /\ \A i \in Ids : table[i] # k
              /\ \A d \in Calls \ {c} : call[d].h # k
<1>1. Idle \in CallState /\ Proper(Idle)
  BY DEF Idle, CallState, Stages, Proper
<1>2. call' = [call EXCEPT ![c] = Idle]
  BY DEF ReturnWith
<1>3. call' \in [Calls -> CallState] /\ Callers' /\ call'[c] = Idle /\ \A d \in Calls \ {c} : call'[d] = call[d]
  BY <1>1, <1>2, OneCall DEF TypeOK
<1>4. handle \in [Handles -> Torrent \cup {None}] /\ call[c].h \in Handles \cup {None}
  BY DEF TypeOK, CallState
<1> QED
  BY <1>3, <1>4 DEF ReturnWith

\* References stay right when a call returns and the table stays.
LEMMA RefsReturn ==
  ASSUME DbInv, NEW c \in Calls, Return(c), UNCHANGED <<torrents, index>>
  PROVE  Refs' /\ handle' \in [Handles -> Torrent \cup {None}] /\ call' \in [Calls -> CallState] /\ Callers'
<1>1. torrents \in [Ids -> Handles \cup {None}]
  BY DEF DbInv, TypeOK
<1>2. \A h \in Hashes : index[h] \in Ids \cup {None}
  BY DEF DbInv, TypeOK
<1>3. \A d \in Calls : call[d].h \in Handles \cup {None}
  BY DEF DbInv, TypeOK, CallState
<1>4. /\ call' \in [Calls -> CallState] /\ Callers' /\ handle' \in [Handles -> Torrent \cup {None}]
      /\ call'[c] = Idle /\ \A d \in Calls \ {c} : call'[d] = call[d]
      /\ \A k \in Handles : handle'[k] = handle[k] \/
           /\ k = call[c].h
           /\ \A i \in Ids : torrents[i] # k
           /\ \A d \in Calls \ {c} : call[d].h # k
  BY <1>1, Returning DEF Return, DbInv
<1>5. Refs
  BY DEF DbInv
<1>6. \A i \in Ids : torrents[i] # None => handle'[torrents[i]] = handle[torrents[i]]
  BY <1>1, <1>4
<1>7. \A d \in Calls : call'[d].h # None => d # c /\ call'[d] = call[d] /\ handle'[call[d].h] = handle[call[d].h]
  <2>1. Idle.h = None
    BY DEF Idle
  <2> QED
    BY <2>1, <1>3, <1>4
<1>8. Refs'
  BY <1>2, <1>5, <1>6, <1>7 DEF Refs
<1> QED
  BY <1>4, <1>8

\* A torrent keeps its hash and id whatever is said about its settings or its run.
LEMMA Resettled ==
  ASSUME NEW t \in Torrent
  PROVE  /\ \A b \in BOOLEAN : [t EXCEPT !.set.paused = b] \in Torrent
         /\ \A b \in BOOLEAN, u \in {"live", "paused", "error", "gone"} : [t EXCEPT !.set.paused = b, !.run = u] \in Torrent
         /\ \A u \in {"live", "paused", "error", "gone"} : [t EXCEPT !.run = u] \in Torrent
         /\ \A o \in Selections : [t EXCEPT !.set.only = o] \in Torrent
         /\ t # None
  BY NoneAssumption DEF Torrent, Settings

-----------------------------------------------------------------------------
(* Types, calls and references: one lemma per group of steps *)

\* Steps that move a call on and leave the objects alone.
LEMMA CallMoves ==
  ASSUME DbInv, NEW c \in Calls, NEW r \in CallState, Proper(r), call' = [call EXCEPT ![c] = r],
         UNCHANGED <<torrents, index, handle>>,
         r.h # None =>
           \/ r.h = call[c].h /\ r.hash = call[c].hash /\ r.id = call[c].id
           \/ \E i \in Ids : r.h = torrents[i] /\ r.id = i /\ r.hash = handle[torrents[i]].hash
  PROVE  call' \in [Calls -> CallState] /\ Callers' /\ Refs'
<1>1. call' \in [Calls -> CallState] /\ Callers'
  BY OneCall DEF DbInv
<1>2. SameTorrents
  BY DEF SameTorrents
<1>3. call'[c] = r /\ \A d \in Calls \ {c} : call'[d] = call[d]
  BY DEF DbInv, TypeOK
<1> QED
  BY <1>1, <1>2, <1>3, RefsStay DEF DbInv

\* A step of a call leaves the restore as it is.
LEMMA RestoringStays ==
  ASSUME Restoring, UNCHANGED <<phase, toRestore>>,
         \A d \in Calls : call'[d].op \in {call[d].op, ""},
         \A i \in toRestore : rows'[i] # None
  PROVE  Restoring'
  BY DEF Restoring

\* Beginning of calls.
LEMMA BeginSteps ==
  ASSUME DbInv, NEW c \in Calls,
         \/ \E h \in Hashes, s \in Settings : AddTorrent(c, h, s)
         \/ \E i \in Ids : Restore(c, i)
         \/ \E i \in Ids, op \in {"pause", "unpause", "select"} : Change(c, op, i)
  PROVE  DbInv'
<1>a. \A d \in Calls \ {c} : call'[d] = call[d]
  BY DEF AddTorrent, Restore, Change, Begin, DbInv, TypeOK
<1>1. ASSUME NEW h \in Hashes, NEW s \in Settings, AddTorrent(c, h, s) PROVE DbInv'
  <2> DEFINE r == [[Idle EXCEPT !.stage = "id", !.row = s] EXCEPT !.op = "add", !.hash = h]
  <2>1. /\ call' = [call EXCEPT ![c] = r] /\ UNCHANGED <<backend, phase, database, store, toRestore, wish>>
        /\ phase \in {"up", "stopping"}
    BY <1>1 DEF AddTorrent, Begin
  <2>2. r \in CallState /\ Proper(r) /\ r.h = None /\ r.op = "add"
    BY DEF Idle, CallState, Stages, Ops, Proper
  <2>3. call'[c] = r
    BY <2>1 DEF DbInv, TypeOK
  <2> HIDE DEF r
  <2>4. Restoring'
    BY <1>a, <2>1, <2>2, <2>3 DEF DbInv, Restoring, store
  <2> QED
    BY <2>1, <2>2, <2>4, CallMoves DEF DbInv, TypeOK, database, store
<1>2. ASSUME NEW i \in Ids, Restore(c, i) PROVE DbInv'
  <2> DEFINE r == [[Idle EXCEPT !.stage = "insert", !.id = i, !.row = rows[i].set]
                    EXCEPT !.op = "restore", !.hash = rows[i].hash]
  <2>1. /\ call' = [call EXCEPT ![c] = r] /\ UNCHANGED <<backend, phase, database, store, wish>>
        /\ phase = "restoring" /\ toRestore' = toRestore \ {i}
    BY <1>2 DEF Restore, Begin
  <2>2. rows[i] \in Row
    BY <1>2 DEF Restore, DbInv, Restoring, TypeOK
  <2>3. r \in CallState /\ Proper(r) /\ r.h = None /\ r.op = "restore"
    BY <2>2 DEF Idle, CallState, Stages, Ops, Proper, Row
  <2>4. call'[c] = r
    BY <2>1 DEF DbInv, TypeOK
  <2> HIDE DEF r
  <2>5. Restoring'
    BY <1>a, <2>1, <2>3, <2>4 DEF DbInv, Restoring, store
  <2> QED
    BY <2>1, <2>3, <2>5, CallMoves DEF DbInv, TypeOK, database, store
<1>3. ASSUME NEW i \in Ids, NEW op \in {"pause", "unpause", "select"}, Change(c, op, i) PROVE DbInv'
  <2> DEFINE k == torrents[i]
             r == [[Idle EXCEPT !.stage = "apply", !.id = i, !.h = k] EXCEPT !.op = op, !.hash = handle[k].hash]
  <2>1. /\ call' = [call EXCEPT ![c] = r] /\ UNCHANGED <<backend, phase, database, store, toRestore, wish>>
        /\ phase \in {"up", "stopping"} /\ k # None
    BY <1>3 DEF Change, Begin
  <2>2. k \in Handles /\ handle[k] \in Torrent
    BY <2>1 DEF DbInv, TypeOK, Refs
  <2>3. handle[k].hash \in Hashes
    BY <2>2 DEF Torrent
  <2> HIDE DEF k
  <2>4. r \in CallState /\ Proper(r) /\ r.h = k /\ r.op = op /\ r.id = i /\ r.hash = handle[k].hash
    BY <2>1, <2>2, <2>3 DEF Idle, CallState, Stages, Ops, Proper
  <2>5. call'[c] = r
    BY <2>1 DEF DbInv, TypeOK
  <2> HIDE DEF r
  <2>6. Restoring'
    BY <1>a, <2>1, <2>4, <2>5 DEF DbInv, Restoring, store
  <2>7. r.h = torrents[i] /\ r.id = i /\ r.hash = handle[torrents[i]].hash
    BY <2>4 DEF k
  <2> QED
    BY <2>1, <2>4, <2>6, <2>7, CallMoves DEF DbInv, TypeOK, database, store
<1> QED
  BY <1>1, <1>2, <1>3

\* Steps that move a call to its next stage.
LEMMA MoveSteps ==
  ASSUME DbInv, NEW c \in Calls, NextId(c) \/ Snapshot(c) \/ PutRow(c)
  PROVE  DbInv'
<1>a. call[c] \in CallState /\ Proper(call[c])
  BY DEF DbInv, TypeOK, Callers
<1>b. /\ backend \in Backends /\ phase \in {"up", "stopping", "down", "restoring"} /\ torrents \in [Ids -> Handles \cup {None}]
      /\ index \in [Hashes -> Ids \cup {None}] /\ handle \in [Handles -> Torrent \cup {None}]
      /\ counter \in 0..(MaxId + 1) /\ rows \in [Ids -> Row \cup {None}] /\ toRestore \subseteq Ids
      /\ file \in [rows : [Ids -> Row \cup {None}], written : BOOLEAN] /\ torrentFiles \subseteq Hashes /\ arriving \subseteq Hashes
      /\ call \in [Calls -> CallState]
  BY DEF DbInv, TypeOK
<1>1. CASE NextId(c)
  <2>1. PICK i \in Ids : call' = [call EXCEPT ![c] = [call[c] EXCEPT !.stage = "insert", !.id = i]]
    BY <1>1, <1>b DEF NextId
  <2> DEFINE r == [call[c] EXCEPT !.stage = "insert", !.id = i]
  <2>2. r \in CallState /\ Proper(r) /\ r.h = None /\ r.op = call[c].op
    BY <1>1, <1>a DEF NextId, CallState, Stages, Proper
  <2>3. call'[c] = r /\ \A d \in Calls \ {c} : call'[d] = call[d]
    BY <2>1, <1>b
  <2> HIDE DEF r
  <2>4. Restoring'
    BY <1>1, <2>2, <2>3, RestoringStays DEF NextId, DbInv, Restoring, store
  <2>5. counter' \in 0..(MaxId + 1)
    BY <1>1, <1>b, ConstantsAssumption DEF NextId, Ids
  <2>6. UNCHANGED <<backend, phase, torrents, index, handle, rows, file, torrentFiles, arriving, toRestore>>
    BY <1>1 DEF NextId, store
  <2>7. call' \in [Calls -> CallState] /\ Callers' /\ Refs'
    BY <2>1, <2>2, <2>6, CallMoves DEF r
  <2> QED
    BY <1>b, <2>4, <2>5, <2>6, <2>7 DEF DbInv, TypeOK
<1>2. CASE Snapshot(c)
  <2> DEFINE k == call[c].h
             r == [call[c] EXCEPT !.stage = "row", !.row = RowOf(k)]
  <2>1. /\ call' = [call EXCEPT ![c] = r]
        /\ UNCHANGED <<backend, phase, torrents, index, handle, counter, rows, file, toRestore>>
        /\ torrentFiles' \subseteq torrentFiles \cup {call[c].hash}
        /\ arriving' \subseteq arriving \cup {call[c].hash}
    BY <1>2 DEF Snapshot, WriteTorrentFile, database
  <2>2. k \in Handles /\ handle[k] \in Torrent /\ handle[k].hash = call[c].hash /\ call[c].hash \in Hashes
    <3>1. k \in Handles /\ call[c].hash \in Hashes /\ k # None
      BY <1>2, <1>a DEF Snapshot, Proper, CallState
    <3>2. handle[k] # None /\ handle[k].hash = call[c].hash
      BY <3>1 DEF DbInv, Refs
    <3> QED
      BY <1>b, <3>1, <3>2
  <2>3. RowOf(k) \in Row /\ RowOf(k).hash = call[c].hash
    BY <2>2 DEF RowOf, Row, Torrent
  <2>4. r \in CallState /\ Proper(r) /\ r.h = call[c].h /\ r.hash = call[c].hash /\ r.id = call[c].id /\ r.op = call[c].op
    BY <1>2, <1>a, <2>3 DEF Snapshot, CallState, Stages, Proper
  <2>5. call'[c] = r /\ \A d \in Calls \ {c} : call'[d] = call[d]
    BY <2>1, <1>b
  <2> HIDE DEF r
  <2>6. Restoring'
    BY <2>1, <2>4, <2>5, RestoringStays DEF DbInv, Restoring
  <2>7. call' \in [Calls -> CallState] /\ Callers' /\ Refs'
    BY <2>1, <2>4, CallMoves
  <2>8. torrentFiles' \subseteq Hashes /\ arriving' \subseteq Hashes
    BY <1>b, <2>1, <2>2
  <2> QED
    BY <1>b, <2>1, <2>6, <2>7, <2>8 DEF DbInv, TypeOK
<1>3. CASE PutRow(c)
  <2> DEFINE r == [call[c] EXCEPT !.stage = "flush"]
  <2>1. /\ call' = [call EXCEPT ![c] = r]
        /\ UNCHANGED <<backend, phase, torrents, index, handle, counter, file, torrentFiles, arriving, toRestore>>
        /\ rows' = [rows EXCEPT ![call[c].id] = call[c].row]
    BY <1>3 DEF PutRow, Goto
  <2>2. call[c].row \in Row /\ call[c].row # None
    BY <1>3, <1>a, NoneAssumption DEF PutRow, Proper
  <2>3. r \in CallState /\ Proper(r) /\ r.h = call[c].h /\ r.hash = call[c].hash /\ r.id = call[c].id /\ r.op = call[c].op
    BY <1>3, <1>a DEF PutRow, CallState, Stages, Proper
  <2>4. call'[c] = r /\ \A d \in Calls \ {c} : call'[d] = call[d]
    BY <2>1, <1>b
  <2> HIDE DEF r
  <2>5. Restoring'
    BY <1>b, <2>1, <2>2, <2>3, <2>4, RestoringStays DEF DbInv, Restoring
  <2>6. call' \in [Calls -> CallState] /\ Callers' /\ Refs'
    BY <2>1, <2>3, CallMoves
  <2>7. rows' \in [Ids -> Row \cup {None}]
    BY <1>b, <2>1, <2>2
  <2> QED
    BY <1>b, <2>1, <2>5, <2>6, <2>7 DEF DbInv, TypeOK
<1> QED
  BY <1>1, <1>2, <1>3

\* A call that returns leaves the tables alone.
LEMMA AfterReturn ==
  ASSUME DbInv, NEW c \in Calls, Return(c),
         UNCHANGED <<backend, phase, torrents, index, counter, toRestore>>,
         rows' \in [Ids -> Row \cup {None}],
         file' \in [rows : [Ids -> Row \cup {None}], written : BOOLEAN],
         torrentFiles' \subseteq Hashes /\ arriving' \subseteq Hashes,
         \A i \in toRestore : rows'[i] # None
  PROVE  DbInv'
<1>1. Refs' /\ handle' \in [Handles -> Torrent \cup {None}] /\ call' \in [Calls -> CallState] /\ Callers'
  BY RefsReturn
<1>2. \A d \in Calls : call'[d].op \in {call[d].op, ""}
  <2>1. call' = [call EXCEPT ![c] = Idle] /\ Idle.op = ""
    BY DEF Return, ReturnWith, Idle
  <2> QED
    BY <2>1 DEF DbInv, TypeOK
<1>3. Restoring'
  BY <1>2, RestoringStays DEF DbInv
<1>4. TypeOK'
  BY <1>1 DEF DbInv, TypeOK
<1> QED
  BY <1>1, <1>3, <1>4 DEF DbInv

\* A call that goes on to another stage.
LEMMA AfterGoto ==
  ASSUME DbInv, NEW c \in Calls, NEW s \in Stages, Goto(c, s), Proper([call[c] EXCEPT !.stage = s]),
         UNCHANGED <<backend, phase, torrents, index, counter, toRestore>>,
         rows' \in [Ids -> Row \cup {None}],
         file' \in [rows : [Ids -> Row \cup {None}], written : BOOLEAN],
         torrentFiles' \subseteq Hashes /\ arriving' \subseteq Hashes,
         \A i \in toRestore : rows'[i] # None
  PROVE  DbInv'
<1> DEFINE r == [call[c] EXCEPT !.stage = s]
<1>1. call[c] \in CallState /\ call \in [Calls -> CallState]
  BY DEF DbInv, TypeOK
<1>2. r \in CallState /\ r.h = call[c].h /\ r.hash = call[c].hash /\ r.id = call[c].id /\ r.op = call[c].op
  BY <1>1 DEF CallState
<1>3. call' = [call EXCEPT ![c] = r] /\ UNCHANGED handle
  BY DEF Goto
<1>4. call' \in [Calls -> CallState] /\ Callers' /\ Refs'
  <2> HIDE DEF r
  <2> QED
    BY <1>2, <1>3, CallMoves DEF r
<1>5. \A d \in Calls : call'[d].op \in {call[d].op, ""}
  <2> HIDE DEF r
  <2> QED
    BY <1>1, <1>2, <1>3
<1>6. Restoring'
  BY <1>5, RestoringStays DEF DbInv
<1>7. TypeOK'
  BY <1>3, <1>4 DEF DbInv, TypeOK
<1> QED
  BY <1>4, <1>6, <1>7 DEF DbInv

\* The steps that end a call or write to the store.
LEMMA StoreSteps ==
  ASSUME DbInv, NEW c \in Calls,
         Fails(c) \/ AlreadyManaged(c) \/ Start(c) \/ Execute(c) \/ Flush(c) \/ DeleteRow(c) \/ Unlink(c)
  PROVE  DbInv'
<1>a. call[c] \in CallState /\ Proper(call[c])
  BY DEF DbInv, TypeOK, Callers
<1>b. /\ rows \in [Ids -> Row \cup {None}] /\ torrentFiles \subseteq Hashes /\ arriving \subseteq Hashes /\ toRestore \subseteq Ids
      /\ file \in [rows : [Ids -> Row \cup {None}], written : BOOLEAN]
  BY DEF DbInv, TypeOK
<1>c. \A i \in toRestore : rows[i] # None
  BY DEF DbInv, Restoring
<1>1. CASE Fails(c) \/ AlreadyManaged(c) \/ Start(c)
  <2>1. Return(c) /\ UNCHANGED <<backend, phase, torrents, index, counter, toRestore, rows, file, torrentFiles, arriving>>
    BY <1>1 DEF Fails, AlreadyManaged, Start, store
  <2> QED
    BY <2>1, <1>b, <1>c, AfterReturn
<1>2. CASE Execute(c)
  <2>1. /\ Return(c) \/ (Goto(c, "start") /\ call[c].op \in {"add", "restore"})
        /\ UNCHANGED <<backend, phase, torrents, index, counter, toRestore, file, torrentFiles, arriving>>
        /\ rows' \in {rows, [rows EXCEPT ![call[c].id] = call[c].row]}
        /\ call[c].stage = "row" /\ call[c].op # "delete"
    BY <1>2 DEF Execute, AfterStore
  <2>2. call[c].row \in Row /\ call[c].row # None
    BY <2>1, <1>a, NoneAssumption DEF Proper
  <2>3. rows' \in [Ids -> Row \cup {None}] /\ \A i \in toRestore : rows'[i] # None
    BY <1>b, <1>c, <2>1, <2>2
  <2>4. call[c].op \in {"add", "restore"} => Proper([call[c] EXCEPT !.stage = "start"])
    BY <2>1, <1>a DEF Proper, CallState
  <2>5. "start" \in Stages
    BY DEF Stages
  <2> QED
    BY <1>b, <2>1, <2>3, <2>4, <2>5, AfterReturn, AfterGoto
<1>3. CASE Flush(c)
  <2>1. /\ \/ Return(c)
           \/ Goto(c, "start") /\ call[c].op \in {"add", "restore"}
           \/ Goto(c, "unlink") /\ call[c].op = "delete"
        /\ UNCHANGED <<backend, phase, torrents, index, counter, toRestore, rows, torrentFiles, arriving>>
        /\ file' = [rows |-> rows, written |-> FALSE]
        /\ call[c].stage = "flush"
    BY <1>3 DEF Flush, AfterStore
  <2>2. file' \in [rows : [Ids -> Row \cup {None}], written : BOOLEAN]
    BY <1>b, <2>1
  <2>3. /\ call[c].op \in {"add", "restore"} => Proper([call[c] EXCEPT !.stage = "start"])
        /\ call[c].op = "delete" => Proper([call[c] EXCEPT !.stage = "unlink"])
    BY <2>1, <1>a DEF Proper, CallState
  <2>4. "start" \in Stages /\ "unlink" \in Stages
    BY DEF Stages
  <2> QED
    BY <1>b, <1>c, <2>1, <2>2, <2>3, <2>4, AfterReturn, AfterGoto
<1>4. CASE DeleteRow(c)
  <2>1. /\ Return(c) \/ Goto(c, "flush")
        /\ UNCHANGED <<backend, phase, torrents, index, counter, toRestore, file, torrentFiles, arriving>>
        /\ rows' = [rows EXCEPT ![call[c].id] = None]
        /\ call[c].stage = "row" /\ call[c].op = "delete"
    BY <1>4 DEF DeleteRow
  <2>2. rows' \in [Ids -> Row \cup {None}]
    BY <1>b, <2>1
  <2>3. toRestore = {}
    BY <2>1 DEF DbInv, Restoring
  <2>4. Proper([call[c] EXCEPT !.stage = "flush"])
    BY <2>1, <1>a DEF Proper, CallState
  <2>5. "flush" \in Stages
    BY DEF Stages
  <2> QED
    BY <1>b, <2>1, <2>2, <2>3, <2>4, <2>5, AfterReturn, AfterGoto
<1>5. CASE Unlink(c)
  <2>1. /\ Return(c) /\ UNCHANGED <<backend, phase, torrents, index, counter, toRestore, rows, file>>
        /\ torrentFiles' \subseteq torrentFiles /\ arriving' \subseteq arriving
    BY <1>5 DEF Unlink
  <2>2. torrentFiles' \subseteq Hashes /\ arriving' \subseteq Hashes
    BY <1>b, <2>1
  <2> QED
    BY <2>1, <2>2, <1>b, <1>c, AfterReturn
<1> QED
  BY <1>1, <1>2, <1>3, <1>4, <1>5

\* An add takes an object that nobody has.
LEMMA InsertStep ==
  ASSUME DbInv, NEW c \in Calls, Insert(c)
  PROVE  DbInv'
<1>a. call[c] \in CallState /\ Proper(call[c])
  BY DEF DbInv, TypeOK, Callers
<1>b. /\ torrents \in [Ids -> Handles \cup {None}] /\ index \in [Hashes -> Ids \cup {None}]
      /\ handle \in [Handles -> Torrent \cup {None}] /\ call \in [Calls -> CallState]
  BY DEF DbInv, TypeOK
<1> DEFINE k == CHOOSE x \in FreeHandles : TRUE
           h == call[c].hash
           i == call[c].id
           t == [hash |-> h, id |-> i, set |-> call[c].row, run |-> IF call[c].row.paused THEN "paused" ELSE "live"]
           r == [call[c] EXCEPT !.h = k, !.stage = IF backend = "none" THEN "start" ELSE "snapshot"]
<1>1. k \in Handles /\ handle[k] = None
  BY DEF Insert, FreeHandles
<1>2. /\ call[c].stage = "insert" /\ torrents[i] = None /\ index[h] = None
      /\ index' = [index EXCEPT ![h] = i] /\ torrents' = [torrents EXCEPT ![i] = k]
      /\ handle' = [handle EXCEPT ![k] = t] /\ call' = [call EXCEPT ![c] = r]
      /\ UNCHANGED <<backend, phase, counter, rows, file, torrentFiles, arriving, toRestore>>
  BY DEF Insert, DbAdd, store
<1>3. h \in Hashes /\ i \in Ids /\ call[c].row \in Settings /\ call[c].op \in {"add", "restore"}
  BY <1>2, <1>a DEF Proper
<1>4. t \in Torrent /\ t # None /\ t.hash = h /\ t.id = i
  BY <1>3, NoneAssumption DEF Torrent
<1>5. k # None /\ i # None
  BY <1>1, <1>3, ConstantsAssumption DEF Ids
<1>6. r \in CallState /\ Proper(r) /\ r.h = k /\ r.hash = h /\ r.id = i /\ r.op = call[c].op
  <2> HIDE DEF k
  <2> QED
    BY <1>a, <1>1, <1>2, <1>3, <1>5 DEF CallState, Stages, Proper
<1> HIDE DEF k, h, i, t, r
<1>7. call' \in [Calls -> CallState] /\ Callers' /\ call'[c] = r /\ \A d \in Calls \ {c} : call'[d] = call[d]
  BY <1>b, <1>2, <1>6, OneCall DEF DbInv
<1>8. /\ handle'[k] = t /\ \A l \in Handles \ {k} : handle'[l] = handle[l]
      /\ index'[h] = i /\ \A g \in Hashes \ {h} : index'[g] = index[g]
      /\ torrents'[i] = k /\ \A j \in Ids \ {i} : torrents'[j] = torrents[j]
  BY <1>b, <1>1, <1>2, <1>3
<1>9. /\ \A j \in Ids : torrents[j] # k
      /\ \A d \in Calls : call[d].h # k
  BY <1>1, <1>5 DEF DbInv, Refs
<1>10. Refs'
  <2>1. ASSUME NEW j \in Ids, torrents'[j] # None
        PROVE  /\ handle'[torrents'[j]] # None /\ handle'[torrents'[j]].id = j
               /\ index'[handle'[torrents'[j]].hash] = j
    <3>1. CASE j = i
      BY <3>1, <1>8, <1>4
    <3>2. CASE j # i
      <4>1. torrents'[j] = torrents[j] /\ torrents[j] \in Handles \ {k} /\ handle[torrents[j]] \in Torrent
        BY <3>2, <2>1, <1>8, <1>9, <1>b DEF DbInv, Refs
      <4>2. handle'[torrents[j]] = handle[torrents[j]] /\ handle[torrents[j]].hash \in Hashes
        BY <4>1, <1>8 DEF Torrent
      <4>3. handle[torrents[j]].hash # h
        BY <2>1, <4>1, <1>2, ConstantsAssumption DEF DbInv, Refs, Ids
      <4> QED
        BY <2>1, <4>1, <4>2, <4>3, <1>8 DEF DbInv, Refs
    <3> QED
      BY <3>1, <3>2
  <2>2. ASSUME NEW g \in Hashes, index'[g] # None
        PROVE  torrents'[index'[g]] # None /\ handle'[torrents'[index'[g]]].hash = g
    <3>1. CASE g = h
      BY <3>1, <1>8, <1>4, <1>5
    <3>2. CASE g # h
      <4>1. index'[g] = index[g] /\ index[g] \in Ids /\ torrents[index[g]] # None /\ handle[torrents[index[g]]].hash = g
        BY <3>2, <2>2, <1>8, <1>b DEF DbInv, Refs
      <4>2. index[g] # i /\ torrents[index[g]] \in Handles \ {k}
        BY <4>1, <1>2, <1>9, <1>b
      <4> QED
        BY <4>1, <4>2, <1>8
    <3> QED
      BY <3>1, <3>2
  <2>3. ASSUME NEW d \in Calls, call'[d].h # None
        PROVE  /\ handle'[call'[d].h] # None /\ handle'[call'[d].h].hash = call'[d].hash
               /\ handle'[call'[d].h].id = call'[d].id
    <3>1. CASE d = c
      BY <3>1, <1>7, <1>6, <1>8, <1>4
    <3>2. CASE d # c
      <4>1. call'[d] = call[d] /\ call[d].h \in Handles \ {k}
        BY <3>2, <2>3, <1>7, <1>9, <1>b DEF CallState
      <4> QED
        BY <2>3, <4>1, <1>8 DEF DbInv, Refs
    <3> QED
      BY <3>1, <3>2
  <2> QED
    BY <2>1, <2>2, <2>3 DEF Refs
<1>11. Restoring'
  BY <1>2, <1>6, <1>7, RestoringStays DEF DbInv, Restoring
<1>12. TypeOK'
  <2>1. handle' \in [Handles -> Torrent \cup {None}] /\ index' \in [Hashes -> Ids \cup {None}]
        /\ torrents' \in [Ids -> Handles \cup {None}]
    BY <1>b, <1>1, <1>2, <1>3, <1>4
  <2> QED
    BY <2>1, <1>2, <1>7 DEF DbInv, TypeOK
<1> QED
  BY <1>7, <1>10, <1>11, <1>12 DEF DbInv

\* SessionDatabase::remove_torrent keeps the two maps together.
LEMMA Removing ==
  ASSUME DbInv, NEW i \in Ids, DbRemove(i),
         \A j \in Ids \ {i} : torrents[j] # None =>
           /\ handle'[torrents[j]] # None /\ handle'[torrents[j]].hash = handle[torrents[j]].hash
           /\ handle'[torrents[j]].id = handle[torrents[j]].id
  PROVE  /\ torrents' \in [Ids -> Handles \cup {None}] /\ index' \in [Hashes -> Ids \cup {None}]
         /\ \A j \in Ids : torrents'[j] # None =>
              /\ handle'[torrents'[j]] # None /\ handle'[torrents'[j]].id = j
              /\ index'[handle'[torrents'[j]].hash] = j
         /\ \A h \in Hashes : index'[h] # None =>
              torrents'[index'[h]] # None /\ handle'[torrents'[index'[h]]].hash = h
<1>a. torrents \in [Ids -> Handles \cup {None}] /\ index \in [Hashes -> Ids \cup {None}]
  BY DEF DbInv, TypeOK
<1>1. torrents' = [torrents EXCEPT ![i] = None]
  BY DEF DbRemove
<1>2. torrents'[i] = None /\ \A j \in Ids \ {i} : torrents'[j] = torrents[j]
  BY <1>a, <1>1
<1>3. torrents' \in [Ids -> Handles \cup {None}] /\ index' \in [Hashes -> Ids \cup {None}]
  BY <1>a, <1>1 DEF DbRemove
<1>4. \A h \in Hashes : index[h] = i => index'[h] = None
  BY <1>a DEF DbRemove, DbInv, Refs
<1>5. \A h \in Hashes : index[h] # i => index'[h] = index[h]
  <2> SUFFICES ASSUME NEW h \in Hashes, index[h] # i PROVE index'[h] = index[h]
    OBVIOUS
  <2>1. CASE torrents[i] = None
    BY <2>1 DEF DbRemove
  <2>2. CASE torrents[i] # None
    <3>1. index[handle[torrents[i]].hash] = i
      BY <2>2 DEF DbInv, Refs
    <3> QED
      BY <2>2, <3>1, <1>a DEF DbRemove
  <2> QED
    BY <2>1, <2>2
<1>6. ASSUME NEW j \in Ids, torrents'[j] # None
      PROVE  /\ handle'[torrents'[j]] # None /\ handle'[torrents'[j]].id = j
             /\ index'[handle'[torrents'[j]].hash] = j
  <2>1. j # i /\ torrents'[j] = torrents[j] /\ torrents[j] \in Handles
    BY <1>6, <1>2, <1>a
  <2>2. handle[torrents[j]].hash \in Hashes /\ handle[torrents[j]].id = j /\ index[handle[torrents[j]].hash] = j
    <3>1. handle[torrents[j]] \in Torrent
      BY <1>6, <2>1 DEF DbInv, Refs, TypeOK
    <3> QED
      BY <1>6, <2>1, <3>1 DEF DbInv, Refs, Torrent
  <2> QED
    BY <1>6, <2>1, <2>2, <1>5
<1>7. ASSUME NEW h \in Hashes, index'[h] # None
      PROVE  torrents'[index'[h]] # None /\ handle'[torrents'[index'[h]]].hash = h
  <2>1. index[h] # i /\ index'[h] = index[h] /\ index[h] \in Ids \ {i}
    BY <1>7, <1>4, <1>5, <1>a
  <2>2. torrents[index[h]] # None /\ handle[torrents[index[h]]].hash = h /\ torrents'[index[h]] = torrents[index[h]]
    BY <1>7, <1>2, <2>1 DEF DbInv, Refs
  <2> QED
    BY <2>1, <2>2
<1> QED
  BY <1>3, <1>6, <1>7

\* A failed add is taken out of the session again.
LEMMA FlushFailsStep ==
  ASSUME DbInv, NEW c \in Calls, FlushFails(c)
  PROVE  DbInv'
<1>a. call[c] \in CallState /\ Proper(call[c]) /\ torrents \in [Ids -> Handles \cup {None}]
  BY DEF DbInv, TypeOK, Callers
<1>b. call[c].id \in Ids
  BY <1>a DEF FlushFails, Proper
<1>c. UNCHANGED <<backend, phase, counter, rows, file, torrentFiles, arriving, toRestore>>
  BY DEF FlushFails, store
<1>d. torrents' \in [Ids -> Handles \cup {None}]
  BY <1>a DEF FlushFails, DbRemove
<1>e. /\ call' \in [Calls -> CallState] /\ Callers' /\ handle' \in [Handles -> Torrent \cup {None}]
      /\ call'[c] = Idle /\ \A d \in Calls \ {c} : call'[d] = call[d]
      /\ \A k \in Handles : handle'[k] = handle[k] \/
           /\ k = call[c].h
           /\ \A i \in Ids : torrents'[i] # k
           /\ \A d \in Calls \ {c} : call[d].h # k
  BY <1>d, Returning DEF FlushFails, DbInv
<1>f. \A d \in Calls : call[d].h \in Handles \cup {None}
  BY DEF DbInv, TypeOK, CallState
<1>1. \A d \in Calls : call'[d].h # None =>
        /\ handle'[call'[d].h] # None
        /\ handle'[call'[d].h].hash = call'[d].hash /\ handle'[call'[d].h].id = call'[d].id
  <2>1. Idle.h = None
    BY DEF Idle
  <2>2. \A d \in Calls : call'[d].h # None => d # c /\ call'[d] = call[d] /\ handle'[call[d].h] = handle[call[d].h]
    BY <2>1, <1>e, <1>f
  <2> QED
    BY <2>2 DEF DbInv, Refs
<1>2. \A d \in Calls : call'[d].op \in {call[d].op, ""}
  <2>1. Idle.op = ""
    BY DEF Idle
  <2> QED
    BY <2>1, <1>e
<1>3. Restoring'
  BY <1>2, <1>c, RestoringStays DEF DbInv, Restoring
<1>4. /\ index' \in [Hashes -> Ids \cup {None}]
      /\ \A j \in Ids : torrents'[j] # None =>
              /\ handle'[torrents'[j]] # None /\ handle'[torrents'[j]].id = j
              /\ index'[handle'[torrents'[j]].hash] = j
      /\ \A h \in Hashes : index'[h] # None =>
              torrents'[index'[h]] # None /\ handle'[torrents'[index'[h]]].hash = h
  <2>1. CASE DbRemove(call[c].id)
    <3>1. \A j \in Ids \ {call[c].id} : torrents'[j] = torrents[j]
      BY <2>1, <1>a DEF DbRemove
    <3>2. \A j \in Ids \ {call[c].id} : torrents[j] # None => handle'[torrents[j]] = handle[torrents[j]]
      BY <3>1, <1>a, <1>e
    <3> QED
      BY <2>1, <1>b, <3>2, Removing DEF DbInv, Refs
  <2>2. CASE UNCHANGED <<torrents, index>>
    <3>1. \A j \in Ids : torrents[j] # None => handle'[torrents[j]] = handle[torrents[j]]
      BY <2>2, <1>a, <1>e
    <3>2. index \in [Hashes -> Ids \cup {None}]
      BY DEF DbInv, TypeOK
    <3> QED
      BY <2>2, <3>1, <3>2 DEF DbInv, Refs
  <2> QED
    BY <2>1, <2>2 DEF FlushFails
<1>5. TypeOK'
  BY <1>c, <1>d, <1>e, <1>4 DEF DbInv, TypeOK
<1> QED
  BY <1>e, <1>1, <1>3, <1>4, <1>5 DEF DbInv, Refs

\* A delete keeps the object it took out of the table.
LEMMA DeleteStep ==
  ASSUME DbInv, NEW c \in Calls, NEW i \in Ids, Delete(c, i)
  PROVE  DbInv'
<1> DEFINE k == torrents[i]
           r == [[Idle EXCEPT !.stage = IF backend = "none" THEN "unlink" ELSE "row", !.id = i, !.h = k]
                  EXCEPT !.op = "delete", !.hash = handle[k].hash]
           b == handle[k].set.paused \/ handle[k].run = "live"
           t == [handle[k] EXCEPT !.set.paused = b, !.run = "gone"]
<1>1. k # None /\ k \in Handles /\ handle[k] \in Torrent /\ handle \in [Handles -> Torrent \cup {None}] /\ phase \in {"up", "stopping"}
  BY DEF Delete, DbInv, TypeOK, Refs
<1>2. /\ call' = [call EXCEPT ![c] = r] /\ DbRemove(i)
      /\ UNCHANGED <<backend, phase, counter, rows, file, torrentFiles, arriving, toRestore>>
  BY DEF Delete, Begin, store
<1>3. handle' = [handle EXCEPT ![k] = t]
  BY <1>1 DEF Delete, Torrent
<1>4. t \in Torrent /\ t.hash = handle[k].hash /\ t.id = handle[k].id /\ t # None /\ handle[k].hash \in Hashes
  <2>1. b \in BOOLEAN
    OBVIOUS
  <2>2. t \in Torrent /\ t # None
    <3> HIDE DEF b, k
    <3> QED
      BY <1>1, <2>1, Resettled
  <2> QED
    BY <1>1, <2>2 DEF Torrent
<1> HIDE DEF t, b
<1>5. r \in CallState /\ Proper(r) /\ r.h = k /\ r.id = i /\ r.hash = handle[k].hash /\ r.op = "delete"
  <2> HIDE DEF k
  <2> QED
    BY <1>1, <1>4 DEF Idle, CallState, Stages, Ops, Proper
<1> HIDE DEF r
<1>6. call' \in [Calls -> CallState] /\ Callers' /\ call'[c] = r /\ \A d \in Calls \ {c} : call'[d] = call[d]
  BY <1>2, <1>5, OneCall DEF DbInv, TypeOK
<1>7. SameTorrents /\ handle' \in [Handles -> Torrent \cup {None}]
  BY <1>1, <1>3, <1>4, NoneAssumption DEF SameTorrents
<1>8. \A d \in Calls : call'[d].h # None =>
        /\ handle'[call'[d].h] # None
        /\ handle'[call'[d].h].hash = call'[d].hash /\ handle'[call'[d].h].id = call'[d].id
  <2> SUFFICES ASSUME NEW d \in Calls, call'[d].h # None
               PROVE  /\ handle'[call'[d].h] # None
                      /\ handle'[call'[d].h].hash = call'[d].hash /\ handle'[call'[d].h].id = call'[d].id
    OBVIOUS
  <2>1. CASE d = c
    BY <2>1, <1>1, <1>5, <1>6, <1>7 DEF SameTorrents, DbInv, Refs
  <2>2. CASE d # c
    <3>1. call'[d] = call[d] /\ call[d].h \in Handles
      BY <2>2, <1>6 DEF DbInv, TypeOK, CallState
    <3> QED
      BY <3>1, <1>7 DEF SameTorrents, DbInv, Refs
  <2> QED
    BY <2>1, <2>2
<1>9. /\ torrents' \in [Ids -> Handles \cup {None}] /\ index' \in [Hashes -> Ids \cup {None}]
      /\ \A j \in Ids : torrents'[j] # None =>
              /\ handle'[torrents'[j]] # None /\ handle'[torrents'[j]].id = j
              /\ index'[handle'[torrents'[j]].hash] = j
      /\ \A h \in Hashes : index'[h] # None =>
              torrents'[index'[h]] # None /\ handle'[torrents'[index'[h]]].hash = h
  <2>1. \A j \in Ids : torrents[j] # None =>
           /\ handle'[torrents[j]] # None /\ handle'[torrents[j]].hash = handle[torrents[j]].hash
           /\ handle'[torrents[j]].id = handle[torrents[j]].id
    <3>1. \A j \in Ids : torrents[j] # None => torrents[j] \in Handles /\ handle[torrents[j]] # None
      BY DEF DbInv, TypeOK, Refs
    <3> QED
      BY <3>1, <1>7 DEF SameTorrents
  <2> QED
    BY <1>2, <2>1, Removing
<1>10. Restoring'
  BY <1>1, <1>2, <1>5, <1>6 DEF DbInv, Restoring
<1>11. TypeOK'
  BY <1>2, <1>6, <1>7, <1>9 DEF DbInv, TypeOK
<1> QED
  BY <1>6, <1>8, <1>9, <1>10, <1>11 DEF DbInv, Refs

\* Changing a torrent does not change which torrent it is.
LEMMA ChangeSteps ==
  ASSUME DbInv, NEW c \in Calls, Apply(c) \/ Refuse(c)
  PROVE  DbInv'
<1> DEFINE k == call[c].h
           op == call[c].op
<1>1. call[c] \in CallState /\ Proper(call[c]) /\ call[c].stage = "apply" /\ handle \in [Handles -> Torrent \cup {None}]
  BY DEF DbInv, TypeOK, Callers, Apply, Refuse
<1>2. k \in Handles /\ k # None /\ op \in {"pause", "unpause", "select"}
  BY <1>1 DEF Proper, CallState
<1>3. handle[k] \in Torrent
  BY <1>1, <1>2 DEF DbInv, Refs
<1>4. UNCHANGED <<backend, phase, torrents, index, counter, rows, file, torrentFiles, arriving, toRestore>>
  BY DEF Apply, Refuse, store
<1>5. PICK s \in {"failed", "snapshot"} : call' = [call EXCEPT ![c] = [call[c] EXCEPT !.stage = s]]
  BY DEF Apply, Refuse
<1> DEFINE r == [call[c] EXCEPT !.stage = s]
<1>6. r \in CallState /\ Proper(r) /\ r.h = k /\ r.hash = call[c].hash /\ r.id = call[c].id /\ r.op = op
  BY <1>1, <1>2 DEF CallState, Stages, Proper
<1>7. call' \in [Calls -> CallState] /\ Callers' /\ call'[c] = r /\ \A d \in Calls \ {c} : call'[d] = call[d]
  <2> HIDE DEF r
  <2> QED
    BY <1>5, <1>6, OneCall DEF DbInv, TypeOK, r
<1> HIDE DEF r
<1>8. handle' = handle \/ \E t \in Torrent : handle' = [handle EXCEPT ![k] = t] /\ t.hash = handle[k].hash /\ t.id = handle[k].id
  <2>1. CASE Apply(c)
    <3>1. PICK o \in Selections : handle' = [handle EXCEPT ![k] = Changed(handle[k], op, o)]
      BY <2>1 DEF Apply
    <3>2. Changed(handle[k], op, o) \in Torrent
      <4> HIDE DEF k, op
      <4> QED
        BY <1>2, <1>3, Resettled DEF Changed
    <3>3. Changed(handle[k], op, o).hash = handle[k].hash /\ Changed(handle[k], op, o).id = handle[k].id
      <4> HIDE DEF k, op
      <4> QED
        BY <1>2, <1>3 DEF Changed, Torrent
    <3> QED
      BY <3>1, <3>2, <3>3
  <2>2. CASE Refuse(c)
    <3>1. handle' = handle \/ handle' = [handle EXCEPT ![k] = [handle[k] EXCEPT !.set.paused = FALSE]]
      BY <2>2, <1>3 DEF Refuse
    <3>2. [handle[k] EXCEPT !.set.paused = FALSE] \in Torrent
      BY <1>3, Resettled
    <3>3. [handle[k] EXCEPT !.set.paused = FALSE].hash = handle[k].hash /\ [handle[k] EXCEPT !.set.paused = FALSE].id = handle[k].id
      BY <1>3 DEF Torrent
    <3> QED
      BY <3>1, <3>2, <3>3
  <2> QED
    BY <2>1, <2>2
<1>9. SameTorrents /\ handle' \in [Handles -> Torrent \cup {None}]
  BY <1>1, <1>2, <1>3, <1>8, NoneAssumption DEF SameTorrents
<1>10. Refs'
  BY <1>4, <1>6, <1>7, <1>9, RefsStay DEF DbInv
<1>11. Restoring'
  BY <1>4, <1>6, <1>7, RestoringStays DEF DbInv, Restoring
<1>12. TypeOK'
  BY <1>4, <1>7, <1>9 DEF DbInv, TypeOK
<1> QED
  BY <1>7, <1>10, <1>11, <1>12 DEF DbInv

\* The steps of torrents and of the process.
LEMMA ProcessSteps ==
  ASSUME DbInv,
         \/ \E k \in Handles : TorrentFails(k)
         \/ \E i \in Ids : RestoreFails(i)
         \/ \E h \in Hashes : TorrentFileWritten(h)
         \/ Written \/ Stop \/ Exit \/ Boot \/ Restored
  PROVE  DbInv'
<1>a. /\ torrents \in [Ids -> Handles \cup {None}] /\ handle \in [Handles -> Torrent \cup {None}]
      /\ rows \in [Ids -> Row \cup {None}] /\ file \in [rows : [Ids -> Row \cup {None}], written : BOOLEAN]
  BY DEF DbInv, TypeOK
<1>1. ASSUME NEW k \in Handles, TorrentFails(k) PROVE DbInv'
  <2>1. UNCHANGED <<backend, phase, torrents, index, counter, rows, file, torrentFiles, arriving, call, toRestore>>
    BY <1>1 DEF TorrentFails, store
  <2>2. handle[k] \in Torrent
    BY <1>1, <1>a, ConstantsAssumption DEF TorrentFails, DbInv, Refs
  <2>3. handle' = [handle EXCEPT ![k] = [handle[k] EXCEPT !.run = "error"]]
    BY <1>1 DEF TorrentFails
  <2>4. [handle[k] EXCEPT !.run = "error"] \in Torrent
    BY <2>2, Resettled
  <2>5. [handle[k] EXCEPT !.run = "error"].hash = handle[k].hash /\ [handle[k] EXCEPT !.run = "error"].id = handle[k].id
    BY <2>2 DEF Torrent
  <2>6. SameTorrents /\ handle' \in [Handles -> Torrent \cup {None}]
    BY <1>a, <2>2, <2>3, <2>4, <2>5, NoneAssumption DEF SameTorrents
  <2>7. Refs'
    BY <2>1, <2>6, RefsStay DEF DbInv
  <2> QED
    BY <2>1, <2>6, <2>7 DEF DbInv, TypeOK, Callers, Restoring
<1>2. ASSUME NEW i \in Ids, RestoreFails(i) PROVE DbInv'
  BY <1>2 DEF RestoreFails, DbInv, TypeOK, Callers, Refs, Restoring, database, store
<1>3. CASE Written
  <2>1. UNCHANGED <<backend, phase, torrents, index, handle, counter, rows, torrentFiles, arriving, call, toRestore>>
    BY <1>3 DEF Written, database
  <2>2. file' \in [rows : [Ids -> Row \cup {None}], written : BOOLEAN]
    BY <1>3, <1>a DEF Written
  <2> QED
    BY <2>1, <2>2 DEF DbInv, TypeOK, Callers, Refs, Restoring
<1>4. CASE Stop
  <2>1. UNCHANGED <<backend, torrents, index, counter, rows, file, torrentFiles, arriving, call, toRestore>> /\ phase = "up" /\ phase' = "stopping"
    BY <1>4 DEF Stop, store
  <2> DEFINE Paused(t) == [t EXCEPT !.set.paused = TRUE, !.run = "paused"]
  <2>2. \A k \in Handles : handle'[k] = handle[k] \/ (handle[k] # None /\ handle'[k] = Paused(handle[k]))
    <3>1. \A k \in Handles : (\E i \in Ids : torrents[i] = k) => handle[k] # None
      BY ConstantsAssumption DEF DbInv, Refs
    <3> QED
      BY <1>4, <3>1 DEF Stop
  <2>3. \A t \in Torrent : Paused(t) \in Torrent
    BY Resettled
  <2>4. \A t \in Torrent : Paused(t).hash = t.hash /\ Paused(t).id = t.id
    BY DEF Torrent
  <2> HIDE DEF Paused
  <2>5. SameTorrents
    BY <1>a, <2>2, <2>3, <2>4, NoneAssumption DEF SameTorrents
  <2>6. handle' \in [Handles -> Torrent \cup {None}]
    <3>1. DOMAIN handle' = Handles /\ handle' = [k \in Handles |-> handle'[k]]
      BY <1>4 DEF Stop
    <3>2. \A k \in Handles : handle'[k] \in Torrent \cup {None}
      BY <1>a, <2>2, <2>3
    <3> QED
      BY <3>1, <3>2
  <2>7. Refs'
    BY <2>1, <2>5, RefsStay DEF DbInv
  <2> QED
    BY <2>1, <2>6, <2>7 DEF DbInv, TypeOK, Callers, Restoring
<1>5. CASE Exit
  <2>1. Idle \in CallState /\ Proper(Idle) /\ Idle.h = None /\ Idle.op = ""
    BY DEF Idle, CallState, Stages, Proper
  <2>2. call' \in [Calls -> CallState] /\ Callers' /\ \A c \in Calls : call'[c] = Idle
    BY <1>5, <2>1 DEF Exit, Callers
  <2>3. /\ torrents' \in [Ids -> Handles \cup {None}] /\ \A i \in Ids : torrents'[i] = None
        /\ index' \in [Hashes -> Ids \cup {None}] /\ \A h \in Hashes : index'[h] = None
        /\ handle' \in [Handles -> Torrent \cup {None}] /\ rows' \in [Ids -> Row \cup {None}]
    BY <1>5, <1>a DEF Exit, NoRows
  <2>4. file' \in [rows : [Ids -> Row \cup {None}], written : BOOLEAN]
    BY <1>5, <1>a DEF Exit, NoRows
  <2>5. Refs'
    BY <2>1, <2>2, <2>3 DEF Refs
  <2>6. Restoring'
    BY <1>5, <2>1, <2>2 DEF Exit, Restoring
  <2> QED
    BY <1>5, <2>2, <2>3, <2>4, <2>5, <2>6 DEF Exit, DbInv, TypeOK
<1>6. CASE Boot
  <2>1. rows' \in [Ids -> Row \cup {None}]
    BY <1>6, <1>a DEF Boot
  <2>2. Restoring'
    BY <1>6 DEF Boot, DbInv, Restoring
  <2>3. Refs' /\ Callers'
    BY <1>6 DEF Boot, DbInv, Refs, Callers, database
  <2> QED
    BY <1>6, <2>1, <2>2, <2>3 DEF Boot, DbInv, TypeOK, database
<1>8. ASSUME NEW h \in Hashes, TorrentFileWritten(h) PROVE DbInv'
  <2>1. /\ UNCHANGED <<backend, phase, torrents, index, handle, counter, rows, file, call, toRestore>>
        /\ torrentFiles' \subseteq torrentFiles /\ arriving' \subseteq arriving
    BY <1>8 DEF TorrentFileWritten, database
  <2> QED
    BY <2>1 DEF DbInv, TypeOK, Callers, Refs, Restoring
<1>7. CASE Restored
  <2>1. Restoring'
    <3>1. \A c \in Calls : call[c].op = ""
      <4>1. Idle.op = ""
        BY DEF Idle
      <4> QED
        BY <1>7, <4>1 DEF Restored, Busy, DbInv, Callers, Proper
    <3> QED
      BY <1>7, <3>1 DEF Restored, Restoring
  <2> QED
    BY <1>7, <2>1 DEF Restored, DbInv, TypeOK, Refs, Callers, database, store
<1> QED
  BY <1>1, <1>2, <1>3, <1>4, <1>5, <1>6, <1>7, <1>8

-----------------------------------------------------------------------------
(* The index *)

\* A fresh session refers to nothing.
LEMMA DbInit == Init => DbInv
<1> SUFFICES ASSUME Init PROVE DbInv
  OBVIOUS
<1>1. Idle \in CallState /\ Proper(Idle) /\ Idle.h = None /\ Idle.op = ""
  BY DEF Idle, CallState, Stages, Proper
<1>2. TypeOK
  <2>1. counter \in 0..(MaxId + 1)
    BY ConstantsAssumption DEF Init
  <2>2. file \in [rows : [Ids -> Row \cup {None}], written : BOOLEAN]
    BY DEF Init, NoRows
  <2> QED
    BY <1>1, <2>1, <2>2 DEF Init, TypeOK, NoRows
<1>3. Callers /\ Refs /\ Restoring
  BY <1>1 DEF Init, Callers, Refs, Restoring, NoRows
<1> QED
  BY <1>2, <1>3 DEF DbInv

\* Every step keeps types, calls and references right.
LEMMA DbStep == DbInv /\ [Next]_vars => DbInv'
<1> SUFFICES ASSUME DbInv, [Next]_vars PROVE DbInv'
  OBVIOUS
<1>1. CASE Next
  BY <1>1, BeginSteps, MoveSteps, StoreSteps, InsertStep, FlushFailsStep, DeleteStep, ChangeSteps, ProcessSteps
  DEF Next, CallStep
<1>2. CASE UNCHANGED vars
  BY <1>2 DEF vars, database, store, history, DbInv, TypeOK, Callers, Refs, Restoring
<1> QED
  BY <1>1, <1>2

\* The invariant holds in every behaviour.
LEMMA DbInvariant == Spec => []DbInv
<1>1. Init => DbInv
  BY DbInit
<1>2. DbInv /\ [Next /\ Bounded]_vars => DbInv'
  BY DbStep
<1> QED
  BY <1>1, <1>2, PTL DEF Spec

\* The two maps SessionDatabase keeps by hand agree, whatever adds, deletes, changes,
\* failing writes, restores and exits interleave (SessionDatabase::add_torrent and
\* remove_torrent, Session::delete and add_torrent).
THEOREM MapsAgree == Spec => []IndexAgrees
<1>1. DbInv => IndexAgrees
  BY DEF DbInv, Refs, IndexAgrees
<1> QED
  BY <1>1, DbInvariant, PTL

-----------------------------------------------------------------------------
(* Fresh ids *)

\* An add between taking its row into account and storing it.
Storing(i) == \E d \in Calls : call[d].op = "add" /\ call[d].id = i /\ call[d].stage \in {"snapshot", "row"}

\* No two adds have one id, and an id that was just handed out is free.
OneAdd ==
  /\ \A c, d \in Calls : call[c].op = "add" /\ call[d].op = "add" /\ call[c].id \in Ids /\ call[c].id = call[d].id => c = d
  /\ \A c \in Calls : call[c].op = "add" /\ call[c].stage = "insert" => torrents[call[c].id] = None

\* The json store knows of every torrent, or an add is about to tell it; a delete
\* that has not reached the store yet is the only one of its id.
StoreKnows ==
  /\ \A i \in Ids : torrents[i] # None => rows[i] # None \/ Storing(i)
  /\ \A c \in Calls : call[c].op = "delete" /\ call[c].stage = "row" =>
       /\ torrents[call[c].id] = None
       /\ rows[call[c].id] # None \/ Storing(call[c].id)
       /\ \A d \in Calls \ {c} : call[d].id = call[c].id =>
            /\ ~(call[d].op = "delete" /\ call[d].stage = "row")
            /\ ~(call[d].op = "add" /\ call[d].stage = "insert")

\* A counter is ahead of every id in use.
CounterAhead ==
  /\ \A i \in Ids : torrents[i] # None \/ rows[i] # None => i < counter
  /\ \A c \in Calls : call[c].id \in Ids => call[c].id < counter

IdInv ==
  /\ \A c \in Calls : call[c].op = "restore" => rows[call[c].id] # None
  /\ phase = "down" => \A i \in Ids : torrents[i] = None
  /\ "sameId" \notin faults => OneAdd /\ (backend = "json" => StoreKnows)
  /\ backend # "json" => CounterAhead

\* A step that ends calls, moves them on or begins one, hands out no id and begins no
\* delete.
Routine ==
  /\ UNCHANGED <<backend, counter>>
  /\ faults \subseteq faults'
  /\ phase' = "down" => phase = "down"
  /\ \A i \in Ids : torrents'[i] = torrents[i] \/ torrents'[i] = None
  /\ \A i \in Ids : rows'[i] = rows[i] \/ \E c \in Calls : call[c].id = i /\ call[c].stage = "row"
  /\ \A i \in Ids : rows[i] # None /\ rows'[i] = None =>
       \E c \in Calls : /\ call[c].id = i /\ call[c].op = "delete" /\ call[c].stage = "row"
                        /\ call'[c].stage # "row"
  /\ \A d \in Calls :
       \/ call'[d].op = "" /\ call'[d].id = None
       \/ /\ call'[d].op = call[d].op /\ call'[d].id = call[d].id
          /\ call'[d].stage = "insert" => call[d].stage = "insert"
          /\ call'[d].stage = "row" /\ call[d].op = "delete" => call[d].stage = "row"
       \/ /\ call'[d].stage \in {"id", "apply"} /\ call'[d].op \notin {"restore", "delete"}
          /\ call'[d].op = "add" => call'[d].id = None
          /\ call'[d].id \in Ids => torrents[call'[d].id] # None
  /\ \A d \in Calls : call[d].op = "add" /\ call[d].stage \in {"snapshot", "row"} =>
       \/ call'[d].op = "add" /\ call'[d].stage \in {"snapshot", "row"}
       \/ rows'[call[d].id] # None

\* Routine steps keep the ids right.
LEMMA IdRoutine ==
  ASSUME DbInv, IdInv, Routine, DbInv'
  PROVE  IdInv'
<1>a. \A c \in Calls : call[c].stage \in {"row", "insert", "snapshot"} => call[c].id \in Ids
  BY DEF DbInv, Callers, Proper
<1>0. None \notin Ids
  BY ConstantsAssumption DEF Ids
<1>1. \A c \in Calls : call'[c].op = "restore" => rows'[call'[c].id] # None
  <2> SUFFICES ASSUME NEW c \in Calls, call'[c].op = "restore" PROVE rows'[call'[c].id] # None
    OBVIOUS
  <2>1. call[c].op = "restore" /\ call'[c].id = call[c].id
    BY DEF Routine
  <2>2. rows[call[c].id] # None
    BY <2>1 DEF IdInv
  <2>3. \A d \in Calls : call[d].op # "delete"
    BY <2>1 DEF DbInv, Restoring
  <2>4. call[c].id \in Ids
    <3>1. Idle.op = ""
      BY DEF Idle
    <3> QED
      BY <2>1, <3>1 DEF DbInv, Callers, Proper
  <2> QED
    BY <2>1, <2>2, <2>3, <2>4 DEF Routine
<1>2. phase' = "down" => \A i \in Ids : torrents'[i] = None
  BY DEF Routine, IdInv
<1>3. ASSUME backend' # "json" PROVE CounterAhead'
  <2>1. CounterAhead /\ UNCHANGED counter
    BY <1>3 DEF Routine, IdInv
  <2>2. \A i \in Ids : torrents'[i] # None => torrents[i] # None
    BY DEF Routine
  <2>3. \A i \in Ids : rows'[i] # None => rows[i] # None \/ \E c \in Calls : call[c].id = i
    BY DEF Routine
  <2>4. \A c \in Calls : call'[c].id \in Ids => call'[c].id = call[c].id \/ torrents[call'[c].id] # None
    BY <1>0 DEF Routine
  <2> QED
    BY <2>1, <2>2, <2>3, <2>4 DEF CounterAhead
<1>4. ASSUME "sameId" \notin faults' PROVE OneAdd'
  <2>1. OneAdd
    BY <1>4 DEF Routine, IdInv
  <2>2. \A c \in Calls : call'[c].op = "add" /\ (call'[c].id \in Ids \/ call'[c].stage = "insert") =>
          call[c].op = "add" /\ call'[c].id = call[c].id
    BY <1>0 DEF Routine
  <2>3. \A c \in Calls : call'[c].op = "add" /\ call'[c].stage = "insert" => call[c].stage = "insert" /\ call[c].id \in Ids
    BY <1>a DEF Routine
  <2>4. \A i \in Ids : torrents[i] = None => torrents'[i] = None
    BY DEF Routine
  <2> QED
    BY <2>1, <2>2, <2>3, <2>4 DEF OneAdd
<1>5. ASSUME "sameId" \notin faults', backend' = "json" PROVE StoreKnows'
  <2>1. StoreKnows /\ OneAdd
    BY <1>5 DEF Routine, IdInv
  <2>2. \A i \in Ids : Storing(i) => Storing(i)' \/ rows'[i] # None
    <3> SUFFICES ASSUME NEW i \in Ids, NEW d \in Calls,
                        call[d].op = "add", call[d].id = i, call[d].stage \in {"snapshot", "row"}
                 PROVE  Storing(i)' \/ rows'[i] # None
      BY DEF Storing
    <3>1. CASE call'[d].op = "add" /\ call'[d].stage \in {"snapshot", "row"}
      <4>1. call'[d].id = call[d].id
        BY <3>1 DEF Routine
      <4> QED
        BY <3>1, <4>1 DEF Storing
    <3> QED
      BY <3>1 DEF Routine
  <2>3. \A c \in Calls : call'[c].op = "delete" /\ call'[c].stage = "row" =>
          call[c].op = "delete" /\ call[c].stage = "row" /\ call'[c].id = call[c].id /\ call[c].id \in Ids
    <3> SUFFICES ASSUME NEW c \in Calls, call'[c].op = "delete", call'[c].stage = "row"
                 PROVE  call[c].op = "delete" /\ call[c].stage = "row" /\ call'[c].id = call[c].id
      BY <1>a
    <3> QED
      BY ZenonT(40) DEF Routine
  <2>4. \A i \in Ids : rows[i] # None => rows'[i] # None \/
          \E c \in Calls : /\ call[c].id = i /\ call[c].op = "delete" /\ call[c].stage = "row"
                           /\ call'[c].stage # "row"
    BY DEF Routine
  <2>5. ASSUME NEW i \in Ids, torrents'[i] # None PROVE rows'[i] # None \/ Storing(i)'
    <3>1. torrents[i] # None
      BY <2>5 DEF Routine
    <3>2. \A c \in Calls : ~(call[c].id = i /\ call[c].op = "delete" /\ call[c].stage = "row")
      BY <2>1, <3>1 DEF StoreKnows
    <3> QED
      BY <2>1, <2>2, <2>4, <3>1, <3>2 DEF StoreKnows
  <2>6. ASSUME NEW c \in Calls, call'[c].op = "delete", call'[c].stage = "row"
        PROVE  /\ torrents'[call'[c].id] = None
               /\ (rows[call[c].id] # None \/ Storing(call[c].id))'
               /\ \A d \in Calls \ {c} : call'[d].id = call'[c].id =>
                    /\ ~(call'[d].op = "delete" /\ call'[d].stage = "row")
                    /\ ~(call'[d].op = "add" /\ call'[d].stage = "insert")
    <3>1. call[c].op = "delete" /\ call[c].stage = "row" /\ call'[c].id = call[c].id /\ call[c].id \in Ids
      BY <2>3, <2>6
    <3>2. /\ torrents[call[c].id] = None
          /\ rows[call[c].id] # None \/ Storing(call[c].id)
          /\ \A d \in Calls \ {c} : call[d].id = call[c].id =>
               /\ ~(call[d].op = "delete" /\ call[d].stage = "row")
               /\ ~(call[d].op = "add" /\ call[d].stage = "insert")
      BY <2>1, <3>1 DEF StoreKnows
    <3>3. torrents'[call[c].id] = None
      BY <3>1, <3>2 DEF Routine
    <3>4. rows[call[c].id] # None => rows'[call[c].id] # None
      BY <2>4, <2>6, <3>1, <3>2
    <3>5. \A d \in Calls \ {c} : call'[d].op = "add" /\ call'[d].stage = "insert" =>
            call[d].op = "add" /\ call[d].stage = "insert" /\ call'[d].id = call[d].id
      BY DEF Routine
    <3>6. PICK i \in Ids : i = call[c].id
      BY <3>1
    <3>7. rows'[i] # None \/ Storing(i)'
      BY <2>2, <3>2, <3>4, <3>6
    <3>8. (rows[call[c].id] # None \/ Storing(call[c].id))'
      <4>1. i = call'[c].id
        BY <3>1, <3>6
      <4> QED
        BY <3>7, <4>1 DEF Storing
    <3> QED
      BY <2>3, <3>1, <3>2, <3>3, <3>5, <3>8
  <2> QED
    BY <2>5, <2>6 DEF StoreKnows
<1> QED
  BY <1>1, <1>2, <1>3, <1>4, <1>5 DEF IdInv

\* What a call looks like after it returned, and after it went to another stage.
LEMMA CallAfter ==
  ASSUME TypeOK, NEW c \in Calls
  PROVE  /\ \A table : ReturnWith(c, table) =>
              /\ call'[c].op = "" /\ call'[c].id = None /\ call'[c].stage = "idle" /\ call'[c].hash = None
              /\ \A d \in Calls \ {c} : call'[d] = call[d]
         /\ \A s \in Stages : call' = [call EXCEPT ![c].stage = s] =>
              /\ call'[c].op = call[c].op /\ call'[c].id = call[c].id /\ call'[c].stage = s /\ call'[c].hash = call[c].hash
              /\ \A d \in Calls \ {c} : call'[d] = call[d]
<1>1. call \in [Calls -> CallState] /\ call[c] \in CallState
  BY DEF TypeOK
<1>2. ASSUME NEW table, ReturnWith(c, table)
      PROVE  /\ call'[c].op = "" /\ call'[c].id = None /\ call'[c].stage = "idle" /\ call'[c].hash = None
             /\ \A d \in Calls \ {c} : call'[d] = call[d]
  <2>1. Idle.op = "" /\ Idle.id = None /\ Idle.stage = "idle" /\ Idle.hash = None
    BY DEF Idle
  <2>2. call' = [call EXCEPT ![c] = Idle]
    BY <1>2 DEF ReturnWith
  <2> QED
    BY <1>1, <2>1, <2>2
<1>3. ASSUME NEW s \in Stages, call' = [call EXCEPT ![c].stage = s]
      PROVE  /\ call'[c].op = call[c].op /\ call'[c].id = call[c].id /\ call'[c].stage = s /\ call'[c].hash = call[c].hash
             /\ \A d \in Calls \ {c} : call'[d] = call[d]
  <2>1. call'[c] = [call[c] EXCEPT !.stage = s]
    BY <1>1, <1>3
  <2>2. /\ [call[c] EXCEPT !.stage = s].op = call[c].op /\ [call[c] EXCEPT !.stage = s].id = call[c].id
        /\ [call[c] EXCEPT !.stage = s].stage = s /\ [call[c] EXCEPT !.stage = s].hash = call[c].hash
    BY <1>1 DEF CallState
  <2> QED
    BY <1>1, <1>3, <2>1, <2>2
<1> QED
  BY <1>2, <1>3

\* Most steps are routine.
LEMMA RoutineSteps ==
  ASSUME DbInv,
         \/ \E c \in Calls : \/ Fails(c) \/ AlreadyManaged(c) \/ Start(c) \/ Snapshot(c) \/ PutRow(c) \/ Execute(c)
                            \/ Flush(c) \/ FlushFails(c) \/ DeleteRow(c) \/ Unlink(c) \/ Apply(c) \/ Refuse(c)
         \/ \E k \in Handles : TorrentFails(k)
         \/ \E i \in Ids : RestoreFails(i)
         \/ \E h \in Hashes : TorrentFileWritten(h)
         \/ Written \/ Stop \/ Restored
  PROVE  Routine
<1>a. TypeOK /\ torrents \in [Ids -> Handles \cup {None}] /\ rows \in [Ids -> Row \cup {None}]
  BY DEF DbInv, TypeOK
<1>s. {"row", "flush", "start", "unlink", "failed", "snapshot"} \subseteq Stages
  BY DEF Stages
<1>1. ASSUME NEW c \in Calls, Fails(c) \/ AlreadyManaged(c) \/ Start(c) \/ Unlink(c) \/ FlushFails(c) PROVE Routine
  <2>1. /\ \E table : ReturnWith(c, table)
        /\ UNCHANGED <<backend, phase, counter, rows>> /\ faults \subseteq faults'
        /\ call[c].stage \in {"id", "failed", "insert", "start", "unlink", "flush"}
    BY <1>1 DEF Fails, AlreadyManaged, Start, Unlink, FlushFails, Return, store, history
  <2>2. \A i \in Ids : torrents'[i] = torrents[i] \/ torrents'[i] = None
    BY <1>1, <1>a DEF Fails, AlreadyManaged, Start, Unlink, FlushFails, DbRemove
  <2>3. /\ call'[c].op = "" /\ call'[c].id = None /\ call'[c].stage = "idle"
        /\ \A d \in Calls \ {c} : call'[d] = call[d]
    BY <2>1, <1>a, CallAfter
  <2> QED
    BY <2>1, <2>2, <2>3 DEF Routine
<1>2. ASSUME NEW c \in Calls, Snapshot(c) PROVE Routine
  <2>1. /\ UNCHANGED <<backend, phase, counter, rows, torrents>> /\ call[c].stage = "snapshot"
        /\ call' = [call EXCEPT ![c] = [call[c] EXCEPT !.stage = "row", !.row = RowOf(call[c].h)]]
        /\ faults \subseteq faults'
    BY <1>2 DEF Snapshot, WriteTorrentFile, database
  <2>2. call[c].op # "delete"
    BY <2>1 DEF DbInv, Callers, Proper
  <2>3. /\ call'[c].op = call[c].op /\ call'[c].id = call[c].id /\ call'[c].stage = "row"
        /\ \A d \in Calls \ {c} : call'[d] = call[d]
    BY <2>1, <1>a DEF TypeOK, CallState
  <2> QED
    BY <2>1, <2>2, <2>3 DEF Routine
<1>3. ASSUME NEW c \in Calls, PutRow(c) \/ Execute(c) PROVE Routine
  <2>1. /\ UNCHANGED <<backend, phase, counter, torrents, faults>> /\ call[c].stage = "row" /\ call[c].op # "delete"
        /\ rows' \in {rows, [rows EXCEPT ![call[c].id] = call[c].row]}
        /\ call[c].op = "add" => rows[call[c].id] # None \/ rows' = [rows EXCEPT ![call[c].id] = call[c].row]
    BY <1>3 DEF PutRow, Execute, history
  <2>2. call[c].row # None /\ call[c].id \in Ids
    BY <2>1, NoneAssumption DEF DbInv, Callers, Proper
  <2>3. /\ \A i \in Ids : rows'[i] = rows[i] \/ i = call[c].id
        /\ \A i \in Ids : rows[i] # None => rows'[i] # None
        /\ call[c].op = "add" => rows'[call[c].id] # None
    BY <2>1, <2>2, <1>a
  <2>4. Return(c) \/ call' = [call EXCEPT ![c].stage = "flush"] \/ call' = [call EXCEPT ![c].stage = "start"]
    BY <1>3 DEF PutRow, Execute, Goto
  <2>5. /\ \/ call'[c].op = "" /\ call'[c].id = None
           \/ call'[c].op = call[c].op /\ call'[c].id = call[c].id /\ call'[c].stage \in {"flush", "start"}
        /\ \A d \in Calls \ {c} : call'[d] = call[d]
    BY <2>4, <1>a, <1>s, CallAfter DEF Return
  <2> QED
    BY <2>1, <2>3, <2>5 DEF Routine
<1>4. ASSUME NEW c \in Calls, Flush(c) PROVE Routine
  <2>1. UNCHANGED <<backend, phase, counter, torrents, rows, faults>> /\ call[c].stage = "flush"
    BY <1>4 DEF Flush
  <2>2. Return(c) \/ call' = [call EXCEPT ![c].stage = "unlink"] \/ call' = [call EXCEPT ![c].stage = "start"]
    BY <1>4 DEF Flush, Goto
  <2>3. /\ \/ call'[c].op = "" /\ call'[c].id = None
           \/ call'[c].op = call[c].op /\ call'[c].id = call[c].id /\ call'[c].stage \in {"unlink", "start"}
        /\ \A d \in Calls \ {c} : call'[d] = call[d]
    BY <2>2, <1>a, <1>s, CallAfter DEF Return
  <2> QED
    BY <2>1, <2>3 DEF Routine
<1>5. ASSUME NEW c \in Calls, DeleteRow(c) PROVE Routine
  <2>1. /\ UNCHANGED <<backend, phase, counter, torrents, faults>> /\ call[c].stage = "row" /\ call[c].op = "delete"
        /\ rows' = [rows EXCEPT ![call[c].id] = None]
    BY <1>5 DEF DeleteRow
  <2>2. \A i \in Ids : rows'[i] = rows[i] \/ i = call[c].id
    BY <2>1, <1>a
  <2>3. Return(c) \/ call' = [call EXCEPT ![c].stage = "flush"]
    BY <1>5 DEF DeleteRow, Goto
  <2>4. /\ \/ call'[c].op = "" /\ call'[c].id = None
           \/ call'[c].op = call[c].op /\ call'[c].id = call[c].id
        /\ call'[c].stage \in {"flush", "idle"}
        /\ \A d \in Calls \ {c} : call'[d] = call[d]
    BY <2>3, <1>a, <1>s, CallAfter DEF Return
  <2> QED
    BY <2>1, <2>2, <2>4 DEF Routine
<1>6. ASSUME NEW c \in Calls, Apply(c) \/ Refuse(c) PROVE Routine
  <2>1. /\ UNCHANGED <<backend, phase, counter, torrents, rows, faults>> /\ call[c].stage = "apply"
        /\ call' = [call EXCEPT ![c].stage = "failed"] \/ call' = [call EXCEPT ![c].stage = "snapshot"]
    BY <1>6 DEF Apply, Refuse, store, history
  <2>2. /\ call'[c].op = call[c].op /\ call'[c].id = call[c].id /\ call'[c].stage \in {"failed", "snapshot"}
        /\ \A d \in Calls \ {c} : call'[d] = call[d]
    BY <2>1, <1>a, <1>s, CallAfter
  <2> QED
    BY <2>1, <2>2 DEF Routine
<1>7. ASSUME \/ \E k \in Handles : TorrentFails(k)
             \/ \E i \in Ids : RestoreFails(i)
             \/ \E h \in Hashes : TorrentFileWritten(h)
             \/ Written \/ Stop \/ Restored
      PROVE  Routine
  <2>1. UNCHANGED <<backend, counter, torrents, rows, call>> /\ faults \subseteq faults' /\ (phase' = "down" => phase = "down")
    BY <1>7 DEF TorrentFails, RestoreFails, TorrentFileWritten, Written, Stop, Restored, database, store, history
  <2> QED
    BY <2>1 DEF Routine
<1> QED
  BY <1>1, <1>2, <1>3, <1>4, <1>5, <1>6, <1>7

\* Every set of stored rows has a largest id.
LEMMA LargestStored ==
  ASSUME MaxStored = {} PROVE \A i \in Ids : rows[i] = None
<1> SUFFICES ASSUME NEW e \in Ids, rows[e] # None PROVE FALSE
  OBVIOUS
<1> DEFINE T == {n \in Nat : n <= MaxId /\ rows[MaxId - n] # None}
<1>1. MaxId - e \in T
  BY ConstantsAssumption DEF Ids
<1>2. IsWellFoundedOn(OpToRel(<, Nat), Nat)
  BY NatLessThanWellFounded
<1>3. PICK x \in T : \A y \in T : ~(<<y, x>> \in OpToRel(<, Nat))
  BY <1>1, <1>2, WFMin
<1>4. \A y \in T : x <= y
  <2> SUFFICES ASSUME NEW y \in T PROVE x <= y
    OBVIOUS
  <2>1. <<y, x>> \notin {ss \in Nat \X Nat : ss[1] < ss[2]}
    BY <1>3, Zenon DEF OpToRel
  <2>2. x \in Nat /\ y \in Nat
    OBVIOUS
  <2> HIDE DEF T
  <2> QED
    BY <2>1, <2>2
<1>5. MaxId - x \in MaxStored
  <2>1. MaxId - x \in Ids /\ rows[MaxId - x] # None
    BY ConstantsAssumption DEF Ids
  <2>2. ASSUME NEW j \in Ids, rows[j] # None PROVE j <= MaxId - x
    <3>1. MaxId - j \in T /\ j \in Nat
      BY <2>2, ConstantsAssumption DEF Ids
    <3>2. x <= MaxId - j
      BY <3>1, <1>4
    <3> QED
      BY <3>1, <3>2, ConstantsAssumption
  <2> QED
    BY <2>1, <2>2 DEF MaxStored
<1> QED
  BY <1>5

\* What an add looks like when it begins.
LEMMA AddBegun ==
  ASSUME TypeOK, NEW c \in Calls, NEW h \in Hashes, NEW s \in Settings, AddTorrent(c, h, s)
  PROVE  /\ call'[c].op = "add" /\ call'[c].id = None /\ call'[c].stage = "id" /\ call'[c].hash = h
         /\ call'[c].row = s /\ phase \in {"up", "stopping"}
         /\ UNCHANGED <<backend, phase, counter, torrents, index, handle, rows, file, torrentFiles, toRestore, wish>>
         /\ \A d \in Calls \ {c} : call'[d] = call[d]
         /\ call[c].stage = "idle" /\ faults \subseteq faults'
         /\ (\E d \in Calls \ {c} : call[d].hash = h) => "sameTorrent" \in faults'
<1> DEFINE fields == [Idle EXCEPT !.stage = "id", !.row = s]
           r == [fields EXCEPT !.op = "add", !.hash = h]
<1>1. Begin(c, "add", h, fields)
  BY DEF AddTorrent
<1>2. /\ call'[c] = r /\ \A d \in Calls \ {c} : call'[d] = call[d]
      /\ call[c].stage = "idle" /\ faults \subseteq faults'
      /\ (\E d \in Calls \ {c} : call[d].hash = h) => "sameTorrent" \in faults'
  <2> HIDE DEF fields
  <2>1. call' = [call EXCEPT ![c] = r] /\ call[c].stage = "idle"
    BY <1>1 DEF Begin, Busy
  <2> HIDE DEF r
  <2>2. call'[c] = r /\ \A d \in Calls \ {c} : call'[d] = call[d]
    BY <2>1 DEF TypeOK
  <2> QED
    BY <1>1, <2>1, <2>2 DEF Begin
<1>3. r.op = "add" /\ r.id = None /\ r.stage = "id" /\ r.hash = h /\ r.row = s
  BY DEF Idle
<1>4. phase \in {"up", "stopping"} /\ UNCHANGED <<backend, phase, counter, torrents, index, handle, rows, file, torrentFiles, toRestore, wish>>
  BY DEF AddTorrent, database, store
<1> HIDE DEF r
<1> QED
  BY <1>2, <1>3, <1>4

\* What the restore of a row looks like when it begins.
LEMMA RestoreBegun ==
  ASSUME TypeOK, NEW c \in Calls, NEW i \in Ids, Restore(c, i)
  PROVE  /\ call'[c].op = "restore" /\ call'[c].id = i /\ call'[c].stage = "insert" /\ call'[c].hash = rows[i].hash
         /\ call'[c].row = rows[i].set
         /\ phase = "restoring" /\ i \in toRestore /\ toRestore' = toRestore \ {i}
         /\ UNCHANGED <<backend, phase, counter, torrents, index, handle, rows, file, torrentFiles, wish>>
         /\ \A d \in Calls \ {c} : call'[d] = call[d]
         /\ call[c].stage = "idle" /\ faults \subseteq faults'
         /\ (\E d \in Calls \ {c} : call[d].hash = rows[i].hash) => "sameTorrent" \in faults'
<1> DEFINE fields == [Idle EXCEPT !.stage = "insert", !.id = i, !.row = rows[i].set]
           r == [fields EXCEPT !.op = "restore", !.hash = rows[i].hash]
<1>1. Begin(c, "restore", rows[i].hash, fields)
  BY DEF Restore
<1>2. /\ call'[c] = r /\ \A d \in Calls \ {c} : call'[d] = call[d]
      /\ call[c].stage = "idle" /\ faults \subseteq faults'
      /\ (\E d \in Calls \ {c} : call[d].hash = rows[i].hash) => "sameTorrent" \in faults'
  <2> HIDE DEF fields
  <2>1. call' = [call EXCEPT ![c] = r] /\ call[c].stage = "idle"
    BY <1>1 DEF Begin, Busy
  <2> HIDE DEF r
  <2>2. call'[c] = r /\ \A d \in Calls \ {c} : call'[d] = call[d]
    BY <2>1 DEF TypeOK
  <2> QED
    BY <1>1, <2>1, <2>2 DEF Begin
<1>3. r.op = "restore" /\ r.id = i /\ r.stage = "insert" /\ r.hash = rows[i].hash /\ r.row = rows[i].set
  BY DEF Idle
<1>4. /\ phase = "restoring" /\ i \in toRestore /\ toRestore' = toRestore \ {i}
      /\ UNCHANGED <<backend, phase, counter, torrents, index, handle, rows, file, torrentFiles, wish>>
  BY DEF Restore, database, store
<1> HIDE DEF r
<1> QED
  BY <1>2, <1>3, <1>4

\* What a change of a torrent looks like when it begins.
LEMMA ChangeBegun ==
  ASSUME TypeOK, NEW c \in Calls, NEW i \in Ids, NEW op \in {"pause", "unpause", "select"}, Change(c, op, i)
  PROVE  /\ call'[c].op = op /\ call'[c].id = i /\ call'[c].stage = "apply"
         /\ call'[c].hash = handle[torrents[i]].hash /\ torrents[i] # None /\ call'[c].h = torrents[i]
         /\ phase \in {"up", "stopping"}
         /\ UNCHANGED <<backend, phase, counter, torrents, index, handle, rows, file, torrentFiles, toRestore, wish>>
         /\ \A d \in Calls \ {c} : call'[d] = call[d]
         /\ call[c].stage = "idle" /\ faults \subseteq faults'
         /\ (\E d \in Calls \ {c} : call[d].hash = handle[torrents[i]].hash) => "sameTorrent" \in faults'
<1> DEFINE fields == [Idle EXCEPT !.stage = "apply", !.id = i, !.h = torrents[i]]
           r == [fields EXCEPT !.op = op, !.hash = handle[torrents[i]].hash]
<1>1. Begin(c, op, handle[torrents[i]].hash, fields)
  BY DEF Change
<1>2. /\ call'[c] = r /\ \A d \in Calls \ {c} : call'[d] = call[d]
      /\ call[c].stage = "idle" /\ faults \subseteq faults'
      /\ (\E d \in Calls \ {c} : call[d].hash = handle[torrents[i]].hash) => "sameTorrent" \in faults'
  <2> HIDE DEF fields
  <2>1. call' = [call EXCEPT ![c] = r] /\ call[c].stage = "idle"
    BY <1>1 DEF Begin, Busy
  <2> HIDE DEF r
  <2>2. call'[c] = r /\ \A d \in Calls \ {c} : call'[d] = call[d]
    BY <2>1 DEF TypeOK
  <2> QED
    BY <1>1, <2>1, <2>2 DEF Begin
<1>3. r.op = op /\ r.id = i /\ r.stage = "apply" /\ r.hash = handle[torrents[i]].hash /\ r.h = torrents[i]
  BY DEF Idle
<1>4. /\ phase \in {"up", "stopping"} /\ torrents[i] # None
      /\ UNCHANGED <<backend, phase, counter, torrents, index, handle, rows, file, torrentFiles, toRestore, wish>>
  BY DEF Change, database, store
<1> HIDE DEF r
<1> QED
  BY <1>2, <1>3, <1>4

\* What a delete looks like when it begins.
LEMMA DeleteBegun ==
  ASSUME TypeOK, NEW c \in Calls, NEW i \in Ids, Delete(c, i)
  PROVE  /\ call'[c].op = "delete" /\ call'[c].id = i
         /\ call'[c].stage = IF backend = "none" THEN "unlink" ELSE "row"
         /\ call'[c].hash = handle[torrents[i]].hash /\ torrents[i] # None
         /\ phase \in {"up", "stopping"} /\ DbRemove(i)
         /\ UNCHANGED <<backend, phase, counter, rows, file, torrentFiles, toRestore>>
         /\ \A d \in Calls \ {c} : call'[d] = call[d]
         /\ call[c].stage = "idle" /\ faults \subseteq faults'
         /\ (\E d \in Calls \ {c} : call[d].hash = handle[torrents[i]].hash) => "sameTorrent" \in faults'
<1> DEFINE fields == [Idle EXCEPT !.stage = IF backend = "none" THEN "unlink" ELSE "row", !.id = i, !.h = torrents[i]]
<1>1. /\ Begin(c, "delete", handle[torrents[i]].hash, fields) /\ torrents[i] # None
      /\ phase \in {"up", "stopping"} /\ DbRemove(i)
      /\ UNCHANGED <<backend, phase, counter, rows, file, torrentFiles, toRestore>>
  BY DEF Delete, store
<1> DEFINE r == [fields EXCEPT !.op = "delete", !.hash = handle[torrents[i]].hash]
<1>2. /\ call'[c] = r /\ \A d \in Calls \ {c} : call'[d] = call[d]
      /\ call[c].stage = "idle" /\ faults \subseteq faults'
      /\ (\E d \in Calls \ {c} : call[d].hash = handle[torrents[i]].hash) => "sameTorrent" \in faults'
  <2> HIDE DEF fields
  <2>1. call' = [call EXCEPT ![c] = r] /\ call[c].stage = "idle"
    BY <1>1 DEF Begin, Busy
  <2> HIDE DEF r
  <2>2. call'[c] = r /\ \A d \in Calls \ {c} : call'[d] = call[d]
    BY <2>1 DEF TypeOK
  <2> QED
    BY <1>1, <2>1, <2>2 DEF Begin
<1>3. r.op = "delete" /\ r.id = i /\ r.stage = (IF backend = "none" THEN "unlink" ELSE "row") /\ r.hash = handle[torrents[i]].hash
  BY DEF Idle
<1> HIDE DEF r
<1> QED
  BY <1>1, <1>2, <1>3

\* What NextId hands out.
LEMMA IdHandedOut ==
  ASSUME DbInv, NEW c \in Calls, NextId(c)
  PROVE  /\ call'[c].op = "add" /\ call[c].op = "add" /\ call'[c].stage = "insert" /\ call'[c].hash = call[c].hash /\ call'[c].id \in Ids
         /\ call[c].stage = "id" /\ call'[c].row = call[c].row
         /\ \A d \in Calls \ {c} : call'[d] = call[d]
         /\ backend = "json" =>
              /\ rows[call'[c].id] = None
              /\ (\E d \in Calls \ {c} : call[d].op = "add" /\ call[d].id = call'[c].id) => "sameId" \in faults'
         /\ backend # "json" => call'[c].id = counter /\ counter' = counter + 1
         /\ faults \subseteq faults'
         /\ UNCHANGED <<backend, phase, torrents, index, handle, rows, file, torrentFiles, toRestore, wish>>
<1>a. call \in [Calls -> CallState] /\ call[c] \in CallState /\ call[c].stage = "id" /\ call[c].op = "add"
  BY DEF DbInv, TypeOK, Callers, Proper, NextId
<1>1. UNCHANGED <<backend, phase, torrents, index, handle, rows, file, torrentFiles, toRestore, wish>> /\ faults \subseteq faults'
  BY DEF NextId, store
<1>2. ASSUME NEW i \in Ids, call' = [call EXCEPT ![c].stage = "insert", ![c].id = i]
      PROVE  /\ call'[c].op = "add" /\ call'[c].stage = "insert" /\ call'[c].hash = call[c].hash /\ call'[c].id = i
             /\ call'[c].row = call[c].row /\ \A d \in Calls \ {c} : call'[d] = call[d]
  <2>1. call'[c] = [call[c] EXCEPT !.stage = "insert", !.id = i] /\ \A d \in Calls \ {c} : call'[d] = call[d]
    BY <1>2, <1>a
  <2>2. call[c] = [stage |-> call[c].stage, op |-> call[c].op, hash |-> call[c].hash, id |-> call[c].id, h |-> call[c].h, row |-> call[c].row]
    BY <1>a DEF CallState
  <2> QED
    BY <1>a, <2>1, <2>2
<1>3. CASE backend = "json"
  <2>1. PICK i \in Ids : /\ i \in IF MaxStored = {} THEN {0} ELSE {m + 1 : m \in MaxStored}
                         /\ call' = [call EXCEPT ![c].stage = "insert", ![c].id = i]
                         /\ faults' = faults \cup
                              (IF \E d \in Calls \ {c} : call[d].op = "add" /\ call[d].id = i
                               THEN {"sameId"} ELSE {})
    BY <1>3 DEF NextId
  <2>2. rows[i] = None
    <3>1. CASE MaxStored = {}
      BY <3>1, LargestStored
    <3>2. CASE MaxStored # {}
      <4>1. PICK m \in MaxStored : i = m + 1
        BY <2>1, <3>2
      <4> QED
        BY <4>1 DEF MaxStored, Ids
    <3> QED
      BY <3>1, <3>2
  <2> QED
    BY <1>a, <1>1, <1>2, <1>3, <2>1, <2>2
<1>4. CASE backend # "json"
  <2>1. counter \in Ids /\ counter' = counter + 1 /\ call' = [call EXCEPT ![c].stage = "insert", ![c].id = counter]
    BY <1>4 DEF NextId
  <2> QED
    BY <1>a, <1>1, <1>2, <1>4, <2>1
<1> QED
  BY <1>3, <1>4

\* What an add looks like when its torrent is in the database.
LEMMA Inserted ==
  ASSUME DbInv, NEW c \in Calls, Insert(c)
  PROVE  /\ call'[c].op = call[c].op /\ call'[c].id = call[c].id /\ call'[c].hash = call[c].hash /\ call'[c].row = call[c].row
         /\ call'[c].stage = IF backend = "none" THEN "start" ELSE "snapshot"
         /\ call[c].stage = "insert" /\ call[c].id \in Ids /\ call[c].op \in {"add", "restore"}
         /\ call[c].hash \in Hashes /\ call[c].row \in Settings
         /\ call'[c].h \in Handles /\ handle[call'[c].h] = None
         /\ handle'[call'[c].h].set = call[c].row /\ handle'[call'[c].h].run # "gone"
         /\ \A k \in Handles : k # call'[c].h => handle'[k] = handle[k]
         /\ \A d \in Calls \ {c} : call'[d] = call[d]
         /\ torrents[call[c].id] = None /\ torrents'[call[c].id] = call'[c].h
         /\ \A i \in Ids \ {call[c].id} : torrents'[i] = torrents[i]
         /\ index[call[c].hash] = None /\ index'[call[c].hash] = call[c].id
         /\ \A h \in Hashes \ {call[c].hash} : index'[h] = index[h]
         /\ UNCHANGED <<backend, phase, counter, rows, file, torrentFiles, toRestore, faults>>
         /\ wish' = [wish EXCEPT ![call[c].hash] = wish[call[c].hash] \cup {call[c].row}]
<1>a. call[c] \in CallState /\ Proper(call[c])
  BY DEF DbInv, TypeOK, Callers
<1>b. /\ torrents \in [Ids -> Handles \cup {None}] /\ index \in [Hashes -> Ids \cup {None}]
      /\ handle \in [Handles -> Torrent \cup {None}] /\ call \in [Calls -> CallState]
  BY DEF DbInv, TypeOK
<1> DEFINE k == CHOOSE x \in FreeHandles : TRUE
           t == [hash |-> call[c].hash, id |-> call[c].id, set |-> call[c].row,
                 run |-> IF call[c].row.paused THEN "paused" ELSE "live"]
           r == [call[c] EXCEPT !.h = k, !.stage = IF backend = "none" THEN "start" ELSE "snapshot"]
<1>1. k \in Handles /\ handle[k] = None
  BY DEF Insert, FreeHandles
<1>2. /\ call[c].stage = "insert" /\ torrents[call[c].id] = None /\ index[call[c].hash] = None
      /\ index' = [index EXCEPT ![call[c].hash] = call[c].id] /\ torrents' = [torrents EXCEPT ![call[c].id] = k]
      /\ handle' = [handle EXCEPT ![k] = t] /\ call' = [call EXCEPT ![c] = r]
      /\ UNCHANGED <<backend, phase, counter, rows, file, torrentFiles, toRestore, faults>>
      /\ wish' = [wish EXCEPT ![call[c].hash] = wish[call[c].hash] \cup {call[c].row}]
  BY DEF Insert, DbAdd, store, MayBecome
<1>3. call[c].hash \in Hashes /\ call[c].id \in Ids /\ call[c].row \in Settings /\ call[c].op \in {"add", "restore"}
  BY <1>2, <1>a DEF Proper
<1>4. t.set = call[c].row /\ t.run # "gone"
  OBVIOUS
<1>5. /\ r.h = k /\ r.hash = call[c].hash /\ r.id = call[c].id /\ r.op = call[c].op /\ r.row = call[c].row
      /\ r.stage = IF backend = "none" THEN "start" ELSE "snapshot"
  <2> HIDE DEF k
  <2> QED
    BY <1>a DEF CallState
<1> HIDE DEF k, t, r
<1>6. call'[c] = r /\ \A d \in Calls \ {c} : call'[d] = call[d]
  BY <1>2, <1>b
<1>7. handle'[k] = t /\ \A l \in Handles : l # k => handle'[l] = handle[l]
  BY <1>1, <1>2, <1>b
<1>8. /\ torrents'[call[c].id] = k /\ \A i \in Ids \ {call[c].id} : torrents'[i] = torrents[i]
      /\ index'[call[c].hash] = call[c].id /\ \A h \in Hashes \ {call[c].hash} : index'[h] = index[h]
  BY <1>2, <1>3, <1>b
<1> QED
  BY <1>1, <1>2, <1>3, <1>4, <1>5, <1>6, <1>7, <1>8

\* Every step keeps the ids right.
LEMMA IdStep ==
  ASSUME DbInv, IdInv, Next, DbInv'
  PROVE  IdInv'
<1>0. None \notin Ids /\ TypeOK /\ Ids \subseteq Int /\ counter \in Int
  BY ConstantsAssumption DEF Ids, DbInv, TypeOK
<1>1. ASSUME NEW c \in Calls, NEW h \in Hashes, NEW s \in Settings, AddTorrent(c, h, s) PROVE IdInv'
  <2>1. Routine
    BY <1>0, <1>1, AddBegun DEF Routine
  <2> QED
    BY <2>1, IdRoutine
<1>2. ASSUME NEW c \in Calls, NEW i \in Ids, NEW op \in {"pause", "unpause", "select"}, Change(c, op, i) PROVE IdInv'
  <2>1. Routine
    BY <1>0, <1>2, ChangeBegun, ZenonT(40) DEF Routine
  <2> QED
    BY <2>1, IdRoutine
<1>3. ASSUME NEW c \in Calls, NEW i \in Ids, Restore(c, i) PROVE IdInv'
  <2>1. /\ call'[c].op = "restore" /\ call'[c].id = i /\ call'[c].stage = "insert" /\ rows[i] # None
        /\ UNCHANGED <<backend, phase, counter, torrents, rows>> /\ faults \subseteq faults' /\ phase = "restoring"
        /\ \A d \in Calls \ {c} : call'[d] = call[d]
    BY <1>0, <1>3, RestoreBegun DEF DbInv, Restoring
  <2>2. \A d \in Calls : call[d].op # "add" /\ call[d].op # "delete" /\ call'[d].op # "add" /\ call'[d].op # "delete"
    BY <2>1 DEF DbInv, Restoring
  <2>3. \A j \in Ids : ~Storing(j)
    BY <2>2 DEF Storing
  <2>4. OneAdd'
    BY <2>2 DEF OneAdd
  <2>5. ASSUME "sameId" \notin faults', backend' = "json" PROVE StoreKnows'
    BY <2>1, <2>2, <2>3, <2>5 DEF IdInv, StoreKnows
  <2>6. backend' # "json" => CounterAhead'
    BY <2>1 DEF IdInv, CounterAhead
  <2> QED
    BY <2>1, <2>4, <2>5, <2>6 DEF IdInv
<1>4. ASSUME NEW c \in Calls, NEW i \in Ids, Delete(c, i) PROVE IdInv'
  <2>1. /\ call'[c].op = "delete" /\ call'[c].id = i /\ call[c].stage = "idle" /\ torrents[i] # None
        /\ UNCHANGED <<backend, phase, counter, rows>> /\ faults \subseteq faults' /\ phase \in {"up", "stopping"}
        /\ \A d \in Calls \ {c} : call'[d] = call[d]
    BY <1>0, <1>4, DeleteBegun
  <2>2. torrents'[i] = None /\ \A j \in Ids \ {i} : torrents'[j] = torrents[j]
    BY <1>0, <1>4, DeleteBegun DEF TypeOK, DbRemove
  <2>3. ASSUME "sameId" \notin faults' PROVE OneAdd /\ OneAdd'
    <3>1. OneAdd
      BY <2>1, <2>3 DEF IdInv
    <3>2. \A d \in Calls : call'[d].op = "add" => call'[d] = call[d]
      BY <2>1
    <3>3. \A j \in Ids : torrents[j] = None => torrents'[j] = None
      BY <2>2
    <3>4. \A d \in Calls : call[d].stage = "insert" => call[d].id \in Ids
      BY DEF DbInv, Callers, Proper
    <3> QED
      BY <3>1, <3>2, <3>3, <3>4 DEF OneAdd
  <2>4. ASSUME "sameId" \notin faults', backend' = "json" PROVE StoreKnows'
    <3>1. StoreKnows /\ OneAdd
      BY <2>1, <2>4 DEF IdInv
    <3>2. call[c].op = ""
      <4>1. Idle.op = ""
        BY DEF Idle
      <4> QED
        BY <2>1, <4>1 DEF DbInv, Callers, Proper
    <3>3. \A j \in Ids : Storing(j) => Storing(j)'
      BY <2>1, <3>2 DEF Storing
    <3>4. ASSUME NEW j \in Ids, torrents'[j] # None PROVE rows'[j] # None \/ Storing(j)'
      BY <2>1, <2>2, <3>1, <3>3, <3>4 DEF StoreKnows
    <3>5. rows'[i] # None \/ Storing(i)'
      BY <2>1, <3>1, <3>3 DEF StoreKnows
    <3>6. ASSUME NEW d \in Calls, call'[d].op = "delete", call'[d].stage = "row"
          PROVE  /\ torrents'[call'[d].id] = None
                 /\ (rows[call[d].id] # None \/ Storing(call[d].id))'
                 /\ \A e \in Calls \ {d} : call'[e].id = call'[d].id =>
                      /\ ~(call'[e].op = "delete" /\ call'[e].stage = "row")
                      /\ ~(call'[e].op = "add" /\ call'[e].stage = "insert")
      <4>1. CASE d = c
        <5>1. \A e \in Calls \ {c} : call[e].id = i =>
                /\ ~(call[e].op = "delete" /\ call[e].stage = "row")
                /\ ~(call[e].op = "add" /\ call[e].stage = "insert")
          BY <2>1, <3>1 DEF StoreKnows, OneAdd
        <5>2. (rows[call[d].id] # None \/ Storing(call[d].id))'
          BY <4>1, <2>1, <3>5 DEF Storing
        <5> QED
          BY <4>1, <2>1, <2>2, <5>1, <5>2
      <4>2. CASE d # c
        <5>1. /\ call'[d] = call[d] /\ call[d].id \in Ids /\ call[d].id # i
              /\ torrents[call[d].id] = None
              /\ rows[call[d].id] # None \/ Storing(call[d].id)
              /\ \A e \in Calls \ {d} : call[e].id = call[d].id =>
                   /\ ~(call[e].op = "delete" /\ call[e].stage = "row")
                   /\ ~(call[e].op = "add" /\ call[e].stage = "insert")
          BY <4>2, <2>1, <3>1, <3>6 DEF StoreKnows, DbInv, Callers, Proper
        <5>2. (rows[call[d].id] # None \/ Storing(call[d].id))'
          <6>1. PICK j \in Ids : j = call[d].id
            BY <5>1
          <6>2. rows'[j] # None \/ Storing(j)'
            BY <2>1, <5>1, <3>3, <6>1
          <6> QED
            BY <5>1, <6>1, <6>2 DEF Storing
        <5> QED
          BY <4>2, <2>1, <2>2, <5>1, <5>2
      <4> QED
        BY <4>1, <4>2
    <3> QED
      BY <3>4, <3>6 DEF StoreKnows
  <2>5. ASSUME backend' # "json" PROVE CounterAhead'
    BY <2>1, <2>2, <2>5 DEF IdInv, CounterAhead
  <2> QED
    BY <2>1, <2>3, <2>4, <2>5 DEF IdInv
<1>5. ASSUME NEW c \in Calls, NextId(c) PROVE IdInv'
  <2> DEFINE i == call'[c].id
  <2>1. /\ call'[c].op = "add" /\ call[c].op = "add" /\ call'[c].stage = "insert" /\ i \in Ids /\ call[c].stage = "id"
        /\ \A d \in Calls \ {c} : call'[d] = call[d]
        /\ backend = "json" =>
              /\ rows[i] = None
              /\ (\E d \in Calls \ {c} : call[d].op = "add" /\ call[d].id = i) => "sameId" \in faults'
        /\ backend # "json" => i = counter /\ counter' = counter + 1
        /\ UNCHANGED <<backend, phase, torrents, rows>> /\ faults \subseteq faults'
    BY <1>5, IdHandedOut
  <2> HIDE DEF i
  <2>i. i = call'[c].id
    BY DEF i
  <2>2. ASSUME "sameId" \notin faults'
        PROVE  torrents[i] = None /\ \A d \in Calls \ {c} : call[d].op = "add" => call[d].id # i
    <3>1. CASE backend = "json"
      BY <2>1, <2>2, <3>1 DEF IdInv, StoreKnows, Storing
    <3>2. CASE backend # "json"
      BY <1>0, <2>1, <2>2, <3>2 DEF IdInv, CounterAhead
    <3> QED
      BY <3>1, <3>2
  <2>3. ASSUME "sameId" \notin faults' PROVE OneAdd'
    BY <2>1, <2>i, <2>2, <2>3 DEF IdInv, OneAdd
  <2>4. ASSUME "sameId" \notin faults', backend' = "json" PROVE StoreKnows'
    <3>1. StoreKnows
      BY <2>1, <2>4 DEF IdInv
    <3>2. \A j \in Ids : Storing(j) => Storing(j)' /\ j # i
      <4> SUFFICES ASSUME NEW j \in Ids, NEW d \in Calls,
                          call[d].op = "add", call[d].id = j, call[d].stage \in {"snapshot", "row"}
                   PROVE  Storing(j)' /\ j # i
        BY DEF Storing
      <4>1. d # c
        BY <2>1
      <4> QED
        BY <4>1, <2>1, <2>2, <2>4 DEF Storing
    <3>3. ASSUME NEW j \in Ids, torrents'[j] # None PROVE rows'[j] # None \/ Storing(j)'
      BY <2>1, <3>1, <3>2, <3>3 DEF StoreKnows
    <3>4. ASSUME NEW d \in Calls, call'[d].op = "delete", call'[d].stage = "row"
          PROVE  /\ torrents'[call'[d].id] = None
                 /\ (rows[call[d].id] # None \/ Storing(call[d].id))'
                 /\ \A e \in Calls \ {d} : call'[e].id = call'[d].id =>
                      /\ ~(call'[e].op = "delete" /\ call'[e].stage = "row")
                      /\ ~(call'[e].op = "add" /\ call'[e].stage = "insert")
      <4>1. d # c /\ call'[d] = call[d]
        BY <2>1, <3>4
      <4>2. /\ call[d].id \in Ids /\ torrents[call[d].id] = None
            /\ rows[call[d].id] # None \/ Storing(call[d].id)
            /\ \A e \in Calls \ {d} : call[e].id = call[d].id =>
                   /\ ~(call[e].op = "delete" /\ call[e].stage = "row")
                   /\ ~(call[e].op = "add" /\ call[e].stage = "insert")
        BY <4>1, <3>1, <3>4 DEF StoreKnows, DbInv, Callers, Proper
      <4>3. (rows[call[d].id] # None \/ Storing(call[d].id))' /\ call[d].id # i
        <5>1. PICK j \in Ids : j = call[d].id
          BY <4>2
        <5>2. (rows'[j] # None \/ Storing(j)') /\ j # i
          BY <2>1, <2>4, <4>2, <3>2, <5>1
        <5> QED
          BY <4>1, <5>1, <5>2 DEF Storing
      <4> QED
        BY <2>1, <2>i, <4>1, <4>2, <4>3
    <3> QED
      BY <3>3, <3>4 DEF StoreKnows
  <2>5. ASSUME backend' # "json" PROVE CounterAhead'
    <3>1. CounterAhead /\ counter' = counter + 1 /\ i = counter
      BY <2>1, <2>5 DEF IdInv
    <3>2. \A j \in Ids : j < counter => j < counter'
      BY <1>0, <3>1
    <3>3. i < counter'
      BY <1>0, <3>1
    <3>4. \A d \in Calls : call'[d].id \in Ids => call'[d].id < counter'
      BY <2>1, <2>i, <3>1, <3>2, <3>3 DEF CounterAhead
    <3>5. \A j \in Ids : torrents'[j] # None \/ rows'[j] # None => j < counter'
      BY <2>1, <3>1, <3>2 DEF CounterAhead
    <3> QED
      BY <3>4, <3>5 DEF CounterAhead
  <2>6. \A d \in Calls : call'[d].op = "restore" => rows'[call'[d].id] # None
    BY <2>1 DEF IdInv
  <2>7. phase' = "down" => \A j \in Ids : torrents'[j] = None
    BY <2>1 DEF IdInv
  <2> QED
    BY <2>3, <2>4, <2>5, <2>6, <2>7 DEF IdInv
<1>6. ASSUME NEW c \in Calls, Insert(c) PROVE IdInv'
  <2>i. PICK i \in Ids : i = call[c].id
    BY <1>6, Inserted
  <2>1. /\ call'[c].op = call[c].op /\ call'[c].id = i /\ call'[c].stage = IF backend = "none" THEN "start" ELSE "snapshot"
        /\ call[c].stage = "insert" /\ i \in Ids /\ call[c].op \in {"add", "restore"}
        /\ \A d \in Calls \ {c} : call'[d] = call[d]
        /\ \A j \in Ids \ {i} : torrents'[j] = torrents[j]
        /\ UNCHANGED <<backend, phase, counter, rows, faults>>
    BY <1>6, <2>i, Inserted
  <2>2. phase # "down"
    BY <2>1 DEF DbInv, Restoring
  <2>3. ASSUME "sameId" \notin faults' PROVE OneAdd'
    <3>1. OneAdd
      BY <2>1, <2>3 DEF IdInv
    <3>2. \A d \in Calls : call'[d].op = call[d].op /\ call'[d].id = call[d].id
      BY <2>1, <2>i
    <3>3. ASSUME NEW d \in Calls, call'[d].op = "add", call'[d].stage = "insert" PROVE torrents'[call'[d].id] = None
      <4>1. d # c /\ call'[d] = call[d]
        BY <2>1, <3>3
      <4>2. call[d].id \in Ids /\ torrents[call[d].id] = None
        BY <3>1, <3>3, <4>1 DEF OneAdd, DbInv, Callers, Proper
      <4>3. call[d].id # i
        <5>1. CASE call[c].op = "add"
          BY <5>1, <3>1, <3>3, <4>1, <2>i, <2>1 DEF OneAdd
        <5>2. CASE call[c].op = "restore"
          BY <5>2, <3>3, <4>1 DEF DbInv, Restoring
        <5> QED
          BY <5>1, <5>2, <2>1
      <4> QED
        BY <4>1, <4>2, <4>3, <2>1
    <3> QED
      BY <3>1, <3>2, <3>3 DEF OneAdd
  <2>4. ASSUME "sameId" \notin faults', backend' = "json" PROVE StoreKnows'
    <3>1. StoreKnows
      BY <2>1, <2>4 DEF IdInv
    <3>2. \A j \in Ids : Storing(j) => Storing(j)'
      <4> SUFFICES ASSUME NEW j \in Ids, NEW d \in Calls,
                          call[d].op = "add", call[d].id = j, call[d].stage \in {"snapshot", "row"}
                   PROVE  Storing(j)'
        BY DEF Storing
      <4>1. d # c
        BY <2>1
      <4> QED
        BY <4>1, <2>1 DEF Storing
    <3>3. rows'[i] # None \/ Storing(i)'
      <4>1. CASE call[c].op = "add"
        <5>1. call'[c].stage = "snapshot" /\ call'[c].id = i /\ call'[c].op = "add"
          BY <4>1, <2>1, <2>4
        <5> QED
          BY <5>1 DEF Storing
      <4>2. CASE call[c].op = "restore"
        BY <4>2, <2>1, <2>i DEF IdInv
      <4> QED
        BY <4>1, <4>2, <2>1
    <3>4. ASSUME NEW j \in Ids, torrents'[j] # None PROVE rows'[j] # None \/ Storing(j)'
      <4>1. CASE j = i
        BY <4>1, <3>3
      <4>2. CASE j # i
        <5>1. torrents[j] # None /\ rows'[j] = rows[j]
          BY <4>2, <2>1, <3>4
        <5>2. rows[j] # None \/ Storing(j)
          BY <5>1, <3>1 DEF StoreKnows
        <5> QED
          BY <5>1, <5>2, <3>2
      <4> QED
        BY <4>1, <4>2
    <3>5. ASSUME NEW d \in Calls, call'[d].op = "delete", call'[d].stage = "row"
          PROVE  /\ torrents'[call'[d].id] = None
                 /\ (rows[call[d].id] # None \/ Storing(call[d].id))'
                 /\ \A e \in Calls \ {d} : call'[e].id = call'[d].id =>
                      /\ ~(call'[e].op = "delete" /\ call'[e].stage = "row")
                      /\ ~(call'[e].op = "add" /\ call'[e].stage = "insert")
      <4>1. d # c /\ call'[d] = call[d]
        BY <2>1, <3>5
      <4>2. /\ call[d].id \in Ids /\ torrents[call[d].id] = None
            /\ rows[call[d].id] # None \/ Storing(call[d].id)
            /\ \A e \in Calls \ {d} : call[e].id = call[d].id =>
                   /\ ~(call[e].op = "delete" /\ call[e].stage = "row")
                   /\ ~(call[e].op = "add" /\ call[e].stage = "insert")
        BY <4>1, <3>1, <3>5 DEF StoreKnows, DbInv, Callers, Proper
      <4>3. call[c].op = "add"
        BY <2>1, <3>5, <4>1 DEF DbInv, Restoring
      <4>4. call[d].id # i
        BY <4>1, <4>2, <4>3, <2>1, <2>i
      <4>5. (rows[call[d].id] # None \/ Storing(call[d].id))'
        <5>1. PICK j \in Ids : j = call[d].id
          BY <4>2
        <5>2. rows'[j] # None \/ Storing(j)'
          BY <2>1, <4>2, <3>2, <5>1
        <5> QED
          BY <4>1, <5>1, <5>2 DEF Storing
      <4>6. torrents'[call[d].id] = None
        BY <2>1, <4>2, <4>4
      <4>7. \A e \in Calls \ {d} : call'[e].id = call[e].id /\ call'[e].op = call[e].op
        BY <2>1, <2>i
      <4> QED
        BY <2>1, <4>1, <4>2, <4>5, <4>6, <4>7
    <3> QED
      BY <3>4, <3>5 DEF StoreKnows
  <2>5. ASSUME backend' # "json" PROVE CounterAhead'
    <3>1. CounterAhead
      BY <2>1, <2>5 DEF IdInv
    <3>2. \A d \in Calls : call'[d].id = call[d].id
      BY <2>1, <2>i
    <3>3. i < counter
      BY <2>1, <2>i, <3>1 DEF CounterAhead
    <3> QED
      BY <2>1, <3>1, <3>2, <3>3 DEF CounterAhead
  <2>6. \A d \in Calls : call'[d].op = "restore" => rows'[call'[d].id] # None
    BY <2>1, <2>i DEF IdInv
  <2> QED
    BY <2>1, <2>2, <2>3, <2>4, <2>5, <2>6 DEF IdInv
<1>7. CASE Exit
  <2>1. /\ \A i \in Ids : torrents'[i] = None
        /\ \A c \in Calls : call'[c] = Idle
        /\ Idle.op = "" /\ Idle.id = None /\ Idle.stage = "idle"
        /\ UNCHANGED <<backend, counter>> /\ faults \subseteq faults'
        /\ backend # "json" => rows' = rows
    BY <1>7 DEF Exit, NoRows, Idle
  <2>2. OneAdd' /\ StoreKnows'
    BY <2>1 DEF OneAdd, StoreKnows
  <2>3. backend' # "json" => CounterAhead'
    BY <1>0, <2>1 DEF IdInv, CounterAhead
  <2> QED
    BY <2>1, <2>2, <2>3 DEF IdInv
<1>8. CASE Boot
  <2>1. /\ UNCHANGED <<backend, counter, torrents, call, faults>> /\ phase = "down" /\ phase' = "restoring"
        /\ backend # "json" => rows' = rows
    BY <1>8 DEF Boot, database
  <2>2. /\ \A i \in Ids : torrents'[i] = None
        /\ \A c \in Calls : call'[c].op = ""
    BY <2>1 DEF IdInv, DbInv, Restoring
  <2>3. OneAdd' /\ StoreKnows'
    BY <2>2 DEF OneAdd, StoreKnows
  <2>4. backend' # "json" => CounterAhead'
    BY <2>1 DEF IdInv, CounterAhead
  <2> QED
    BY <2>1, <2>2, <2>3, <2>4 DEF IdInv
<1> QED
  BY <1>1, <1>2, <1>3, <1>4, <1>5, <1>6, <1>7, <1>8, RoutineSteps, IdRoutine DEF Next, CallStep

\* Ids stay right, along every behaviour.
LEMMA IdInvariant == Spec => []IdInv
<1>1. Init => IdInv
  <2> SUFFICES ASSUME Init PROVE IdInv
    OBVIOUS
  <2>1. Idle.op = "" /\ Idle.id = None /\ None \notin Ids
    BY ConstantsAssumption DEF Idle, Ids
  <2> QED
    BY <2>1 DEF Init, IdInv, OneAdd, StoreKnows, CounterAhead, NoRows
<1>2. DbInv /\ DbInv' /\ IdInv /\ [Next /\ Bounded]_vars => IdInv'
  <2>1. ASSUME IdInv, UNCHANGED vars PROVE IdInv'
    BY <2>1 DEF IdInv, OneAdd, StoreKnows, Storing, CounterAhead, vars, database, store, history
  <2> QED
    BY <2>1, IdStep
<1> QED
  BY <1>1, <1>2, DbInvariant, PTL DEF Spec

\* An id that a store handed out is free until the add has used it, unless two adds
\* of the json store overlapped: no add is answered AlreadyManaged with a torrent it
\* has nothing to do with (Session::add_torrent, next_id of both stores).
THEOREM HandedOutIdsAreFree == Spec => []FreshIdIsFree
<1>1. IdInv => FreshIdIsFree
  BY DEF IdInv, OneAdd, FreshIdIsFree
<1> QED
  BY <1>1, IdInvariant, PTL

-----------------------------------------------------------------------------
(* Rows and .torrent files *)

Clean == faults \cap {"sameTorrent", "flush", "restore", "torrentFile"} = {}

Has(table, i, h) == table[i] # None /\ table[i].hash = h

OneCallEach == \A c, d \in Calls : call[c].hash # None /\ call[c].hash = call[d].hash => c = d

\* A delete that has not reached the store, or a restore that has not reached the
\* database, answers for a row.
AnswersFor(c, i, h) ==
  /\ call[c].hash = h /\ call[c].id = i
  /\ \/ call[c].op = "delete" /\ call[c].stage = "row"
     \/ call[c].op = "restore" /\ call[c].stage = "insert"

\* A row has its .torrent file, is the only one of its torrent, and somebody knows it.
RowsOwned ==
  \A i \in Ids, h \in Hashes : Has(rows, i, h) =>
    /\ h \in torrentFiles
    /\ \A j \in Ids : Has(rows, j, h) => j = i
    /\ i \in toRestore \/ index[h] = i \/ \E c \in Calls : AnswersFor(c, i, h)

FileOwned ==
  \A i \in Ids, h \in Hashes : Has(file.rows, i, h) =>
    h \in torrentFiles /\ \A j \in Ids : Has(file.rows, j, h) => j = i

\* A torrent has its file, or its add is about to write it.
Indexed ==
  \A h \in Hashes : index[h] # None =>
    /\ h \in torrentFiles \/ \E c \in Calls : call[c].hash = h /\ call[c].op \in {"add", "restore"} /\ call[c].stage = "snapshot"
    /\ phase = "restoring" => Has(rows, index[h], h)

\* What a call about a torrent may rely on.
Relies(c) ==
  /\ call[c].op \in {"add", "restore"} /\ call[c].stage \in {"snapshot", "row", "flush", "start"} =>
       index[call[c].hash] = call[c].id
  /\ call[c].op \in {"add", "restore"} /\ call[c].stage \in {"row", "flush", "start"} =>
       call[c].hash \in torrentFiles
  /\ call[c].op \in {"pause", "unpause", "select"} =>
       index[call[c].hash] = call[c].id /\ call[c].hash \in torrentFiles
  /\ call[c].op = "delete" =>
       /\ index[call[c].hash] = None
       /\ call[c].stage \in {"flush", "unlink"} => \A i \in Ids : ~Has(rows, i, call[c].hash)
       /\ call[c].stage = "unlink" => \A i \in Ids : ~Has(file.rows, i, call[c].hash)
  /\ call[c].op = "restore" => Has(rows, call[c].id, call[c].hash)

Owned == OneCallEach /\ RowsOwned /\ FileOwned /\ Indexed /\ \A c \in Calls : Relies(c)

FileInv == backend = "json" /\ Clean => Owned

\* A step that touches neither the store nor the index, and in which calls that answer
\* for something go on answering.
LEMMA OwnedFrame ==
  ASSUME Owned, UNCHANGED <<rows, file, torrentFiles, index, toRestore>>,
         phase' = phase \/ phase' # "restoring",
         \A d \in Calls :
           \/ UNCHANGED call[d]
           \/ /\ call'[d].hash = None /\ call'[d].op = ""
              /\ ~(call[d].op \in {"add", "restore"} /\ call[d].stage = "snapshot")
              /\ \A i \in Ids, h \in Hashes : AnswersFor(d, i, h) => i \in toRestore \/ index[h] = i
           \/ /\ call'[d].hash = call[d].hash /\ call'[d].op = call[d].op
              /\ call'[d].id = call[d].id \/ (call'[d].op = "add" /\ call'[d].stage = "insert")
              /\ call[d].stage \in {"id", "apply"} /\ call'[d].stage \in {"insert", "failed", "snapshot"}
              /\ call'[d].stage \in {"failed", "snapshot"} => call'[d].op \in {"pause", "unpause", "select"}
              /\ call[d].op # "restore"
  PROVE  Owned'
<1>1. OneCallEach'
  <2>1. \A d \in Calls : call'[d].hash = None \/ call'[d].hash = call[d].hash
    OBVIOUS
  <2>2. OneCallEach
    BY DEF Owned
  <2> QED
    BY <2>1, <2>2 DEF OneCallEach
<1>2. FileOwned'
  BY DEF Owned, FileOwned, Has
<1>3. RowsOwned'
  <2> SUFFICES ASSUME NEW i \in Ids, NEW h \in Hashes, Has(rows, i, h)
               PROVE  i \in toRestore \/ index[h] = i \/ \E c \in Calls : AnswersFor(c, i, h)'
    BY DEF Owned, RowsOwned, Has
  <2>1. CASE i \in toRestore \/ index[h] = i
    BY <2>1
  <2>2. ASSUME NEW c \in Calls, AnswersFor(c, i, h) PROVE i \in toRestore \/ index[h] = i \/ AnswersFor(c, i, h)'
    BY <2>2 DEF AnswersFor
  <2> QED
    BY <2>1, <2>2 DEF Owned, RowsOwned
<1>4. Indexed'
  <2>1. ASSUME NEW d \in Calls, call[d].op \in {"add", "restore"}, call[d].stage = "snapshot"
        PROVE  call'[d] = call[d]
    BY <2>1
  <2>2. SUFFICES ASSUME NEW h \in Hashes, index[h] # None
                 PROVE  /\ h \in torrentFiles \/ \E c \in Calls : call'[c].hash = h /\ call'[c].op \in {"add", "restore"} /\ call'[c].stage = "snapshot"
                        /\ phase' = "restoring" => Has(rows, index[h], h)
    BY DEF Indexed, Has
  <2>3. Indexed
    BY DEF Owned
  <2>4. phase' = "restoring" => Has(rows, index[h], h)
    BY <2>2, <2>3 DEF Indexed
  <2>5. h \in torrentFiles \/ \E c \in Calls : call[c].hash = h /\ call[c].op \in {"add", "restore"} /\ call[c].stage = "snapshot"
    BY <2>2, <2>3 DEF Indexed
  <2> QED
    BY <2>1, <2>4, <2>5
<1>5. ASSUME NEW c \in Calls PROVE Relies(c)'
  <2>1. Relies(c)
    BY DEF Owned
  <2> QED
    BY <2>1 DEF Relies, Has
<1> QED
  BY <1>1, <1>2, <1>3, <1>4, <1>5 DEF Owned

\* Calls that only end, ask for an id, or change an object.
LEMMA OwnedQuiet ==
  ASSUME DbInv, Owned,
         \/ \E c \in Calls : Fails(c) \/ AlreadyManaged(c) \/ Start(c) \/ NextId(c) \/ Apply(c) \/ Refuse(c)
         \/ \E k \in Handles : TorrentFails(k)
         \/ Clean' /\ \E h \in Hashes : TorrentFileWritten(h)
         \/ Stop \/ Restored
  PROVE  Owned'
<1>0. TypeOK /\ {"failed", "snapshot"} \subseteq Stages
  BY DEF DbInv, Stages
<1>1. ASSUME NEW c \in Calls, Fails(c) \/ Start(c) PROVE Owned'
  <2>1. /\ UNCHANGED <<rows, file, torrentFiles, index, toRestore, phase>> /\ Return(c)
        /\ call[c].stage \in {"id", "failed", "start"}
    BY <1>1 DEF Fails, Start, store
  <2>2. call'[c].hash = None /\ call'[c].op = "" /\ \A d \in Calls \ {c} : call'[d] = call[d]
    BY <1>0, <2>1, CallAfter DEF Return
  <2>3. \A j \in Ids, h \in Hashes : ~AnswersFor(c, j, h)
    BY <2>1 DEF AnswersFor
  <2> QED
    BY <2>1, <2>2, <2>3, OwnedFrame
<1>2. ASSUME NEW c \in Calls, AlreadyManaged(c) PROVE Owned'
  <2>1. /\ UNCHANGED <<rows, file, torrentFiles, index, toRestore, phase>> /\ Return(c)
        /\ call[c].stage = "insert" /\ (torrents[call[c].id] # None \/ index[call[c].hash] # None)
    BY <1>2 DEF AlreadyManaged, store
  <2>2. call'[c].hash = None /\ call'[c].op = "" /\ \A d \in Calls \ {c} : call'[d] = call[d]
    BY <1>0, <2>1, CallAfter DEF Return
  <2>3. ASSUME NEW i \in Ids, NEW h \in Hashes, AnswersFor(c, i, h) PROVE index[h] = i
    <3>1. call[c].hash = h /\ call[c].id = i /\ call[c].op = "restore" /\ Has(rows, i, h) /\ phase = "restoring"
      BY <2>1, <2>3 DEF AnswersFor, Owned, Relies, DbInv, Restoring
    <3>2. \A g \in Hashes : index[g] # None => Has(rows, index[g], g)
      BY <3>1 DEF Owned, Indexed
    <3>3. CASE index[h] # None
      <4>1. index[h] \in Ids /\ Has(rows, index[h], h)
        BY <3>2, <3>3 DEF DbInv, TypeOK
      <4> QED
        BY <3>1, <4>1 DEF Owned, RowsOwned
    <3>4. CASE torrents[i] # None
      <4> DEFINE g == handle[torrents[i]].hash
      <4>1. handle[torrents[i]] \in Torrent /\ index[g] = i
        BY <3>4 DEF DbInv, TypeOK, Refs
      <4>2. g \in Hashes /\ i # None
        BY <4>1, ConstantsAssumption DEF Torrent, Ids
      <4> HIDE DEF g
      <4>3. Has(rows, i, g)
        BY <3>2, <4>1, <4>2
      <4> QED
        BY <3>1, <4>1, <4>3 DEF Has
    <3> QED
      BY <2>1, <3>1, <3>3, <3>4
  <2> QED
    BY <2>1, <2>2, <2>3, OwnedFrame
<1>3. ASSUME NEW c \in Calls, NextId(c) PROVE Owned'
  BY <1>3, IdHandedOut, OwnedFrame
<1>4. ASSUME NEW c \in Calls, Apply(c) \/ Refuse(c) PROVE Owned'
  <2>1. /\ UNCHANGED <<phase, rows, file, torrentFiles, index, toRestore>> /\ call[c].stage = "apply"
        /\ call' = [call EXCEPT ![c].stage = "failed"] \/ call' = [call EXCEPT ![c].stage = "snapshot"]
    BY <1>4 DEF Apply, Refuse, store
  <2>2. /\ call'[c].op = call[c].op /\ call'[c].id = call[c].id /\ call'[c].hash = call[c].hash
        /\ call'[c].stage \in {"failed", "snapshot"} /\ \A d \in Calls \ {c} : call'[d] = call[d]
    BY <2>1, <1>0, CallAfter
  <2>3. call[c].op \in {"pause", "unpause", "select"}
    BY <2>1 DEF DbInv, Callers, Proper
  <2> QED
    BY <2>1, <2>2, <2>3, OwnedFrame
<1>5. ASSUME (\E k \in Handles : TorrentFails(k)) \/ Stop \/ Restored PROVE Owned'
  <2>1. UNCHANGED <<rows, file, torrentFiles, index, toRestore, call>> /\ (phase' = phase \/ phase' # "restoring")
    BY <1>5 DEF TorrentFails, Stop, Restored, database, store
  <2> QED
    BY <2>1, OwnedFrame
<1>6. ASSUME Clean', NEW h \in Hashes, TorrentFileWritten(h) PROVE Owned'
  <2>1. UNCHANGED <<rows, file, torrentFiles, index, toRestore, call, phase>>
    BY <1>6 DEF TorrentFileWritten, Clean, database
  <2> QED
    BY <2>1, OwnedFrame
<1> QED
  BY <1>1, <1>2, <1>3, <1>4, <1>5, <1>6

\* Whoever answers for a row, and whoever is about to write a .torrent file.
Answers(i, h) == \E c \in Calls : AnswersFor(c, i, h)
Writes(h) == \E c \in Calls : call[c].hash = h /\ call[c].op \in {"add", "restore"} /\ call[c].stage = "snapshot"

\* A call that begins and is alone with its torrent disturbs nobody.
LEMMA Beginning ==
  ASSUME Owned, NEW c \in Calls, call[c].hash = None, call[c].op = "",
         \A d \in Calls \ {c} : call'[d] = call[d] /\ call[d].hash # call'[c].hash
  PROVE  /\ OneCallEach'
         /\ \A i \in Ids, h \in Hashes : Answers(i, h) => Answers(i, h)'
         /\ \A h \in Hashes : Writes(h) => Writes(h)'
<1>1. OneCallEach'
  BY DEF Owned, OneCallEach
<1>2. ASSUME NEW i \in Ids, NEW h \in Hashes, NEW d \in Calls, AnswersFor(d, i, h) PROVE Answers(i, h)'
  <2>1. d # c
    BY <1>2 DEF AnswersFor
  <2>2. AnswersFor(d, i, h)'
    BY <1>2, <2>1 DEF AnswersFor
  <2> QED
    BY <2>2 DEF Answers
<1>3. ASSUME NEW h \in Hashes, NEW d \in Calls,
             call[d].hash = h /\ call[d].op \in {"add", "restore"} /\ call[d].stage = "snapshot"
      PROVE  Writes(h)'
  <2>1. d # c
    BY <1>3
  <2> QED
    BY <1>3, <2>1 DEF Writes
<1>4. ASSUME NEW i \in Ids, NEW h \in Hashes, Answers(i, h) PROVE Answers(i, h)'
  <2>1. PICK d \in Calls : AnswersFor(d, i, h)
    BY <1>4 DEF Answers
  <2> QED
    BY <2>1, <1>2
<1>5. ASSUME NEW h \in Hashes, Writes(h) PROVE Writes(h)'
  <2>1. PICK d \in Calls : call[d].hash = h /\ call[d].op \in {"add", "restore"} /\ call[d].stage = "snapshot"
    BY <1>5 DEF Writes
  <2> QED
    BY <2>1, <1>3
<1> QED
  BY <1>1, <1>4, <1>5

\* The parts of the invariant when the store stands still.
LEMMA StoreStands ==
  ASSUME Owned, UNCHANGED <<rows, file>>, torrentFiles \subseteq torrentFiles'
  PROVE  /\ FileOwned'
         /\ (\A i \in Ids, h \in Hashes : Has(rows, i, h) => i \in toRestore' \/ index'[h] = i \/ Answers(i, h)')
              => RowsOwned'
         /\ (\A h \in Hashes : index'[h] # None =>
               (h \in torrentFiles' \/ Writes(h)') /\ (phase' = "restoring" => Has(rows, index'[h], h)))
              => Indexed'
<1>1. FileOwned'
  BY DEF Owned, FileOwned, Has
<1>2. ASSUME \A i \in Ids, h \in Hashes : Has(rows, i, h) => i \in toRestore' \/ index'[h] = i \/ Answers(i, h)'
      PROVE  RowsOwned'
  BY <1>2 DEF Owned, RowsOwned, Has, Answers
<1>3. ASSUME \A h \in Hashes : index'[h] # None =>
               (h \in torrentFiles' \/ Writes(h)') /\ (phase' = "restoring" => Has(rows, index'[h], h))
      PROVE  Indexed'
  BY <1>3 DEF Indexed, Has, Writes
<1> QED
  BY <1>1, <1>2, <1>3

\* What RowsOwned and Indexed say, in the words of the two lemmas above.
LEMMA OwnedSays ==
  ASSUME Owned
  PROVE  /\ \A i \in Ids, h \in Hashes : Has(rows, i, h) => i \in toRestore \/ index[h] = i \/ Answers(i, h)
         /\ \A h \in Hashes : index[h] # None =>
              (h \in torrentFiles \/ Writes(h)) /\ (phase = "restoring" => Has(rows, index[h], h))
         /\ \A c \in Calls : Relies(c)
<1>1. RowsOwned /\ Indexed
  BY DEF Owned
<1>2. \A i \in Ids, h \in Hashes : Has(rows, i, h) => i \in toRestore \/ index[h] = i \/ Answers(i, h)
  BY <1>1 DEF RowsOwned, Answers
<1>3. \A h \in Hashes : index[h] # None =>
        (h \in torrentFiles \/ Writes(h)) /\ (phase = "restoring" => Has(rows, index[h], h))
  BY <1>1 DEF Indexed, Writes
<1> QED
  BY <1>2, <1>3 DEF Owned

\* A call about which nothing changes relies on what it did.
LEMMA ReliesStays ==
  ASSUME NEW d \in Calls, Relies(d), call'[d] = call[d],
         UNCHANGED <<rows, file>>, torrentFiles \subseteq torrentFiles',
         call[d].op # "" => index'[call[d].hash] = index[call[d].hash]
  PROVE  Relies(d)'
BY DEF Relies, Has

\* Calls that begin.
LEMMA OwnedBegin ==
  ASSUME DbInv, Owned, Clean', backend = "json",
         \/ \E c \in Calls, h \in Hashes, s \in Settings : AddTorrent(c, h, s)
         \/ \E c \in Calls, i \in Ids : Restore(c, i) \/ Delete(c, i)
         \/ \E c \in Calls, i \in Ids, op \in {"pause", "unpause", "select"} : Change(c, op, i)
  PROVE  Owned'
<1>0. TypeOK /\ None \notin Hashes /\ None \notin Ids
  BY ConstantsAssumption DEF DbInv, Ids
<1>i. \A c \in Calls : call[c].stage = "idle" => call[c].hash = None /\ call[c].op = ""
  <2>1. Idle.hash = None /\ Idle.op = ""
    BY DEF Idle
  <2> QED
    BY <2>1 DEF DbInv, Callers, Proper
<1>1. ASSUME NEW c \in Calls, NEW h \in Hashes, NEW s \in Settings, AddTorrent(c, h, s) PROVE Owned'
  <2>1. /\ call'[c].op = "add" /\ call'[c].stage = "id" /\ call'[c].hash = h
        /\ UNCHANGED <<phase, index, rows, file, torrentFiles, toRestore>>
        /\ \A d \in Calls \ {c} : call'[d] = call[d] /\ call[d].hash # h
        /\ call[c].stage = "idle"
    BY <1>0, <1>1, AddBegun DEF Clean
  <2>2. /\ OneCallEach'
        /\ \A i \in Ids, g \in Hashes : Answers(i, g) => Answers(i, g)'
        /\ \A g \in Hashes : Writes(g) => Writes(g)'
    BY <2>1, <1>i, Beginning
  <2>3. RowsOwned' /\ Indexed' /\ FileOwned'
    BY <2>1, <2>2, StoreStands, OwnedSays
  <2>4. ASSUME NEW d \in Calls PROVE Relies(d)'
    <3>1. CASE d = c
      BY <3>1, <2>1 DEF Relies
    <3>2. CASE d # c
      BY <3>2, <2>1, OwnedSays, ReliesStays
    <3> QED
      BY <3>1, <3>2
  <2> QED
    BY <2>2, <2>3, <2>4 DEF Owned
<1>2. ASSUME NEW c \in Calls, NEW i \in Ids, Restore(c, i) PROVE Owned'
  <2>h. PICK h : h = rows[i].hash
    OBVIOUS
  <2>1. /\ call'[c].op = "restore" /\ call'[c].id = i /\ call'[c].stage = "insert" /\ call'[c].hash = h
        /\ i \in toRestore /\ toRestore' = toRestore \ {i}
        /\ UNCHANGED <<phase, index, rows, file, torrentFiles>>
        /\ \A d \in Calls \ {c} : call'[d] = call[d] /\ call[d].hash # h
        /\ call[c].stage = "idle"
    BY <1>0, <1>2, <2>h, RestoreBegun DEF Clean
  <2>2. Has(rows, i, h) /\ h \in Hashes
    BY <2>1, <2>h DEF DbInv, Restoring, TypeOK, Row, Has
  <2>3. /\ OneCallEach'
        /\ \A j \in Ids, g \in Hashes : Answers(j, g) => Answers(j, g)'
        /\ \A g \in Hashes : Writes(g) => Writes(g)'
    BY <2>1, <1>i, Beginning
  <2>4. Indexed' /\ FileOwned'
    BY <2>1, <2>3, StoreStands, OwnedSays
  <2>5. RowsOwned'
    <3>1. Answers(i, h)'
      BY <2>1 DEF Answers, AnswersFor
    <3>2. ASSUME NEW j \in Ids, NEW g \in Hashes, Has(rows, j, g)
          PROVE  j \in toRestore' \/ index'[g] = j \/ Answers(j, g)'
      <4>1. CASE j = i
        <5>1. g = h
          BY <3>2, <4>1, <2>h DEF Has
        <5> QED
          BY <5>1, <4>1, <3>1
      <4>2. CASE j # i
        BY <4>2, <3>2, <2>1, <2>3, OwnedSays
      <4> QED
        BY <4>1, <4>2
    <3> QED
      BY <3>2, <2>1, StoreStands
  <2>6. ASSUME NEW d \in Calls PROVE Relies(d)'
    <3>1. CASE d = c
      BY <3>1, <2>1, <2>2 DEF Relies, Has
    <3>2. CASE d # c
      BY <3>2, <2>1, OwnedSays, ReliesStays
    <3> QED
      BY <3>1, <3>2
  <2> QED
    BY <2>3, <2>4, <2>5, <2>6 DEF Owned
<1>3. ASSUME NEW c \in Calls, NEW i \in Ids, NEW op \in {"pause", "unpause", "select"}, Change(c, op, i) PROVE Owned'
  <2>h. PICK h : h = handle[torrents[i]].hash
    OBVIOUS
  <2>1. /\ call'[c].op = op /\ call'[c].id = i /\ call'[c].stage = "apply" /\ call'[c].hash = h
        /\ torrents[i] # None
        /\ UNCHANGED <<phase, index, rows, file, torrentFiles, toRestore>>
        /\ \A d \in Calls \ {c} : call'[d] = call[d] /\ call[d].hash # h
        /\ call[c].stage = "idle"
    BY <1>0, <1>3, <2>h, ChangeBegun DEF Clean
  <2>2. h \in Hashes /\ index[h] = i
    BY <2>1, <2>h DEF DbInv, TypeOK, Refs, Torrent
  <2>3. h \in torrentFiles
    <3>1. ~Writes(h)
      BY <1>0, <1>i, <2>1, <2>2 DEF Writes
    <3> QED
      BY <3>1, <2>2, <1>0, OwnedSays
  <2>4. /\ OneCallEach'
        /\ \A j \in Ids, g \in Hashes : Answers(j, g) => Answers(j, g)'
        /\ \A g \in Hashes : Writes(g) => Writes(g)'
    BY <2>1, <1>i, Beginning
  <2>5. RowsOwned' /\ Indexed' /\ FileOwned'
    BY <2>1, <2>4, StoreStands, OwnedSays
  <2>6. ASSUME NEW d \in Calls PROVE Relies(d)'
    <3>1. CASE d = c
      BY <3>1, <2>1, <2>2, <2>3 DEF Relies, Has
    <3>2. CASE d # c
      BY <3>2, <2>1, OwnedSays, ReliesStays
    <3> QED
      BY <3>1, <3>2
  <2> QED
    BY <2>4, <2>5, <2>6 DEF Owned
<1>4. ASSUME NEW c \in Calls, NEW i \in Ids, Delete(c, i) PROVE Owned'
  <2>h. PICK h : h = handle[torrents[i]].hash
    OBVIOUS
  <2>1. /\ call'[c].op = "delete" /\ call'[c].id = i /\ call'[c].stage = "row" /\ call'[c].hash = h
        /\ torrents[i] # None /\ DbRemove(i)
        /\ UNCHANGED <<phase, rows, file, torrentFiles, toRestore>>
        /\ \A d \in Calls \ {c} : call'[d] = call[d] /\ call[d].hash # h
        /\ call[c].stage = "idle"
    BY <1>0, <1>4, <2>h, DeleteBegun DEF Clean
  <2>2. h \in Hashes /\ index[h] = i
    BY <2>1, <2>h DEF DbInv, TypeOK, Refs, Torrent
  <2>3. index'[h] = None /\ \A g \in Hashes \ {h} : index'[g] = index[g]
    BY <2>1, <2>2, <2>h DEF DbRemove, DbInv, TypeOK
  <2>4. /\ OneCallEach'
        /\ \A j \in Ids, g \in Hashes : Answers(j, g) => Answers(j, g)'
        /\ \A g \in Hashes : Writes(g) => Writes(g)'
    BY <2>1, <1>i, Beginning
  <2>5. Indexed' /\ FileOwned'
    BY <2>1, <2>3, <2>4, StoreStands, OwnedSays
  <2>6. RowsOwned'
    <3>1. Answers(i, h)'
      BY <2>1 DEF Answers, AnswersFor
    <3>2. ASSUME NEW j \in Ids, NEW g \in Hashes, Has(rows, j, g)
          PROVE  j \in toRestore' \/ index'[g] = j \/ Answers(j, g)'
      <4>1. CASE g = h /\ index[g] = j
        BY <4>1, <3>1, <2>2
      <4>2. CASE g # h \/ index[g] # j
        BY <4>2, <3>2, <2>1, <2>3, <2>4, OwnedSays
      <4> QED
        BY <4>1, <4>2
    <3> QED
      BY <3>2, <2>1, StoreStands
  <2>7. ASSUME NEW d \in Calls PROVE Relies(d)'
    <3>1. CASE d = c
      BY <3>1, <2>1, <2>3 DEF Relies
    <3>2. CASE d # c
      <4>1. Relies(d) /\ call'[d] = call[d] /\ call[d].hash # h
        BY <3>2, <2>1 DEF Owned
      <4>2. call[d].op # "" => call[d].hash \in Hashes
        BY <1>i DEF DbInv, Callers, Proper
      <4>3. call[d].op # "" => index'[call[d].hash] = index[call[d].hash]
        BY <4>1, <4>2, <2>3
      <4> QED
        BY <4>1, <4>3, <2>1, ReliesStays
    <3> QED
      BY <3>1, <3>2
  <2> QED
    BY <2>4, <2>5, <2>6, <2>7 DEF Owned
<1> QED
  BY <1>1, <1>2, <1>3, <1>4

\* A call that goes on or ends gives up at most what it answered for itself.
LEMMA Moving ==
  ASSUME Owned, NEW c \in Calls, call'[c].hash \in {None, call[c].hash},
         \A d \in Calls \ {c} : call'[d] = call[d]
  PROVE  /\ OneCallEach'
         /\ \A i \in Ids, h \in Hashes : Answers(i, h) => Answers(i, h)' \/ AnswersFor(c, i, h)
         /\ \A h \in Hashes : Writes(h) =>
              Writes(h)' \/ (call[c].hash = h /\ call[c].op \in {"add", "restore"} /\ call[c].stage = "snapshot")
<1>1. OneCallEach'
  BY DEF Owned, OneCallEach
<1>2. ASSUME NEW i \in Ids, NEW h \in Hashes, Answers(i, h), ~AnswersFor(c, i, h) PROVE Answers(i, h)'
  <2>1. PICK d \in Calls : AnswersFor(d, i, h)
    BY <1>2 DEF Answers
  <2>2. call'[d] = call[d]
    BY <1>2, <2>1
  <2>3. AnswersFor(d, i, h)'
    BY <2>1, <2>2 DEF AnswersFor
  <2> QED
    BY <2>3 DEF Answers
<1>3. ASSUME NEW h \in Hashes, Writes(h),
             ~(call[c].hash = h /\ call[c].op \in {"add", "restore"} /\ call[c].stage = "snapshot")
      PROVE  Writes(h)'
  <2>1. PICK d \in Calls : call[d].hash = h /\ call[d].op \in {"add", "restore"} /\ call[d].stage = "snapshot"
    BY <1>3 DEF Writes
  <2>2. call'[d] = call[d]
    BY <1>3, <2>1
  <2> QED
    BY <2>1, <2>2 DEF Writes
<1> QED
  BY <1>1, <1>2, <1>3

\* Among the calls at work one only is about a given torrent.
LEMMA OthersElsewhere ==
  ASSUME DbInv, Owned, NEW c \in Calls, call[c].stage # "idle"
  PROVE  /\ call[c].hash \in Hashes /\ call[c].op # ""
         /\ \A d \in Calls \ {c} : call[d].hash # call[c].hash
         /\ \A d \in Calls : call[d].op # "" => call[d].hash \in Hashes
<1>1. Idle.op = "" /\ "" \notin Ops /\ None \notin Hashes
  BY ConstantsAssumption DEF Idle, Ops
<1>2. \A d \in Calls : Proper(call[d])
  BY DEF DbInv, Callers
<1>3. call[c].hash \in Hashes /\ call[c].op # ""
  BY <1>1, <1>2 DEF Proper
<1>4. \A d \in Calls : call[d].op # "" => call[d].hash \in Hashes
  BY <1>1, <1>2 DEF Proper
<1> QED
  BY <1>1, <1>3, <1>4 DEF Owned, OneCallEach

\* The torrent of an add or a restore enters the database.
LEMMA OwnedInsert ==
  ASSUME DbInv, Owned, backend = "json", NEW c \in Calls, Insert(c)
  PROVE  Owned'
<1>h. PICK h, i : h = call[c].hash /\ i = call[c].id
  OBVIOUS
<1>1. /\ call'[c].op = call[c].op /\ call'[c].id = i /\ call'[c].hash = h /\ call'[c].stage = "snapshot"
      /\ call[c].stage = "insert" /\ i \in Ids /\ call[c].op \in {"add", "restore"} /\ h \in Hashes
      /\ \A d \in Calls \ {c} : call'[d] = call[d]
      /\ index[h] = None /\ index'[h] = i /\ \A g \in Hashes \ {h} : index'[g] = index[g]
      /\ UNCHANGED <<phase, rows, file, torrentFiles, toRestore>>
  BY <1>h, Inserted
<1>2. /\ OneCallEach'
      /\ \A j \in Ids, g \in Hashes : Answers(j, g) => Answers(j, g)' \/ AnswersFor(c, j, g)
      /\ \A g \in Hashes : Writes(g) => Writes(g)'
  BY <1>1, <1>h, Moving
<1>3. \A d \in Calls \ {c} : call[d].hash # h /\ (call[d].op # "" => call[d].hash \in Hashes)
  BY <1>1, <1>h, OthersElsewhere
<1>4. call[c].op = "restore" => Has(rows, i, h)
  BY <1>h, OwnedSays DEF Relies
<1>5. RowsOwned'
  <2>1. ASSUME NEW j \in Ids, NEW g \in Hashes, Has(rows, j, g)
        PROVE  j \in toRestore' \/ index'[g] = j \/ Answers(j, g)'
    <3>1. CASE AnswersFor(c, j, g)
      <4>1. g = h /\ j = i
        BY <3>1, <1>h DEF AnswersFor
      <4> QED
        BY <4>1, <1>1
    <3>2. CASE ~AnswersFor(c, j, g)
      <4>0. None \notin Ids
        BY ConstantsAssumption DEF Ids
      <4>1. j \in toRestore \/ index[g] = j \/ Answers(j, g)
        BY <2>1, OwnedSays
      <4> QED
        BY <4>0, <4>1, <3>2, <1>1, <1>2
    <3> QED
      BY <3>1, <3>2
  <2> QED
    BY <2>1, <1>1, StoreStands
<1>6. Indexed' /\ FileOwned'
  <2>1. ASSUME NEW g \in Hashes, index'[g] # None
        PROVE  (g \in torrentFiles' \/ Writes(g)') /\ (phase' = "restoring" => Has(rows, index'[g], g))
    <3>1. CASE g = h
      <4>1. Writes(h)'
        BY <1>1 DEF Writes
      <4>2. phase = "restoring" => call[c].op = "restore"
        BY <1>1 DEF DbInv, Restoring
      <4> QED
        BY <4>1, <4>2, <3>1, <1>1, <1>4
    <3>2. CASE g # h
      BY <3>2, <2>1, <1>1, <1>2, OwnedSays
    <3> QED
      BY <3>1, <3>2
  <2> QED
    BY <2>1, <1>1, StoreStands
<1>7. ASSUME NEW d \in Calls PROVE Relies(d)'
  <2>1. CASE d = c
    BY <2>1, <1>1, <1>4 DEF Relies, Has
  <2>2. CASE d # c
    <3>1. call[d].op # "" => index'[call[d].hash] = index[call[d].hash]
      BY <2>2, <1>1, <1>3
    <3> QED
      BY <3>1, <2>2, <1>1, OwnedSays, ReliesStays
  <2> QED
    BY <2>1, <2>2
<1> QED
  BY <1>2, <1>5, <1>6, <1>7 DEF Owned

\* The torrent is read, and the .torrent file of a new one is written.
LEMMA OwnedSnapshot ==
  ASSUME DbInv, Owned, backend = "json", Clean', NEW c \in Calls, Snapshot(c)
  PROVE  Owned'
<1>h. PICK h : h = call[c].hash
  OBVIOUS
<1>1. /\ call[c].stage = "snapshot" /\ call' = [call EXCEPT ![c].stage = "row", ![c].row = RowOf(call[c].h)]
      /\ torrentFiles' = IF call[c].op \in {"add", "restore"} THEN torrentFiles \cup {h} ELSE torrentFiles
      /\ UNCHANGED <<phase, rows, file, index, toRestore>>
  BY <1>h DEF Snapshot, WriteTorrentFile, Clean, database
<1>2. /\ call'[c].op = call[c].op /\ call'[c].id = call[c].id /\ call'[c].hash = h /\ call'[c].stage = "row"
      /\ \A d \in Calls \ {c} : call'[d] = call[d]
  <2>1. call \in [Calls -> CallState] /\ call[c] \in CallState
    BY DEF DbInv, TypeOK
  <2>2. call[c] = [stage |-> call[c].stage, op |-> call[c].op, hash |-> call[c].hash, id |-> call[c].id, h |-> call[c].h, row |-> call[c].row]
    BY <2>1 DEF CallState
  <2>3. PICK v : v = RowOf(call[c].h)
    OBVIOUS
  <2>4. call'[c] = [call[c] EXCEPT !.stage = "row", !.row = v] /\ \A d \in Calls \ {c} : call'[d] = call[d]
    BY <1>1, <2>1, <2>3
  <2> QED
    BY <1>h, <2>2, <2>4
<1>3. /\ OneCallEach'
      /\ \A j \in Ids, g \in Hashes : Answers(j, g) => Answers(j, g)' \/ AnswersFor(c, j, g)
      /\ \A g \in Hashes : Writes(g) => Writes(g)' \/ (g = h /\ call[c].op \in {"add", "restore"})
  BY <1>h, <1>2, Moving
<1>4. \A j \in Ids, g \in Hashes : ~AnswersFor(c, j, g)
  BY <1>1 DEF AnswersFor
<1>5. RowsOwned' /\ FileOwned'
  BY <1>1, <1>3, <1>4, StoreStands, OwnedSays
<1>6. Indexed'
  BY <1>1, <1>3, StoreStands, OwnedSays
<1>7. ASSUME NEW d \in Calls PROVE Relies(d)'
  <2>1. CASE d = c
    <3>1. Relies(c) /\ call[c].op # "delete"
      BY <1>1, OwnedSays DEF DbInv, Callers, Proper
    <3> QED
      BY <3>1, <2>1, <1>h, <1>1, <1>2 DEF Relies, Has
  <2>2. CASE d # c
    BY <2>2, <1>1, <1>2, OwnedSays, ReliesStays
  <2> QED
    BY <2>1, <2>2
<1> QED
  BY <1>3, <1>5, <1>6, <1>7 DEF Owned

\* The row of a torrent that is in the database is written: it was the only one of its
\* torrent, or there was none.
LEMMA OwnedPutRow ==
  ASSUME DbInv, Owned, NEW c \in Calls, PutRow(c)
  PROVE  Owned'
<1>h. PICK h, i, r : h = call[c].hash /\ i = call[c].id /\ r = call[c].row
  OBVIOUS
<1>1. /\ call[c].stage = "row" /\ call[c].op # "delete" /\ rows' = [rows EXCEPT ![i] = r]
      /\ call' = [call EXCEPT ![c].stage = "flush"]
      /\ UNCHANGED <<phase, file, index, torrentFiles, toRestore>>
  BY <1>h DEF PutRow, Goto
<1>2. /\ call'[c].op = call[c].op /\ call'[c].id = i /\ call'[c].hash = h /\ call'[c].stage = "flush"
      /\ \A d \in Calls \ {c} : call'[d] = call[d]
  BY <1>h, <1>1, CallAfter DEF DbInv, Stages
<1>3. h \in Hashes /\ i \in Ids /\ r \in Row /\ r.hash = h /\ call[c].op \in Ops
  BY <1>h, <1>1 DEF DbInv, Callers, Proper
<1>4. r # None /\ rows'[i] = r /\ \A j \in Ids \ {i} : rows'[j] = rows[j]
  BY <1>1, <1>3, NoneAssumption DEF DbInv, TypeOK
<1>5. /\ OneCallEach'
      /\ \A j \in Ids, g \in Hashes : Answers(j, g) => Answers(j, g)'
      /\ \A g \in Hashes : Writes(g) => Writes(g)'
  <2>1. \A j \in Ids, g \in Hashes : ~AnswersFor(c, j, g)
    BY <1>1 DEF AnswersFor
  <2> QED
    BY <1>h, <1>1, <1>2, <2>1, Moving
<1>6. \A d \in Calls \ {c} : call[d].hash # h
  BY <1>1, <1>h, OthersElsewhere
<1>7. index[h] = i /\ h \in torrentFiles /\ (call[c].op = "restore" => Has(rows, i, h))
  <2>1. Relies(c)
    BY OwnedSays
  <2> QED
    BY <1>h, <1>1, <1>3, <2>1 DEF Relies, Ops
<1>8. phase = "restoring" => Has(rows, i, h)
  <2>1. phase = "restoring" => call[c].op = "restore"
    BY <1>3 DEF DbInv, Restoring, Ops
  <2> QED
    BY <2>1, <1>7
<1>9. ASSUME NEW j \in Ids, Has(rows, j, h) PROVE j = i
  <2>1. ~Answers(j, h)
    BY <1>1, <1>6 DEF Answers, AnswersFor
  <2>2. j \in toRestore \/ index[h] = j
    BY <1>3, <1>9, <2>1, OwnedSays
  <2>3. CASE j \in toRestore
    <3>1. Has(rows, i, h)
      BY <2>3, <1>8 DEF DbInv, Restoring
    <3> QED
      BY <3>1, <1>3, <1>9 DEF Owned, RowsOwned
  <2> QED
    BY <1>7, <2>2, <2>3
<1>10. ASSUME NEW j \in Ids, NEW g \in Hashes
       PROVE  Has(rows', j, g) <=> (j = i /\ g = h) \/ (j # i /\ Has(rows, j, g))
  BY <1>3, <1>4 DEF Has
<1>11. RowsOwned'
  <2>0. RowsOwned
    BY DEF Owned
  <2> SUFFICES ASSUME NEW j \in Ids, NEW g \in Hashes, Has(rows', j, g)
               PROVE  /\ g \in torrentFiles
                      /\ \A l \in Ids : Has(rows', l, g) => l = j
                      /\ j \in toRestore \/ index[g] = j \/ Answers(j, g)'
    BY <1>1 DEF RowsOwned, Has, Answers
  <2>1. CASE j = i /\ g = h
    BY <2>1, <1>7, <1>9, <1>10, <1>3
  <2>2. CASE j # i /\ Has(rows, j, g)
    <3>1. g # h
      BY <2>2, <1>9
    <3>2. \A l \in Ids : Has(rows', l, g) => l = j
      BY <2>0, <2>2, <3>1, <1>10 DEF RowsOwned
    <3>3. j \in toRestore \/ index[g] = j \/ Answers(j, g)'
      BY <2>2, <1>5, OwnedSays
    <3> QED
      BY <2>0, <2>2, <3>2, <3>3 DEF RowsOwned
  <2> QED
    BY <2>1, <2>2, <1>10
<1>12. FileOwned'
  BY <1>1 DEF Owned, FileOwned, Has
<1>13. ASSUME NEW j \in Ids, NEW g \in Hashes, phase = "restoring", Has(rows, j, g) PROVE Has(rows', j, g)
  <2>1. CASE j = i
    BY <2>1, <1>13, <1>8, <1>10 DEF Has
  <2>2. CASE j # i
    BY <2>2, <1>13, <1>10
  <2> QED
    BY <2>1, <2>2
<1>14. Indexed'
  <2> SUFFICES ASSUME NEW g \in Hashes, index[g] # None
               PROVE  (g \in torrentFiles \/ Writes(g)') /\ (phase = "restoring" => Has(rows', index[g], g))
    BY <1>1 DEF Indexed, Writes, Has
  <2>1. index[g] \in Ids
    BY DEF DbInv, TypeOK
  <2> QED
    BY <2>1, <1>5, <1>13, OwnedSays
<1>15. ASSUME NEW d \in Calls PROVE Relies(d)'
  <2>0. Relies(d)
    BY OwnedSays
  <2>1. CASE d = c
    <3>1. Has(rows', i, h)
      BY <1>3, <1>10
    <3>2. call'[d].op = call[c].op /\ call'[d].id = i /\ call'[d].hash = h /\ call'[d].stage = "flush"
      BY <2>1, <1>2
    <3> QED
      BY <3>1, <3>2, <1>1, <1>7 DEF Relies, Has
  <2>2. CASE d # c
    <3>1. call'[d] = call[d] /\ call[d].hash # h
      BY <2>2, <1>2, <1>6
    <3>2. call[d].op # "" => call[d].hash \in Hashes
      BY <1>1, OthersElsewhere
    <3>3. call[d].op = "restore" => call[d].id \in Ids /\ phase = "restoring"
      <4>1. Proper(call[d]) /\ Idle.op = "" /\ Restoring
        BY DEF DbInv, Callers, Idle
      <4>2. call[d].op = "restore" => call[d].stage \notin {"idle", "id"}
        BY <4>1 DEF Proper
      <4>3. call[d].op = "restore" => call[d].id \in Ids
        BY <4>1, <4>2 DEF Proper
      <4> QED
        BY <4>1, <4>3 DEF Restoring
    <3>4. call[d].op = "restore" => Has(rows', call[d].id, call[d].hash)
      BY <2>0, <3>2, <3>3, <1>13 DEF Relies
    <3>5. call[d].op = "delete" => \A j \in Ids : Has(rows', j, call[d].hash) => Has(rows, j, call[d].hash)
      BY <3>1, <3>2, <1>10
    <3> QED
      BY <2>0, <3>1, <3>4, <3>5, <1>1 DEF Relies, Has
  <2> QED
    BY <2>1, <2>2
<1> QED
  BY <1>5, <1>11, <1>12, <1>14, <1>15 DEF Owned

\* session.json becomes what the rows are.
LEMMA OwnedFlush ==
  ASSUME DbInv, Owned, NEW c \in Calls, Flush(c)
  PROVE  Owned'
<1>1. /\ call[c].stage = "flush" /\ file'.rows = rows
      /\ UNCHANGED <<phase, rows, index, torrentFiles, toRestore>>
  BY DEF Flush
<1>2. /\ \A d \in Calls \ {c} : call'[d] = call[d]
      /\ \/ call'[c].op = "" /\ call'[c].hash = None
         \/ /\ call'[c].op = call[c].op /\ call'[c].id = call[c].id /\ call'[c].hash = call[c].hash
            /\ call'[c].stage = IF call[c].op = "delete" THEN "unlink" ELSE "start"
            /\ call[c].op \in {"add", "restore", "delete"}
  <2>1. TypeOK /\ "unlink" \in Stages /\ "start" \in Stages
    BY DEF DbInv, Stages
  <2>2. CASE call[c].op = "delete"
    <3>1. call' = [call EXCEPT ![c].stage = "unlink"]
      BY <2>2 DEF Flush, Goto
    <3>2. /\ call'[c].op = call[c].op /\ call'[c].id = call[c].id /\ call'[c].stage = "unlink" /\ call'[c].hash = call[c].hash
          /\ \A d \in Calls \ {c} : call'[d] = call[d]
      BY <3>1, <2>1, CallAfter
    <3> QED
      BY <3>2, <2>2
  <2>3. CASE call[c].op \in {"add", "restore"}
    <3>1. call' = [call EXCEPT ![c].stage = "start"]
      BY <2>3 DEF Flush, Goto, AfterStore
    <3>2. /\ call'[c].op = call[c].op /\ call'[c].id = call[c].id /\ call'[c].stage = "start" /\ call'[c].hash = call[c].hash
          /\ \A d \in Calls \ {c} : call'[d] = call[d]
      BY <3>1, <2>1, CallAfter
    <3> QED
      BY <3>2, <2>3
  <2>4. CASE call[c].op \notin {"add", "restore", "delete"}
    <3>1. Return(c)
      BY <2>4 DEF Flush, AfterStore
    <3> QED
      BY <3>1, <2>1, CallAfter DEF Return
  <2> QED
    BY <2>2, <2>3, <2>4
<1>3. /\ OneCallEach'
      /\ \A j \in Ids, g \in Hashes : Answers(j, g) => Answers(j, g)'
      /\ \A g \in Hashes : Writes(g) => Writes(g)'
  <2>1. \A j \in Ids, g \in Hashes : ~AnswersFor(c, j, g)
    BY <1>1 DEF AnswersFor
  <2> QED
    BY <1>1, <1>2, <2>1, Moving
<1>4. RowsOwned' /\ FileOwned'
  <2>1. RowsOwned
    BY DEF Owned
  <2>2. FileOwned'
    BY <2>1, <1>1 DEF RowsOwned, FileOwned, Has
  <2>3. RowsOwned'
    <3> SUFFICES ASSUME NEW j \in Ids, NEW g \in Hashes, Has(rows, j, g)
                 PROVE  j \in toRestore \/ index[g] = j \/ Answers(j, g)'
      BY <1>1, <2>1 DEF RowsOwned, Has, Answers
    <3> QED
      BY <1>3, OwnedSays
  <2> QED
    BY <2>2, <2>3
<1>5. Indexed'
  <2> SUFFICES ASSUME NEW g \in Hashes, index[g] # None
               PROVE  (g \in torrentFiles \/ Writes(g)') /\ (phase = "restoring" => Has(rows, index[g], g))
    BY <1>1 DEF Indexed, Writes, Has
  <2> QED
    BY <1>3, OwnedSays
<1>6. ASSUME NEW d \in Calls PROVE Relies(d)'
  <2>0. Relies(d)
    BY OwnedSays
  <2>1. CASE d = c
    <3>1. Relies(c) /\ call[c].stage = "flush"
      BY <2>0, <2>1, <1>1
    <3> QED
      BY <3>1, <2>1, <1>1, <1>2 DEF Relies, Has
  <2>2. CASE d # c
    BY <2>0, <2>2, <1>1, <1>2 DEF Relies, Has
  <2> QED
    BY <2>1, <2>2
<1> QED
  BY <1>3, <1>4, <1>5, <1>6 DEF Owned

\* A delete takes the last row of its torrent out.
LEMMA OwnedDeleteRow ==
  ASSUME DbInv, Owned, NEW c \in Calls, DeleteRow(c)
  PROVE  Owned'
<1>h. PICK h, i : h = call[c].hash /\ i = call[c].id
  OBVIOUS
<1>1. /\ call[c].stage = "row" /\ call[c].op = "delete" /\ rows' = [rows EXCEPT ![i] = None]
      /\ UNCHANGED <<phase, file, index, torrentFiles, toRestore>>
      /\ call' = [call EXCEPT ![c].stage = "flush"] \/ Return(c)
  BY <1>h DEF DeleteRow, Goto
<1>2. /\ \A d \in Calls \ {c} : call'[d] = call[d]
      /\ \/ call'[c].op = "" /\ call'[c].hash = None
         \/ call'[c].op = "delete" /\ call'[c].hash = h /\ call'[c].stage = "flush"
  BY <1>h, <1>1, CallAfter DEF DbInv, Stages, Return
<1>3. h \in Hashes /\ i \in Ids
  BY <1>h, <1>1 DEF DbInv, Callers, Proper
<1>4. phase # "restoring" /\ toRestore = {} /\ \A d \in Calls : call[d].op # "restore"
  BY <1>1 DEF DbInv, Restoring
<1>5. rows'[i] = None /\ \A j \in Ids \ {i} : rows'[j] = rows[j]
  BY <1>1, <1>3 DEF DbInv, TypeOK
<1>6. \A j \in Ids, g \in Hashes : Has(rows', j, g) <=> j # i /\ Has(rows, j, g)
  BY <1>5 DEF Has
<1>7. \A d \in Calls \ {c} : call[d].hash # h
  BY <1>1, <1>h, OthersElsewhere
<1>8. index[h] = None
  BY <1>h, <1>1, OwnedSays DEF Relies
<1>9. ASSUME NEW j \in Ids PROVE ~Has(rows', j, h)
  <2> SUFFICES ASSUME Has(rows, j, h) PROVE j = i
    BY <1>3, <1>6
  <2>1. Answers(j, h)
    BY <1>3, <1>4, <1>8, OwnedSays, ConstantsAssumption DEF Ids
  <2> QED
    BY <2>1, <1>h, <1>7 DEF Answers, AnswersFor
<1>10. /\ OneCallEach'
       /\ \A j \in Ids, g \in Hashes : g # h /\ Answers(j, g) => Answers(j, g)'
       /\ \A g \in Hashes : Writes(g) => Writes(g)'
  <2>1. \A j \in Ids, g \in Hashes : g # h => ~AnswersFor(c, j, g)
    BY <1>h DEF AnswersFor
  <2> QED
    BY <1>h, <1>1, <1>2, <2>1, Moving
<1>11. RowsOwned'
  <2>0. RowsOwned
    BY DEF Owned
  <2> SUFFICES ASSUME NEW j \in Ids, NEW g \in Hashes, Has(rows', j, g)
               PROVE  /\ g \in torrentFiles
                      /\ \A l \in Ids : Has(rows', l, g) => l = j
                      /\ j \in toRestore \/ index[g] = j \/ Answers(j, g)'
    BY <1>1 DEF RowsOwned, Has, Answers
  <2>1. g # h /\ Has(rows, j, g)
    BY <1>6, <1>9
  <2>2. \A l \in Ids : Has(rows', l, g) => Has(rows, l, g)
    BY <1>6
  <2>3. j \in toRestore \/ index[g] = j \/ Answers(j, g)'
    BY <2>1, <1>10, OwnedSays
  <2> QED
    BY <2>0, <2>1, <2>2, <2>3 DEF RowsOwned
<1>12. FileOwned'
  BY <1>1 DEF Owned, FileOwned, Has
<1>13. Indexed'
  <2> SUFFICES ASSUME NEW g \in Hashes, index[g] # None
               PROVE  g \in torrentFiles \/ Writes(g)'
    BY <1>1, <1>4 DEF Indexed, Writes, Has
  <2> QED
    BY <1>10, OwnedSays
<1>14. ASSUME NEW d \in Calls PROVE Relies(d)'
  <2>0. Relies(d)
    BY OwnedSays
  <2>1. CASE d = c
    BY <2>1, <1>1, <1>2, <1>8, <1>9 DEF Relies
  <2>2. CASE d # c
    <3>1. call'[d] = call[d] /\ call[d].op # "restore"
      BY <2>2, <1>2, <1>4
    <3>2. call[d].op # "" => call[d].hash \in Hashes
      BY <1>1, OthersElsewhere
    <3>3. call[d].op = "delete" => \A j \in Ids : Has(rows', j, call[d].hash) => Has(rows, j, call[d].hash)
      BY <3>2, <1>6
    <3> QED
      BY <2>0, <3>1, <3>3, <1>1 DEF Relies, Has
  <2> QED
    BY <2>1, <2>2
<1> QED
  BY <1>10, <1>11, <1>12, <1>13, <1>14 DEF Owned

\* The .torrent file goes when neither the rows nor session.json know the torrent.
LEMMA OwnedUnlink ==
  ASSUME DbInv, Owned, NEW c \in Calls, Unlink(c)
  PROVE  Owned'
<1>h. PICK h : h = call[c].hash
  OBVIOUS
<1>1. /\ call[c].stage = "unlink" /\ call[c].op = "delete" /\ torrentFiles' = torrentFiles \ {h} /\ Return(c)
      /\ UNCHANGED <<phase, file, rows, index, toRestore>>
  BY <1>h DEF Unlink, DbInv, Callers, Proper
<1>2. /\ \A d \in Calls \ {c} : call'[d] = call[d]
      /\ call'[c].op = "" /\ call'[c].hash = None
  BY <1>1, CallAfter DEF DbInv, Return
<1>3. h \in Hashes /\ \A d \in Calls \ {c} : call[d].hash # h
  BY <1>1, <1>h, OthersElsewhere
<1>4. index[h] = None /\ \A j \in Ids : ~Has(rows, j, h) /\ ~Has(file.rows, j, h)
  BY <1>h, <1>1, OwnedSays DEF Relies
<1>5. /\ OneCallEach'
      /\ \A j \in Ids, g \in Hashes : Answers(j, g) => Answers(j, g)'
      /\ \A g \in Hashes : Writes(g) => Writes(g)'
  <2>1. \A j \in Ids, g \in Hashes : ~AnswersFor(c, j, g)
    BY <1>1 DEF AnswersFor
  <2> QED
    BY <1>1, <1>2, <2>1, Moving
<1>6. FileOwned'
  <2>1. FileOwned
    BY DEF Owned
  <2> QED
    BY <2>1, <1>1, <1>4 DEF FileOwned, Has
<1>7. RowsOwned'
  <2>0. RowsOwned
    BY DEF Owned
  <2> SUFFICES ASSUME NEW j \in Ids, NEW g \in Hashes, Has(rows, j, g)
               PROVE  g \in torrentFiles' /\ (j \in toRestore \/ index[g] = j \/ Answers(j, g)')
    BY <2>0, <1>1 DEF RowsOwned, Has, Answers
  <2>1. g \in torrentFiles /\ g # h
    BY <2>0, <1>4 DEF RowsOwned
  <2> QED
    BY <2>1, <1>1, <1>5, OwnedSays
<1>8. Indexed'
  <2> SUFFICES ASSUME NEW g \in Hashes, index[g] # None
               PROVE  (g \in torrentFiles' \/ Writes(g)') /\ (phase = "restoring" => Has(rows, index[g], g))
    BY <1>1 DEF Indexed, Writes, Has
  <2> QED
    BY <1>1, <1>4, <1>5, OwnedSays
<1>9. ASSUME NEW d \in Calls PROVE Relies(d)'
  <2>0. Relies(d)
    BY OwnedSays
  <2>1. CASE d = c
    BY <2>1, <1>2 DEF Relies
  <2>2. CASE d # c
    BY <2>0, <2>2, <1>1, <1>2, <1>3 DEF Relies, Has
  <2> QED
    BY <2>1, <2>2
<1> QED
  BY <1>5, <1>6, <1>7, <1>8, <1>9 DEF Owned

\* The bytes of session.json arrive, the process ends, or the next one reads the file.
LEMMA OwnedProcess ==
  ASSUME DbInv, IdInv, Owned, backend = "json", Clean', Written \/ Exit \/ Boot
  PROVE  Owned'
<1>n. None \notin Hashes /\ Idle.hash = None /\ Idle.op = ""
  BY ConstantsAssumption DEF Idle
<1>1. CASE Written
  <2>1. file'.rows = file.rows /\ UNCHANGED <<phase, rows, index, torrentFiles, toRestore, call>>
    BY <1>1 DEF Written, database, DbInv, TypeOK
  <2>2. OneCallEach' /\ RowsOwned' /\ FileOwned' /\ Indexed'
    <3>1. OneCallEach' /\ RowsOwned'
      BY <2>1 DEF Owned, OneCallEach, RowsOwned, AnswersFor, Has
    <3>2. FileOwned' /\ Indexed'
      BY <2>1 DEF Owned, FileOwned, Indexed, Has
    <3> QED
      BY <3>1, <3>2
  <2>3. ASSUME NEW d \in Calls PROVE Relies(d)'
    BY <2>1, OwnedSays DEF Relies, Has
  <2> QED
    BY <2>2, <2>3 DEF Owned
<1>2. CASE Exit
  <2>1. /\ rows' = NoRows /\ index' = [h \in Hashes |-> None] /\ call' = [c \in Calls |-> Idle]
        /\ UNCHANGED torrentFiles /\ (file' = file \/ file' = [rows |-> NoRows, written |-> TRUE])
    BY <1>2 DEF Exit, Clean
  <2>2. \A c \in Calls : call'[c].hash = None /\ call'[c].op = ""
    BY <2>1, <1>n
  <2>3. \A i \in Ids, h \in Hashes : ~Has(rows, i, h)' /\ (Has(file.rows, i, h)' => Has(file.rows, i, h))
    BY <2>1 DEF Has, NoRows
  <2>4. FileOwned'
    <3>1. FileOwned
      BY DEF Owned
    <3> QED
      BY <2>1, <2>3, <3>1 DEF FileOwned
  <2>5. OneCallEach' /\ RowsOwned' /\ Indexed'
    BY <2>1, <2>2, <2>3 DEF OneCallEach, RowsOwned, Indexed
  <2>6. ASSUME NEW d \in Calls PROVE Relies(d)'
    BY <2>2 DEF Relies
  <2> QED
    BY <2>4, <2>5, <2>6 DEF Owned
<1>3. CASE Boot
  <2>1. /\ phase = "down" /\ rows' = file.rows /\ toRestore' = {i \in Ids : rows'[i] # None}
        /\ UNCHANGED <<index, file, torrentFiles, call>>
    BY <1>3 DEF Boot, database
  <2>2. \A h \in Hashes : index[h] = None
    BY <2>1 DEF IdInv, DbInv, Refs, TypeOK
  <2>3. \A c \in Calls : call[c].op = ""
    BY <2>1 DEF DbInv, Restoring
  <2>4. OneCallEach' /\ FileOwned' /\ Indexed'
    BY <2>1, <2>2 DEF Owned, OneCallEach, FileOwned, Indexed, Has
  <2>5. RowsOwned'
    BY <2>1 DEF Owned, FileOwned, RowsOwned, Has
  <2>6. ASSUME NEW d \in Calls PROVE Relies(d)'
    BY <2>1, <2>3 DEF Relies
  <2> QED
    BY <2>4, <2>5, <2>6 DEF Owned
<1> QED
  BY <1>1, <1>2, <1>3

\* The store never changes, and faults are never forgotten.
LEMMA FaultsStay ==
  ASSUME DbInv, Next PROVE backend' = backend /\ faults \subseteq faults'
<1>0. TypeOK
  BY DEF DbInv
<1>1. ASSUME NEW c \in Calls, NEW h \in Hashes, NEW s \in Settings, AddTorrent(c, h, s)
      PROVE  backend' = backend /\ faults \subseteq faults'
  BY <1>0, <1>1, AddBegun
<1>2. ASSUME NEW c \in Calls, NEW i \in Ids, Restore(c, i) PROVE backend' = backend /\ faults \subseteq faults'
  BY <1>0, <1>2, RestoreBegun
<1>3. ASSUME NEW c \in Calls, NEW i \in Ids, Delete(c, i) PROVE backend' = backend /\ faults \subseteq faults'
  BY <1>0, <1>3, DeleteBegun
<1>4. ASSUME NEW c \in Calls, NEW i \in Ids, NEW op \in {"pause", "unpause", "select"}, Change(c, op, i)
      PROVE  backend' = backend /\ faults \subseteq faults'
  BY <1>0, <1>4, ChangeBegun
<1>5. ASSUME NEW c \in Calls, Insert(c) \/ NextId(c) PROVE backend' = backend /\ faults \subseteq faults'
  BY <1>5, Inserted, IdHandedOut
<1>6. ASSUME Exit \/ Boot PROVE backend' = backend /\ faults \subseteq faults'
  BY <1>6 DEF Exit, Boot
<1> QED
  BY <1>1, <1>2, <1>3, <1>4, <1>5, <1>6, RoutineSteps DEF Next, CallStep, Routine

\* Every step without one of the faults of Clean keeps rows and .torrent files together.
LEMMA OwnedStep ==
  ASSUME DbInv, IdInv, Owned, backend = "json", Clean', Next
  PROVE  Owned'
<1>1. ASSUME NEW c \in Calls, Execute(c) \/ FlushFails(c) PROVE FALSE
  BY <1>1 DEF Execute, FlushFails, Clean
<1>2. ASSUME NEW i \in Ids, RestoreFails(i) PROVE FALSE
  BY <1>2 DEF RestoreFails, Clean
<1> QED
  BY <1>1, <1>2, OwnedQuiet, OwnedBegin, OwnedInsert, OwnedSnapshot, OwnedPutRow, OwnedFlush, OwnedDeleteRow,
     OwnedUnlink, OwnedProcess DEF Next, CallStep

\* Every row of session.json has its .torrent file, unless calls about one torrent
\* overlapped, a flush failed, a restore gave up, a .torrent file could not be written or
\* the process ended before its bytes had arrived:
\* JsonSessionPersistenceStore makes the file before the row (update_db) and removes it
\* after the row is off the disk (delete), and a row is only ever brought back by the
\* call that owns its torrent.
THEOREM RowsHaveFiles == Spec => []RowHasTorrentFile
<1>1. Init => FileInv
  <2> SUFFICES ASSUME Init PROVE Owned
    BY DEF FileInv
  <2>1. \A c \in Calls : call[c].hash = None /\ call[c].op = ""
    BY DEF Init, Idle
  <2>2. \A i \in Ids, h \in Hashes : ~Has(rows, i, h) /\ ~Has(file.rows, i, h)
    BY DEF Init, Has, NoRows
  <2>3. OneCallEach /\ RowsOwned /\ FileOwned /\ Indexed
    BY <2>1, <2>2 DEF OneCallEach, RowsOwned, FileOwned, Indexed, Init
  <2>4. \A c \in Calls : Relies(c)
    BY <2>1 DEF Relies
  <2> QED
    BY <2>3, <2>4 DEF Owned
<1>2. DbInv /\ IdInv /\ FileInv /\ [Next /\ Bounded]_vars => FileInv'
  <2>1. ASSUME FileInv, UNCHANGED vars PROVE FileInv'
    <3>1. UNCHANGED <<backend, phase, index, call, rows, file, torrentFiles, toRestore, faults>>
      BY <2>1 DEF vars, database, store, history
    <3>2. Clean' = Clean
      BY <3>1 DEF Clean
    <3>3. Owned => Owned'
      <4>1. ASSUME Owned PROVE OneCallEach' /\ RowsOwned' /\ FileOwned' /\ Indexed'
        BY <3>1, <4>1 DEF Owned, OneCallEach, RowsOwned, FileOwned, Indexed, AnswersFor, Has
      <4>2. ASSUME Owned, NEW c \in Calls PROVE Relies(c)'
        BY <3>1, <4>2 DEF Owned, Relies, Has
      <4> QED
        BY <4>1, <4>2 DEF Owned
    <3> QED
      BY <2>1, <3>1, <3>2, <3>3 DEF FileInv
  <2>2. ASSUME DbInv, IdInv, FileInv, Next PROVE FileInv'
    <3>1. backend' = backend /\ (Clean' => Clean)
      BY <2>2, FaultsStay DEF Clean
    <3> QED
      BY <2>2, <3>1, OwnedStep DEF FileInv
  <2> QED
    BY <2>1, <2>2
<1>3. DbInv /\ FileInv => RowHasTorrentFile
  <2> SUFFICES ASSUME DbInv, FileInv, backend = "json", Clean, NEW i \in Ids, file.rows[i] # None
               PROVE  file.rows[i].hash \in torrentFiles
    BY DEF RowHasTorrentFile, Clean
  <2>1. FileOwned /\ file.rows[i] \in Row
    BY DEF FileInv, Owned, DbInv, TypeOK
  <2>2. PICK h \in Hashes : Has(file.rows, i, h)
    BY <2>1 DEF Has, Row
  <2> QED
    BY <2>1, <2>2 DEF FileOwned, Has
<1> QED
  BY <1>1, <1>2, <1>3, DbInvariant, IdInvariant, PTL DEF Spec

-----------------------------------------------------------------------------
(* What a restart finds *)

\* A table says of a torrent what the user may find: one row with a setting that is
\* expected, or no row when that is expected.
Fits(W, table, h) ==
  /\ \A i, j \in Ids : Has(table, i, h) /\ Has(table, j, h) => i = j
  /\ \A i \in Ids : Has(table, i, h) => table[i].set \in W
  /\ (\A i \in Ids : ~Has(table, i, h)) => None \in W

\* Two tables say the same of a torrent.
SameRows(T, U, h) == \A i \in Ids : Has(T, i, h) \/ Has(U, i, h) => U[i] = T[i]

\* Only a call that has changed the rows and not flushed them makes a difference
\* between them and the store.
Agree(h) == (\A c \in Calls : call[c].hash = h => call[c].stage # "flush") => SameRows(rows, StoredRows, h)

\* A torrent of the session has its row, or its add is about to write it; and a row
\* belongs to a torrent of the session, or to somebody who brings or removes it.
Known(h) ==
  /\ index[h] # None =>
       \/ Has(rows, index[h], h)
       \/ \E c \in Calls : call[c].hash = h /\ call[c].op = "add" /\ call[c].stage \in {"snapshot", "row"}
  /\ \A i \in Ids : Has(rows, i, h) => i \in toRestore \/ index[h] = i \/ Answers(i, h)

\* What a call may count on, by its place.
Counts(c) ==
  LET r == call[c]  h == call[c].hash  i == call[c].id  k == call[c].h IN
  /\ r.stage = "snapshot" => handle[k].set \in wish[h]
  /\ r.stage = "row" /\ r.op # "delete" => r.row.set \in wish[h]
  /\ r.stage = "flush" /\ r.op # "delete" => rows[i] = r.row
  /\ r.stage \in {"row", "flush"} /\ r.op = "add" => r.row.set = handle[k].set
  /\ r.stage = "start" /\ r.op = "add" => Has(rows, i, h) /\ rows[i].set = handle[k].set
  /\ r.op \in {"add", "restore"} /\ r.stage \in {"snapshot", "row", "flush", "start"} => index[h] = i
  /\ r.op \in {"pause", "unpause", "select"} => index[h] = i
  /\ r.op = "delete" => index[h] = None /\ None \in wish[h]
  /\ r.op = "delete" /\ r.stage = "row" => Has(rows, i, h)
  /\ r.op = "restore" => Has(rows, i, h)
  /\ r.op = "add" /\ r.stage \in {"insert", "snapshot", "row"} => rows[i] = None

Kept(h) ==
  /\ Fits(wish[h], StoredRows, h)
  /\ phase # "down" => /\ Fits(wish[h], rows, h) /\ Agree(h) /\ Known(h)
                       /\ \A c \in Calls : call[c].hash = h => Counts(c)

AllKept == DOMAIN wish = Hashes /\ OneCallEach /\ \A h \in Hashes : Kept(h)

KeptInv == faults \subseteq {"torrentFile"} /\ backend # "none" => AllKept

-----------------------------------------------------------------------------

\* More may be expected, and a table that says the same fits as well.
LEMMA FitsStays ==
  ASSUME NEW W, NEW V, NEW T, NEW U, NEW h, W \subseteq V, SameRows(T, U, h), Fits(W, T, h)
  PROVE  Fits(V, U, h)
<1>1. \A i \in Ids : Has(U, i, h) <=> Has(T, i, h)
  BY DEF SameRows, Has
<1>2. \A i \in Ids : Has(U, i, h) => U[i] = T[i]
  BY DEF SameRows
<1> QED
  BY <1>1, <1>2 DEF Fits

\* A table with one row of a torrent that is expected.
LEMMA FitsOne ==
  ASSUME NEW W, NEW T, NEW h, NEW i, \A j \in Ids : Has(T, j, h) <=> j = i, i \in Ids, T[i].set \in W
  PROVE  Fits(W, T, h)
<1>1. \A j \in Ids : Has(T, j, h) => j = i
  OBVIOUS
<1>2. Has(T, i, h)
  OBVIOUS
<1> QED
  BY <1>1, <1>2 DEF Fits

\* A torrent about which nothing happens is kept.
LEMMA Elsewhere ==
  ASSUME DbInv, NEW g \in Hashes, Kept(g), phase # "down", phase' # "down",
         wish'[g] = wish[g], index'[g] = index[g],
         SameRows(rows, rows', g), SameRows(StoredRows, StoredRows', g) \/ StoredRows' = rows',
         \A i \in toRestore : Has(rows, i, g) => i \in toRestore',
         \A d \in Calls : call[d].hash = g \/ call'[d].hash = g => call'[d] = call[d],
         \A d \in Calls : call[d].hash = g /\ call[d].h # None => handle'[call[d].h].set = handle[call[d].h].set,
         \A d \in Calls : call[d].hash = g /\ call[d].op = "add" /\ call[d].stage \in {"insert", "snapshot", "row"}
                            => rows'[call[d].id] = None
  PROVE  Kept(g)'
<1>1. /\ Fits(wish[g], StoredRows, g) /\ Fits(wish[g], rows, g) /\ Agree(g) /\ Known(g)
      /\ \A c \in Calls : call[c].hash = g => Counts(c)
  BY DEF Kept
<1>2. Fits(wish[g], StoredRows, g)' /\ Fits(wish[g], rows, g)'
  <2>1. Fits(wish[g], rows, g)'
    BY <1>1, FitsStays
  <2>2. Fits(wish[g], StoredRows, g)'
    BY <1>1, <2>1, FitsStays
  <2> QED
    BY <2>1, <2>2
<1>3. \A i \in Ids : /\ Has(rows, i, g)' <=> Has(rows, i, g)
                     /\ Has(rows, i, g) => rows'[i] = rows[i]
  BY DEF SameRows, Has
<1>4. Agree(g)'
  <2> SUFFICES ASSUME \A c \in Calls : call'[c].hash = g => call'[c].stage # "flush" PROVE SameRows(rows, StoredRows, g)'
    BY DEF Agree
  <2>1. SameRows(rows, StoredRows, g)
    BY <1>1 DEF Agree
  <2>2. CASE StoredRows' = rows'
    BY <2>2 DEF SameRows
  <2>3. CASE SameRows(StoredRows, StoredRows', g)
    <3>0. \A i \in Ids : /\ Has(StoredRows, i, g)' <=> Has(StoredRows, i, g)
                         /\ Has(StoredRows, i, g) => StoredRows'[i] = StoredRows[i]
      BY <2>3 DEF SameRows, Has
    <3>1. ASSUME NEW i \in Ids, Has(rows, i, g)' \/ Has(StoredRows, i, g)' PROVE StoredRows'[i] = rows'[i]
      <4>1. StoredRows[i] = rows[i] /\ Has(rows, i, g) /\ Has(StoredRows, i, g)
        BY <1>3, <2>1, <3>0, <3>1 DEF SameRows, Has
      <4> QED
        BY <1>3, <3>0, <4>1
    <3> QED
      BY <3>1 DEF SameRows
  <2> QED
    BY <2>2, <2>3
<1>5. Known(g)'
  <2>1. index'[g] # None =>
          \/ Has(rows, index[g], g)'
          \/ \E c \in Calls : call'[c].hash = g /\ call'[c].op = "add" /\ call'[c].stage \in {"snapshot", "row"}
    <3>1. index[g] # None => index[g] \in Ids
      BY DEF DbInv, TypeOK
    <3>2. index[g] # None =>
            \/ Has(rows, index[g], g)
            \/ \E c \in Calls : call[c].hash = g /\ call[c].op = "add" /\ call[c].stage \in {"snapshot", "row"}
      BY <1>1 DEF Known
    <3> QED
      BY <1>3, <3>1, <3>2 DEF Has
  <2>2. ASSUME NEW i \in Ids, Has(rows, i, g)' PROVE i \in toRestore' \/ index'[g] = i \/ Answers(i, g)'
    <3>1. i \in toRestore \/ index[g] = i \/ Answers(i, g)
      BY <1>1, <1>3, <2>2 DEF Known
    <3>2. ASSUME Answers(i, g) PROVE Answers(i, g)'
      BY <3>2 DEF Answers, AnswersFor
    <3> QED
      BY <1>3, <2>2, <3>1, <3>2
  <2> QED
    BY <2>1, <2>2 DEF Known
<1>6. ASSUME NEW c \in Calls, call'[c].hash = g PROVE Counts(c)'
  <2>1. call'[c] = call[c] /\ call[c].hash = g /\ Counts(c) /\ Proper(call[c])
    BY <1>1, <1>6 DEF DbInv, Callers
  <2>2. call[c].stage \in {"snapshot", "row", "flush", "start"} =>
          handle'[call[c].h].set = handle[call[c].h].set /\ call[c].id \in Ids
    BY <2>1 DEF Proper
  <2>3. call[c].stage = "flush" /\ call[c].op # "delete" => Has(rows, call[c].id, g)
    BY <2>1, NoneAssumption DEF Counts, Proper, Has
  <2>4. call[c].op = "restore" \/ (call[c].op = "delete" /\ call[c].stage = "row") \/ (call[c].op = "add" /\ call[c].stage = "start")
          => Has(rows, call[c].id, g) /\ call[c].id \in Ids
    <3>1. call[c].op = "restore" => call[c].id \in Ids
      <4>1. Idle.op = ""
        BY DEF Idle
      <4> QED
        BY <2>1, <4>1 DEF Proper
    <3> QED
      BY <2>1, <3>1 DEF Counts, Proper
  <2>5. call[c].op = "restore" \/ (call[c].op = "delete" /\ call[c].stage = "row") \/ (call[c].op = "add" /\ call[c].stage = "start")
          => Has(rows', call[c].id, g) /\ rows'[call[c].id] = rows[call[c].id]
    BY <1>3, <2>4 DEF Has
  <2>6. call[c].stage = "flush" /\ call[c].op # "delete" => rows'[call[c].id] = rows[call[c].id]
    BY <1>3, <2>2, <2>3
  <2>7. call[c].op = "add" /\ call[c].stage \in {"insert", "snapshot", "row"} => rows'[call[c].id] = None
    BY <2>1
  <2> QED
    BY <2>1, <2>2, <2>5, <2>6, <2>7 DEF Counts
<1> QED
  BY <1>2, <1>4, <1>5, <1>6 DEF Kept

\* A step of the call c about h that leaves the store alone: what is to be shown is what
\* it does to h.
LEMMA StillStep ==
  ASSUME DbInv, AllKept, NEW c \in Calls, NEW h \in Hashes, phase # "down", phase' = phase, backend' = backend,
         rows' = rows, file' = file, DOMAIN wish' = Hashes,
         \A d \in Calls \ {c} : call'[d] = call[d] /\ call[d].hash # h,
         call[c].hash \in {h, None}, call'[c].hash \in {h, None}, call[c].stage # "flush",
         \A g \in Hashes \ {h} : wish'[g] = wish[g] /\ index'[g] = index[g],
         \A i \in toRestore : ~Has(rows, i, h) => i \in toRestore',
         \A d \in Calls \ {c} : call[d].h # None => handle'[call[d].h].set = handle[call[d].h].set,
         Fits(wish'[h], rows, h), Fits(wish'[h], StoredRows, h), Known(h)', call'[c].hash = h => Counts(c)'
  PROVE  AllKept'
<1>n. None \notin Hashes
  BY ConstantsAssumption
<1>1. StoredRows' = StoredRows
  BY DEF StoredRows
<1>2. OneCallEach'
  BY DEF AllKept, OneCallEach
<1>3. ASSUME NEW g \in Hashes \ {h} PROVE Kept(g)'
  <2>1. SameRows(rows, rows', g) /\ SameRows(StoredRows, StoredRows', g)
    BY <1>1 DEF SameRows
  <2>2. \A i \in toRestore : Has(rows, i, g) => i \in toRestore'
    BY DEF Has
  <2>3. \A d \in Calls : call[d].hash = g \/ call'[d].hash = g => d # c /\ call'[d] = call[d] /\ call[d].hash = g
    BY <1>n
  <2>4. \A d \in Calls : call[d].hash = g /\ call[d].h # None => handle'[call[d].h].set = handle[call[d].h].set
    BY <2>3
  <2>5. Kept(g)
    BY DEF AllKept
  <2>6. \A d \in Calls : call[d].hash = g /\ call[d].op = "add" /\ call[d].stage \in {"insert", "snapshot", "row"}
                           => rows'[call[d].id] = None
    BY <2>5 DEF Kept, Counts
  <2> QED
    BY <2>1, <2>2, <2>3, <2>4, <2>5, <2>6, Elsewhere
<1>4. Kept(h)'
  <2>1. SameRows(rows, StoredRows, h)
    <3>1. Agree(h)
      BY DEF AllKept, Kept
    <3>2. \A d \in Calls : call[d].hash = h => call[d].stage # "flush"
      OBVIOUS
    <3> QED
      BY <3>1, <3>2 DEF Agree
  <2>2. Agree(h)'
    BY <1>1, <2>1 DEF Agree, SameRows
  <2>3. \A d \in Calls : call'[d].hash = h => Counts(d)'
    BY <1>n
  <2> QED
    BY <1>1, <2>2, <2>3 DEF Kept
<1> QED
  BY <1>2, <1>3, <1>4 DEF AllKept

\* Among the calls at work one only is about a given torrent, and the table and the
\* index follow it.
LEMMA AloneWith ==
  ASSUME DbInv, AllKept, NEW c \in Calls, call[c].stage # "idle"
  PROVE  /\ call[c].hash \in Hashes /\ call[c].op \in Ops /\ phase # "down"
         /\ \A d \in Calls \ {c} : call[d].hash # call[c].hash
         /\ Kept(call[c].hash) /\ Counts(c)
         /\ Fits(wish[call[c].hash], rows, call[c].hash) /\ Fits(wish[call[c].hash], StoredRows, call[c].hash)
         /\ Known(call[c].hash) /\ Agree(call[c].hash)
<1>1. None \notin Hashes /\ "" \notin Ops
  BY ConstantsAssumption DEF Ops
<1>2. call[c].hash \in Hashes /\ call[c].op \in Ops
  BY DEF DbInv, Callers, Proper
<1>3. phase # "down"
  BY <1>1, <1>2 DEF DbInv, Restoring
<1>4. \A d \in Calls \ {c} : call[d].hash # call[c].hash
  BY <1>1, <1>2 DEF AllKept, OneCallEach
<1>5. Kept(call[c].hash)
  BY <1>2 DEF AllKept
<1>6. Counts(c)
  BY <1>3, <1>5 DEF Kept
<1> QED
  BY <1>2, <1>3, <1>4, <1>5, <1>6 DEF Kept

\* A call that returns takes no torrent away from another call.
LEMMA ReturnKeeps ==
  ASSUME DbInv, NEW c \in Calls, NEW table, ReturnWith(c, table)
  PROVE  \A d \in Calls \ {c} : call[d].h # None => handle'[call[d].h] = handle[call[d].h]
<1> SUFFICES ASSUME NEW d \in Calls \ {c}, call[d].h # None PROVE handle'[call[d].h] = handle[call[d].h]
  OBVIOUS
<1>1. handle \in [Handles -> Torrent \cup {None}] /\ call[d].h \in Handles
  BY DEF DbInv, TypeOK, CallState
<1>2. handle' = handle \/ (handle' = [handle EXCEPT ![call[c].h] = None] /\ \A e \in Calls \ {c} : call[e].h # call[c].h)
  BY DEF ReturnWith
<1> QED
  BY <1>1, <1>2

\* Nothing that the call answers for or writes changes what is known of its torrent.
LEMMA KnownStays ==
  ASSUME NEW c \in Calls, NEW h \in Hashes, Known(h), rows' = rows, index'[h] = index[h],
         \A i \in Ids : Has(rows, i, h) /\ i \in toRestore => i \in toRestore' \/ Answers(i, h)',
         \A d \in Calls \ {c} : call'[d] = call[d],
         call[c].hash = h /\ call[c].op = "add" /\ call[c].stage \in {"snapshot", "row"} =>
           call'[c].hash = h /\ call'[c].op = "add" /\ call'[c].stage \in {"snapshot", "row"},
         \A i \in Ids : AnswersFor(c, i, h) => index[h] = i
  PROVE  Known(h)'
<1>1. index[h] # None =>
       \/ Has(rows, index[h], h)
       \/ \E d \in Calls : call'[d].hash = h /\ call'[d].op = "add" /\ call'[d].stage \in {"snapshot", "row"}
  BY DEF Known
<1>2. ASSUME NEW i \in Ids, Has(rows, i, h) PROVE i \in toRestore' \/ index[h] = i \/ Answers(i, h)'
  <2>1. i \in toRestore \/ index[h] = i \/ Answers(i, h)
    BY <1>2 DEF Known
  <2>2. ASSUME Answers(i, h) PROVE index[h] = i \/ Answers(i, h)'
    <3>1. PICK d \in Calls : AnswersFor(d, i, h)
      BY <2>2 DEF Answers
    <3>2. CASE d = c
      BY <3>1, <3>2
    <3>3. CASE d # c
      <4>1. AnswersFor(d, i, h)'
        BY <3>1, <3>3 DEF AnswersFor
      <4> QED
        BY <4>1 DEF Answers
    <3> QED
      BY <3>2, <3>3
  <2> QED
    BY <1>2, <2>1, <2>2
<1> QED
  BY <1>1, <1>2 DEF Known, Has

\* A call that is about to begin is about nothing, and nobody else is about its torrent.
LEMMA FreshCall ==
  ASSUME DbInv, NEW c \in Calls, call[c].stage = "idle"
  PROVE  call[c].hash = None /\ call[c].op = "" /\ call[c].h = None
<1>1. Idle.hash = None /\ Idle.op = "" /\ Idle.h = None
  BY DEF Idle
<1> QED
  BY <1>1 DEF DbInv, Callers, Proper

\* Adding begins.
LEMMA KeptAdd ==
  ASSUME DbInv, AllKept, "sameTorrent" \notin faults', NEW c \in Calls, NEW h \in Hashes, NEW s \in Settings, AddTorrent(c, h, s)
  PROVE  AllKept'
<1>n. None \notin Hashes
  BY ConstantsAssumption
<1>1. /\ call'[c].op = "add" /\ call'[c].stage = "id" /\ call'[c].hash = h /\ phase \in {"up", "stopping"}
      /\ UNCHANGED <<backend, phase, index, handle, rows, file, toRestore, wish>>
      /\ \A d \in Calls \ {c} : call'[d] = call[d] /\ call[d].hash # h
      /\ call[c].stage = "idle"
  BY AddBegun DEF DbInv
<1>2. call[c].hash = None /\ call[c].op = ""
  BY <1>1, FreshCall
<1>3. phase # "down" /\ Fits(wish'[h], rows, h) /\ Fits(wish'[h], StoredRows, h) /\ Known(h) /\ DOMAIN wish' = Hashes
  BY <1>1 DEF AllKept, Kept
<1>4. Known(h)'
  BY <1>n, <1>1, <1>2, <1>3, KnownStays DEF AnswersFor
<1>5. Counts(c)'
  BY <1>1 DEF Counts
<1> QED
  BY <1>1, <1>2, <1>3, <1>4, <1>5, StillStep

\* A change of a torrent begins.
LEMMA KeptChange ==
  ASSUME DbInv, AllKept, "sameTorrent" \notin faults', NEW c \in Calls, NEW i \in Ids, NEW op \in {"pause", "unpause", "select"}, Change(c, op, i)
  PROVE  AllKept'
<1>n. None \notin Hashes
  BY ConstantsAssumption
<1>h. PICK h : h = handle[torrents[i]].hash
  OBVIOUS
<1>1. /\ call'[c].op = op /\ call'[c].stage = "apply" /\ call'[c].hash = h /\ call'[c].id = i /\ torrents[i] # None
      /\ UNCHANGED <<backend, phase, index, handle, rows, file, toRestore, wish>> /\ phase \in {"up", "stopping"}
      /\ \A d \in Calls \ {c} : call'[d] = call[d] /\ call[d].hash # h
      /\ call[c].stage = "idle"
  BY <1>h, ChangeBegun DEF DbInv
<1>2. call[c].hash = None /\ call[c].op = ""
  BY <1>1, FreshCall
<1>3. h \in Hashes /\ index[h] = i
  <2>1. torrents[i] \in Handles /\ handle[torrents[i]] # None /\ index[handle[torrents[i]].hash] = i
    BY <1>1 DEF DbInv, Refs, TypeOK
  <2>2. handle[torrents[i]] \in Torrent
    BY <2>1 DEF DbInv, TypeOK
  <2> QED
    BY <1>h, <2>1, <2>2 DEF Torrent
<1>4. phase # "down" /\ Fits(wish'[h], rows, h) /\ Fits(wish'[h], StoredRows, h) /\ Known(h) /\ DOMAIN wish' = Hashes
  BY <1>1, <1>3 DEF AllKept, Kept
<1>5. Known(h)'
  BY <1>n, <1>1, <1>2, <1>3, <1>4, KnownStays DEF AnswersFor
<1>6. Counts(c)'
  BY <1>1, <1>3 DEF Counts
<1> QED
  BY <1>1, <1>2, <1>3, <1>4, <1>5, <1>6, StillStep

\* The restore of a row begins.
LEMMA KeptRestore ==
  ASSUME DbInv, AllKept, "sameTorrent" \notin faults', NEW c \in Calls, NEW i \in Ids, Restore(c, i)
  PROVE  AllKept'
<1>n. None \notin Hashes
  BY ConstantsAssumption
<1>h. PICK h : h = rows[i].hash
  OBVIOUS
<1>1. /\ call'[c].op = "restore" /\ call'[c].stage = "insert" /\ call'[c].hash = h /\ call'[c].id = i
      /\ i \in toRestore /\ toRestore' = toRestore \ {i} /\ phase = "restoring"
      /\ UNCHANGED <<backend, phase, index, handle, rows, file, wish>>
      /\ \A d \in Calls \ {c} : call'[d] = call[d] /\ call[d].hash # h
      /\ call[c].stage = "idle"
  BY <1>h, RestoreBegun DEF DbInv
<1>2. call[c].hash = None /\ call[c].op = ""
  BY <1>1, FreshCall
<1>3. h \in Hashes /\ Has(rows, i, h)
  <2>1. rows[i] # None
    BY <1>1 DEF DbInv, Restoring
  <2>2. rows[i] \in Row
    BY <2>1 DEF DbInv, TypeOK
  <2> QED
    BY <1>h, <2>1, <2>2 DEF Row, Has
<1>4. phase # "down" /\ Fits(wish'[h], rows, h) /\ Fits(wish'[h], StoredRows, h) /\ Known(h) /\ DOMAIN wish' = Hashes
  BY <1>1, <1>3 DEF AllKept, Kept
<1>5. Answers(i, h)'
  BY <1>1 DEF Answers, AnswersFor
<1>6. Known(h)'
  <2>1. \A j \in Ids : Has(rows, j, h) /\ j \in toRestore => j \in toRestore' \/ Answers(j, h)'
    BY <1>1, <1>5
  <2> QED
    BY <1>n, <1>1, <1>2, <1>3, <1>4, <2>1, KnownStays DEF AnswersFor
<1>7. Counts(c)'
  BY <1>1, <1>3 DEF Counts
<1>8. \A j \in toRestore : ~Has(rows, j, h) => j \in toRestore'
  BY <1>1, <1>3
<1> QED
  BY <1>1, <1>2, <1>3, <1>4, <1>6, <1>7, <1>8, StillStep

\* A delete begins: the torrent leaves the session, and its row is to go.
LEMMA KeptDelete ==
  ASSUME DbInv, AllKept, backend # "none", "sameTorrent" \notin faults', NEW c \in Calls, NEW i \in Ids, Delete(c, i)
  PROVE  AllKept'
<1>n. None \notin Hashes /\ None \notin Ids
  BY ConstantsAssumption DEF Ids
<1>h. PICK h, k : h = handle[torrents[i]].hash /\ k = torrents[i]
  OBVIOUS
<1>1. /\ call'[c].op = "delete" /\ call'[c].stage = "row" /\ call'[c].hash = h /\ call'[c].id = i /\ torrents[i] # None
      /\ UNCHANGED <<backend, phase, rows, file, toRestore>> /\ phase \in {"up", "stopping"}
      /\ \A d \in Calls \ {c} : call'[d] = call[d] /\ call[d].hash # h
      /\ call[c].stage = "idle" /\ DbRemove(i)
  BY <1>h, DeleteBegun DEF DbInv
<1>2. call[c].hash = None /\ call[c].op = ""
  BY <1>1, FreshCall
<1>3. h \in Hashes /\ index[h] = i /\ k \in Handles
  <2>1. torrents[i] \in Handles /\ handle[torrents[i]] # None /\ index[handle[torrents[i]].hash] = i
    BY <1>1 DEF DbInv, Refs, TypeOK
  <2>2. handle[torrents[i]] \in Torrent
    BY <2>1 DEF DbInv, TypeOK
  <2> QED
    BY <1>h, <2>1, <2>2 DEF Torrent
<1>4. index'[h] = None /\ \A g \in Hashes \ {h} : index'[g] = index[g]
  <2>1. index' = [index EXCEPT ![h] = None] /\ index \in [Hashes -> Ids \cup {None}]
    BY <1>1, <1>h DEF DbRemove, DbInv, TypeOK
  <2> QED
    BY <1>3, <2>1
<1>5. DOMAIN wish' = Hashes /\ wish'[h] = wish[h] \cup {None} /\ \A g \in Hashes \ {h} : wish'[g] = wish[g]
  <2>1. wish' = [wish EXCEPT ![h] = @ \cup {None}] /\ DOMAIN wish = Hashes
    BY <1>h DEF Delete, MayBecome, AllKept
  <2> QED
    BY <1>3, <2>1
<1>6. phase # "down" /\ Fits(wish[h], rows, h) /\ Fits(wish[h], StoredRows, h) /\ Known(h)
  BY <1>1, <1>3 DEF AllKept, Kept
<1>7. Fits(wish'[h], rows, h) /\ Fits(wish'[h], StoredRows, h)
  BY <1>5, <1>6, FitsStays DEF SameRows
<1>8. ASSUME NEW d \in Calls \ {c}, call[d].h # None PROVE handle'[call[d].h].set = handle[call[d].h].set
  <2>1. call[d] \in CallState /\ d \in Calls /\ call[d].hash # h
    BY <1>1, <1>8 DEF DbInv, TypeOK
  <2>2. call[d].h \in Handles
    BY <1>8, <2>1 DEF CallState
  <2>3. handle[call[d].h].hash = call[d].hash /\ call[d].hash # h /\ call[d].h \in Handles
    BY <1>8, <2>1, <2>2 DEF DbInv, Refs
  <2>4. call[d].h # k
    BY <1>h, <2>3
  <2>5. \A l \in Handles : l # k => handle'[l] = handle[l]
    BY <1>h DEF Delete, DbInv, TypeOK
  <2> QED
    BY <2>3, <2>4, <2>5
<1>9. \A d \in Calls : call[d].hash # h
  BY <1>n, <1>1, <1>2, <1>3
<1>10. Has(rows, i, h)
  BY <1>n, <1>3, <1>6, <1>9 DEF Known
<1>11. Answers(i, h)'
  BY <1>1 DEF Answers, AnswersFor
<1>12. Known(h)'
  <2>1. ASSUME NEW j \in Ids, Has(rows, j, h)' PROVE Answers(j, h)'
    <3>1. j = i
      BY <1>1, <1>6, <1>10, <2>1 DEF Fits, Has
    <3> QED
      BY <1>11, <3>1
  <2> QED
    BY <1>4, <2>1 DEF Known
<1>13. Counts(c)'
  BY <1>1, <1>4, <1>5, <1>10 DEF Counts, Has
<1> QED
  BY <1>1, <1>2, <1>3, <1>4, <1>5, <1>6, <1>7, <1>8, <1>12, <1>13, StillStep

\* A call gives up, or is refused, or gets its id.
LEMMA KeptFails ==
  ASSUME DbInv, AllKept, NEW c \in Calls, Fails(c)
  PROVE  AllKept'
<1>h. PICK h : h = call[c].hash
  OBVIOUS
<1>1. call[c].stage \in {"id", "failed"} /\ ReturnWith(c, torrents) /\ UNCHANGED <<backend, phase, index, rows, file, toRestore, wish>>
  BY DEF Fails, Return, store, history
<1>2. call'[c].hash = None /\ \A d \in Calls \ {c} : call'[d] = call[d]
  BY <1>1, CallAfter DEF DbInv
<1>3. /\ h \in Hashes /\ phase # "down" /\ \A d \in Calls \ {c} : call[d].hash # h
      /\ Fits(wish[h], rows, h) /\ Fits(wish[h], StoredRows, h) /\ Known(h)
  BY <1>h, <1>1, AloneWith
<1>4. \A d \in Calls \ {c} : call[d].h # None => handle'[call[d].h].set = handle[call[d].h].set
  BY <1>1, ReturnKeeps
<1>5. Known(h)'
  BY <1>1, <1>2, <1>3, KnownStays DEF AnswersFor
<1>6. call'[c].hash # h /\ DOMAIN wish' = Hashes
  BY <1>1, <1>2, <1>3, ConstantsAssumption DEF AllKept
<1> QED
  BY <1>h, <1>1, <1>2, <1>3, <1>4, <1>5, <1>6, StillStep

\* An add is told its id, which no row has.
LEMMA KeptNextId ==
  ASSUME DbInv, IdInv, AllKept, NEW c \in Calls, NextId(c)
  PROVE  AllKept'
<1>h. PICK h : h = call[c].hash
  OBVIOUS
<1>1. /\ call'[c].op = "add" /\ call[c].op = "add" /\ call'[c].stage = "insert" /\ call'[c].hash = h /\ call'[c].id \in Ids
      /\ call[c].stage = "id" /\ \A d \in Calls \ {c} : call'[d] = call[d]
      /\ backend = "json" => rows[call'[c].id] = None
      /\ backend # "json" => call'[c].id = counter
      /\ UNCHANGED <<backend, phase, index, handle, rows, file, toRestore, wish>>
  BY <1>h, IdHandedOut
<1>2. rows[call'[c].id] = None
  <2>1. CASE backend # "json"
    <3>1. counter \in Ids /\ (rows[counter] # None => counter < counter)
      BY <1>1, <2>1 DEF IdInv, CounterAhead
    <3> QED
      BY <1>1, <2>1, <3>1 DEF Ids
  <2> QED
    BY <1>1, <2>1
<1>3. /\ h \in Hashes /\ phase # "down" /\ \A d \in Calls \ {c} : call[d].hash # h
      /\ Fits(wish[h], rows, h) /\ Fits(wish[h], StoredRows, h) /\ Known(h)
  BY <1>h, <1>1, AloneWith
<1>4. Known(h)'
  BY <1>1, <1>3, KnownStays DEF AnswersFor
<1>5. Counts(c)' /\ DOMAIN wish' = Hashes
  BY <1>1, <1>2 DEF Counts, AllKept
<1> QED
  BY <1>h, <1>1, <1>3, <1>4, <1>5, StillStep

\* The torrent is there already.
LEMMA KeptAlready ==
  ASSUME DbInv, IdInv, AllKept, "sameId" \notin faults, NEW c \in Calls, AlreadyManaged(c)
  PROVE  AllKept'
<1>n. None \notin Ids /\ None \notin Hashes /\ None \notin Settings
  BY ConstantsAssumption, NoneAssumption DEF Ids
<1>h. PICK h, i : h = call[c].hash /\ i = call[c].id
  OBVIOUS
<1>1. /\ call[c].stage = "insert" /\ ReturnWith(c, torrents) /\ UNCHANGED <<backend, phase, index, rows, file, toRestore>>
      /\ torrents[i] # None \/ index[h] # None
      /\ wish' = IF call[c].op = "add" THEN [wish EXCEPT ![h] = @ \ {None}] ELSE wish
  BY <1>h DEF AlreadyManaged, Return, store
<1>2. call'[c].hash = None /\ \A d \in Calls \ {c} : call'[d] = call[d]
  BY <1>1, CallAfter DEF DbInv
<1>3. /\ h \in Hashes /\ phase # "down" /\ \A d \in Calls \ {c} : call[d].hash # h
      /\ Fits(wish[h], rows, h) /\ Fits(wish[h], StoredRows, h) /\ Known(h) /\ Agree(h) /\ Counts(c)
  BY <1>h, <1>1, AloneWith
<1>4. \A d \in Calls \ {c} : call[d].h # None => handle'[call[d].h].set = handle[call[d].h].set
  BY <1>1, ReturnKeeps
<1>5. call[c].op \in {"add", "restore"} /\ i \in Ids
  BY <1>h, <1>1 DEF DbInv, Callers, Proper
<1>6. index[h] # None => Has(rows, index[h], h) /\ index[h] \in Ids
  <2>1. index[h] # None => index[h] \in Ids
    BY <1>3 DEF DbInv, TypeOK
  <2>2. ~ \E d \in Calls : call[d].hash = h /\ call[d].op = "add" /\ call[d].stage \in {"snapshot", "row"}
    BY <1>1, <1>3
  <2> QED
    BY <1>3, <2>1, <2>2 DEF Known
<1>7. call[c].op = "add" => index[h] # None
  <2>1. call[c].op = "add" => torrents[i] = None
    BY <1>h, <1>1 DEF IdInv, OneAdd
  <2> QED
    BY <1>1, <2>1
<1>8. call[c].op = "restore" => index[h] = i
  <2> SUFFICES ASSUME call[c].op = "restore" PROVE index[h] = i
    OBVIOUS
  <2>1. Has(rows, i, h)
    BY <1>h, <1>3 DEF Counts
  <2>2. CASE index[h] # None
    BY <1>3, <1>5, <1>6, <2>1, <2>2 DEF Fits
  <2>3. CASE torrents[i] # None
    <3>1. PICK g : g = handle[torrents[i]].hash
      OBVIOUS
    <3>2. index[g] = i /\ g \in Hashes
      <4>1. torrents[i] \in Handles /\ handle[torrents[i]] # None
        BY <1>5, <2>3 DEF DbInv, Refs, TypeOK
      <4>2. handle[torrents[i]] \in Torrent
        BY <4>1 DEF DbInv, TypeOK
      <4> QED
        BY <1>5, <2>3, <3>1, <4>2 DEF DbInv, Refs, Torrent
    <3>3. \A d \in Calls : call[d].op # "add"
      BY DEF DbInv, Restoring
    <3>4. Known(g)
      BY <1>3, <3>2 DEF AllKept, Kept
    <3>5. Has(rows, i, g)
      BY <1>n, <1>5, <3>2, <3>3, <3>4 DEF Known
    <3> QED
      BY <2>1, <3>2, <3>5 DEF Has
  <2> QED
    BY <1>1, <2>2, <2>3
<1>9. Known(h)'
  BY <1>h, <1>1, <1>2, <1>3, <1>8, KnownStays DEF AnswersFor
<1>10. DOMAIN wish = Hashes
  BY DEF AllKept
<1>11. /\ DOMAIN wish' = Hashes /\ \A g \in Hashes \ {h} : wish'[g] = wish[g]
       /\ call[c].op = "add" => wish'[h] = wish[h] \ {None}
       /\ call[c].op # "add" => wish'[h] = wish[h]
  BY <1>1, <1>3, <1>10
<1>12. Fits(wish'[h], rows, h) /\ Fits(wish'[h], StoredRows, h)
  <2>1. CASE call[c].op # "add"
    BY <1>3, <1>11, <2>1
  <2>2. CASE call[c].op = "add"
    <3>1. SameRows(rows, StoredRows, h)
      BY <1>1, <1>3 DEF Agree
    <3>2. Has(rows, index[h], h) /\ Has(StoredRows, index[h], h) /\ index[h] \in Ids
      BY <1>6, <1>7, <2>2, <3>1 DEF SameRows, Has
    <3>3. \A j \in Ids : (Has(rows, j, h) => rows[j].set # None) /\ (Has(StoredRows, j, h) => StoredRows[j].set # None)
      <4>1. rows \in [Ids -> Row \cup {None}] /\ StoredRows \in [Ids -> Row \cup {None}]
        BY DEF DbInv, TypeOK, StoredRows
      <4> QED
        BY <1>n, <4>1 DEF Has, Row
    <3> QED
      BY <1>3, <1>11, <2>2, <3>2, <3>3 DEF Fits
  <2> QED
    BY <2>1, <2>2
<1>13. call'[c].hash # h
  BY <1>n, <1>2, <1>3
<1> QED
  BY <1>h, <1>1, <1>2, <1>3, <1>4, <1>9, <1>11, <1>12, <1>13, StillStep

\* A torrent enters the session, and is about to be stored.
LEMMA KeptInsert ==
  ASSUME DbInv, AllKept, backend # "none", NEW c \in Calls, Insert(c)
  PROVE  AllKept'
<1>n. None \notin Ids
  BY ConstantsAssumption DEF Ids
<1>h. PICK h, i, k : h = call[c].hash /\ i = call[c].id /\ k = call'[c].h
  OBVIOUS
<1>1. /\ call'[c].op = call[c].op /\ call'[c].id = i /\ call'[c].hash = h /\ call'[c].stage = "snapshot"
      /\ call[c].stage = "insert" /\ i \in Ids /\ call[c].op \in {"add", "restore"}
      /\ handle[k] = None /\ handle'[k].set = call[c].row /\ \A l \in Handles : l # k => handle'[l] = handle[l]
      /\ \A d \in Calls \ {c} : call'[d] = call[d]
      /\ index[h] = None /\ index'[h] = i /\ \A g \in Hashes \ {h} : index'[g] = index[g]
      /\ UNCHANGED <<backend, phase, rows, file, toRestore>>
      /\ wish' = [wish EXCEPT ![h] = wish[h] \cup {call[c].row}]
  BY <1>h, Inserted
<1>2. /\ h \in Hashes /\ phase # "down" /\ \A d \in Calls \ {c} : call[d].hash # h
      /\ Fits(wish[h], rows, h) /\ Fits(wish[h], StoredRows, h) /\ Known(h) /\ Counts(c)
  BY <1>h, <1>1, AloneWith
<1>3. DOMAIN wish' = Hashes /\ wish'[h] = wish[h] \cup {call[c].row} /\ \A g \in Hashes \ {h} : wish'[g] = wish[g]
  BY <1>1, <1>2 DEF AllKept
<1>4. Fits(wish'[h], rows, h) /\ Fits(wish'[h], StoredRows, h)
  BY <1>2, <1>3, FitsStays DEF SameRows
<1>5. \A d \in Calls \ {c} : call[d].h # None => handle'[call[d].h].set = handle[call[d].h].set
  <2>1. \A d \in Calls : call[d].h # None => call[d].h \in Handles
    BY DEF DbInv, TypeOK, CallState
  <2>2. \A d \in Calls : call[d].h # None => handle[call[d].h] # None
    BY DEF DbInv, Refs
  <2> QED
    BY <1>1, <2>1, <2>2
<1>6. call[c].op = "restore" => Has(rows, i, h)
  BY <1>h, <1>2 DEF Counts
<1>7. Known(h)'
  <2>1. Has(rows, i, h) \/ \E d \in Calls : call'[d].hash = h /\ call'[d].op = "add" /\ call'[d].stage \in {"snapshot", "row"}
    BY <1>1, <1>6
  <2>2. ASSUME NEW j \in Ids, Has(rows, j, h) PROVE j \in toRestore' \/ index'[h] = j
    <3>1. j \in toRestore \/ Answers(j, h)
      BY <1>n, <1>1, <1>2, <2>2 DEF Known
    <3>2. ASSUME Answers(j, h) PROVE j = i
      BY <1>h, <1>2, <3>2 DEF Answers, AnswersFor
    <3> QED
      BY <1>1, <3>1, <3>2
  <2> QED
    BY <1>1, <2>1, <2>2 DEF Known, Has
<1>8. call[c].op = "add" => rows[i] = None
  BY <1>h, <1>1, <1>2 DEF Counts
<1>9. Counts(c)'
  BY <1>h, <1>1, <1>3, <1>6, <1>8 DEF Counts, Has
<1> QED
  BY <1>h, <1>1, <1>2, <1>3, <1>4, <1>5, <1>7, <1>9, StillStep

\* A torrent starts, and the add says so: what is stored is what it was given.
LEMMA KeptStart ==
  ASSUME DbInv, AllKept, NEW c \in Calls, Start(c)
  PROVE  AllKept'
<1>n. None \notin Hashes
  BY ConstantsAssumption
<1>h. PICK h, i, s : h = call[c].hash /\ i = call[c].id /\ s = handle[call[c].h].set
  OBVIOUS
<1>1. /\ call[c].stage = "start" /\ ReturnWith(c, torrents) /\ UNCHANGED <<backend, phase, index, rows, file, toRestore>>
      /\ wish' = wish \/ (call[c].op = "add" /\ wish' = [wish EXCEPT ![h] = {s}])
  BY <1>h DEF Start, Return, store, Settled
<1>2. call'[c].hash = None /\ \A d \in Calls \ {c} : call'[d] = call[d]
  BY <1>1, CallAfter DEF DbInv
<1>3. /\ h \in Hashes /\ phase # "down" /\ \A d \in Calls \ {c} : call[d].hash # h
      /\ Fits(wish[h], rows, h) /\ Fits(wish[h], StoredRows, h) /\ Known(h) /\ Agree(h) /\ Counts(c)
  BY <1>h, <1>1, AloneWith
<1>4. \A d \in Calls \ {c} : call[d].h # None => handle'[call[d].h].set = handle[call[d].h].set
  BY <1>1, ReturnKeeps
<1>5. i \in Ids /\ (call[c].op = "add" => Has(rows, i, h) /\ rows[i].set = s)
  BY <1>h, <1>1, <1>3 DEF DbInv, Callers, Proper, Counts
<1>6. DOMAIN wish = Hashes
  BY DEF AllKept
<1>7. /\ DOMAIN wish' = Hashes /\ \A g \in Hashes \ {h} : wish'[g] = wish[g]
      /\ wish'[h] = wish[h] \/ (call[c].op = "add" /\ wish'[h] = {s})
  BY <1>1, <1>3, <1>6
<1>8. Fits(wish'[h], rows, h) /\ Fits(wish'[h], StoredRows, h)
  <2>1. CASE wish'[h] = wish[h]
    BY <1>3, <2>1
  <2>2. CASE call[c].op = "add" /\ wish'[h] = {s}
    <3>1. SameRows(rows, StoredRows, h)
      BY <1>1, <1>3 DEF Agree
    <3>2. Fits({s}, rows, h)
      BY <1>3, <1>5, <2>2 DEF Fits
    <3> QED
      BY <2>2, <3>1, <3>2, FitsStays
  <2> QED
    BY <1>7, <2>1, <2>2
<1>9. Known(h)'
  BY <1>1, <1>2, <1>3, KnownStays DEF AnswersFor
<1>10. call'[c].hash # h
  BY <1>n, <1>2, <1>3
<1> QED
  BY <1>h, <1>1, <1>2, <1>3, <1>4, <1>7, <1>8, <1>9, <1>10, StillStep

\* The store reads the torrent.
LEMMA KeptSnapshot ==
  ASSUME DbInv, AllKept, NEW c \in Calls, Snapshot(c)
  PROVE  AllKept'
<1>h. PICK h, i, k : h = call[c].hash /\ i = call[c].id /\ k = call[c].h
  OBVIOUS
<1>1. /\ call[c].stage = "snapshot" /\ call' = [call EXCEPT ![c].stage = "row", ![c].row = RowOf(k)]
      /\ UNCHANGED <<backend, phase, rows, file, index, handle, toRestore, wish>>
  BY <1>h DEF Snapshot, database
<1>2. /\ call'[c].op = call[c].op /\ call'[c].id = i /\ call'[c].hash = h /\ call'[c].stage = "row" /\ call'[c].h = k
      /\ call'[c].row.set = handle[k].set
      /\ \A d \in Calls \ {c} : call'[d] = call[d]
  <2>1. call \in [Calls -> CallState] /\ call[c] \in CallState
    BY DEF DbInv, TypeOK
  <2>2. call[c] = [stage |-> call[c].stage, op |-> call[c].op, hash |-> call[c].hash, id |-> call[c].id, h |-> call[c].h, row |-> call[c].row]
    BY <2>1 DEF CallState
  <2>3. PICK v : v = RowOf(k)
    OBVIOUS
  <2>4. call'[c] = [call[c] EXCEPT !.stage = "row", !.row = v] /\ \A d \in Calls \ {c} : call'[d] = call[d]
    BY <1>1, <2>1, <2>3
  <2>5. v.set = handle[k].set
    BY <2>3 DEF RowOf
  <2> QED
    BY <1>h, <2>2, <2>4, <2>5
<1>3. /\ h \in Hashes /\ phase # "down" /\ \A d \in Calls \ {c} : call[d].hash # h
      /\ Fits(wish[h], rows, h) /\ Fits(wish[h], StoredRows, h) /\ Known(h) /\ Counts(c)
  BY <1>h, <1>1, AloneWith
<1>4. Known(h)'
  BY <1>1, <1>2, <1>3, KnownStays DEF AnswersFor
<1>5. handle[k].set \in wish[h]
  BY <1>h, <1>1, <1>3 DEF Counts
<1>6. /\ call[c].op \in {"add", "restore", "pause", "unpause", "select"} => index[h] = i
      /\ call[c].op = "restore" => Has(rows, i, h)
      /\ call[c].op = "add" => rows[i] = None
      /\ call[c].op # "delete"
  BY <1>h, <1>1, <1>3 DEF Counts, DbInv, Callers, Proper
<1>7. Counts(c)'
  BY <1>1, <1>2, <1>5, <1>6 DEF Counts, Has
<1>8. DOMAIN wish' = Hashes
  BY <1>1 DEF AllKept
<1> QED
  BY <1>h, <1>1, <1>2, <1>3, <1>4, <1>7, <1>8, StillStep

\* What a change makes of a torrent lies where the torrent lay.
LEMMA OthersKeep ==
  ASSUME DbInv, AllKept, NEW c \in Calls, call[c].h # None, NEW v, handle' = [handle EXCEPT ![call[c].h] = v]
  PROVE  /\ handle'[call[c].h] = v
         /\ \A d \in Calls \ {c} : call[d].h # None => handle'[call[d].h] = handle[call[d].h]
<1>1. \A d \in Calls : call[d].h # None => call[d].h \in Handles /\ handle[call[d].h].hash = call[d].hash
  BY DEF DbInv, Refs, TypeOK, CallState
<1>2. \A d \in Calls : call[d].h # None => call[d].hash # None
  <2>1. Idle.h = None /\ None \notin Hashes
    BY ConstantsAssumption DEF Idle
  <2>2. \A d \in Calls : Proper(call[d])
    BY DEF DbInv, Callers
  <2> QED
    BY <2>1, <2>2 DEF Proper
<1>3. \A d \in Calls \ {c} : call[d].h # None => call[d].h # call[c].h
  BY <1>1, <1>2 DEF AllKept, OneCallEach
<1> QED
  BY <1>1, <1>3 DEF DbInv, TypeOK

\* A torrent is changed, or refuses and is left with its wish.
LEMMA KeptApply ==
  ASSUME DbInv, AllKept, backend # "none", NEW c \in Calls, Apply(c) \/ Refuse(c)
  PROVE  AllKept'
<1>h. PICK h, i, k : h = call[c].hash /\ i = call[c].id /\ k = call[c].h
  OBVIOUS
<1>1. /\ call[c].stage = "apply" /\ UNCHANGED <<backend, phase, rows, file, index, toRestore>>
      /\ k # None /\ call[c].op \in {"pause", "unpause", "select"}
  BY <1>h DEF Apply, Refuse, store, DbInv, Callers, Proper
<1>3. /\ h \in Hashes /\ phase # "down" /\ \A d \in Calls \ {c} : call[d].hash # h
      /\ Fits(wish[h], rows, h) /\ Fits(wish[h], StoredRows, h) /\ Known(h) /\ Counts(c)
  BY <1>h, <1>1, AloneWith
<1>4. index[h] = i
  BY <1>h, <1>1, <1>3 DEF Counts
<1>5. DOMAIN wish = Hashes
  BY DEF AllKept
<1>6. CASE Apply(c)
  <2>1. PICK v : /\ handle' = [handle EXCEPT ![k] = v] /\ wish' = [wish EXCEPT ![h] = @ \cup {v.set}]
                 /\ call' = [call EXCEPT ![c].stage = "snapshot"]
    <3>1. PICK o \in Selections : /\ handle' = [handle EXCEPT ![k] = Changed(handle[k], call[c].op, o)]
                                  /\ MayBecome(h, Changed(handle[k], call[c].op, o).set)
      <4>1. k \in Handles /\ handle \in [Handles -> Torrent \cup {None}]
        BY <1>h, <1>1 DEF DbInv, TypeOK, CallState
      <4> QED
        BY <1>h, <1>6, <4>1 DEF Apply
    <3>2. call' = [call EXCEPT ![c].stage = "snapshot"]
      BY <1>6 DEF Apply
    <3> QED
      BY <3>1, <3>2 DEF MayBecome
  <2>2. /\ call'[c].op = call[c].op /\ call'[c].id = i /\ call'[c].hash = h /\ call'[c].stage = "snapshot" /\ call'[c].h = k
        /\ \A d \in Calls \ {c} : call'[d] = call[d]
    <3>1. call \in [Calls -> CallState] /\ call[c] \in CallState
      BY DEF DbInv, TypeOK
    <3>2. call'[c].h = k
      BY <1>h, <2>1, <3>1 DEF CallState
    <3> QED
      BY <1>h, <2>1, <3>2, CallAfter DEF DbInv, Stages
  <2>3. /\ DOMAIN wish' = Hashes /\ \A g \in Hashes \ {h} : wish'[g] = wish[g]
        /\ wish'[h] = wish[h] \cup {v.set}
    BY <1>3, <1>5, <2>1
  <2>4. handle'[k] = v /\ \A d \in Calls \ {c} : call[d].h # None => handle'[call[d].h].set = handle[call[d].h].set
    BY <1>h, <1>1, <2>1, OthersKeep
  <2>5. Fits(wish'[h], rows, h) /\ Fits(wish'[h], StoredRows, h)
    BY <1>3, <2>3, FitsStays DEF SameRows
  <2>6. Known(h)'
    BY <1>1, <1>3, <2>2, KnownStays DEF AnswersFor
  <2>7. Counts(c)'
    BY <1>1, <1>4, <2>2, <2>3, <2>4 DEF Counts
  <2> QED
    BY <1>h, <1>1, <1>3, <2>2, <2>3, <2>4, <2>5, <2>6, <2>7, StillStep
<1>7. CASE Refuse(c)
  <2>1. /\ handle' = handle \/ handle' = [handle EXCEPT ![k].set.paused = FALSE]
        /\ call' = [call EXCEPT ![c].stage = "failed"] /\ wish' = wish
    BY <1>h, <1>7 DEF Refuse, history
  <2>2. /\ call'[c].op = call[c].op /\ call'[c].id = i /\ call'[c].hash = h /\ call'[c].stage = "failed"
        /\ \A d \in Calls \ {c} : call'[d] = call[d]
    BY <1>h, <2>1, CallAfter DEF DbInv, Stages
  <2>3. \A d \in Calls \ {c} : call[d].h # None => handle'[call[d].h].set = handle[call[d].h].set
    <3>1. CASE handle' = handle
      BY <3>1
    <3>2. CASE handle' = [handle EXCEPT ![k].set.paused = FALSE]
      <4>1. PICK v : handle' = [handle EXCEPT ![k] = v]
        BY <3>2
      <4> QED
        BY <1>h, <1>1, <4>1, OthersKeep
    <3> QED
      BY <2>1, <3>1, <3>2
  <2>4. Fits(wish'[h], rows, h) /\ Fits(wish'[h], StoredRows, h) /\ DOMAIN wish' = Hashes
    BY <1>3, <1>5, <2>1
  <2>5. Known(h)'
    BY <1>1, <1>3, <2>2, KnownStays DEF AnswersFor
  <2>6. Counts(c)'
    BY <1>1, <1>4, <2>2 DEF Counts
  <2> QED
    BY <1>h, <1>1, <1>3, <2>1, <2>2, <2>3, <2>4, <2>5, <2>6, StillStep
<1> QED
  BY <1>6, <1>7

\* A torrent whose rows are gone is deleted, and the user is told.
LEMMA KeptUnlink ==
  ASSUME DbInv, AllKept, NEW c \in Calls, Unlink(c)
  PROVE  AllKept'
<1>n. None \notin Hashes /\ None \notin Ids
  BY ConstantsAssumption DEF Ids
<1>h. PICK h : h = call[c].hash
  OBVIOUS
<1>1. /\ call[c].stage = "unlink" /\ call[c].op = "delete" /\ ReturnWith(c, torrents)
      /\ UNCHANGED <<backend, phase, index, rows, file, toRestore>>
      /\ wish' = [wish EXCEPT ![h] = {None}]
  BY <1>h DEF Unlink, Return, Settled, DbInv, Callers, Proper
<1>2. call'[c].hash = None /\ \A d \in Calls \ {c} : call'[d] = call[d]
  BY <1>1, CallAfter DEF DbInv
<1>3. /\ h \in Hashes /\ phase # "down" /\ \A d \in Calls \ {c} : call[d].hash # h
      /\ Fits(wish[h], rows, h) /\ Fits(wish[h], StoredRows, h) /\ Known(h) /\ Agree(h) /\ Counts(c)
  BY <1>h, <1>1, AloneWith
<1>4. \A d \in Calls \ {c} : call[d].h # None => handle'[call[d].h].set = handle[call[d].h].set
  BY <1>1, ReturnKeeps
<1>5. index[h] = None /\ toRestore = {}
  BY <1>h, <1>1, <1>3 DEF Counts, DbInv, Restoring
<1>6. ASSUME NEW j \in Ids PROVE ~Has(rows, j, h)
  <2>1. ~Answers(j, h)
    BY <1>h, <1>1, <1>3 DEF Answers, AnswersFor
  <2> QED
    BY <1>n, <1>3, <1>5, <2>1 DEF Known
<1>7. /\ DOMAIN wish' = Hashes /\ \A g \in Hashes \ {h} : wish'[g] = wish[g]
      /\ wish'[h] = {None}
  BY <1>1, <1>3 DEF AllKept
<1>8. Fits(wish'[h], rows, h) /\ Fits(wish'[h], StoredRows, h)
  <2>1. SameRows(rows, StoredRows, h)
    BY <1>1, <1>3 DEF Agree
  <2>2. Fits({None}, rows, h)
    BY <1>6 DEF Fits
  <2> QED
    BY <1>7, <2>1, <2>2, FitsStays
<1>9. Known(h)'
  BY <1>1, <1>2, <1>3, KnownStays DEF AnswersFor
<1>10. call'[c].hash # h
  BY <1>n, <1>2, <1>3
<1> QED
  BY <1>h, <1>1, <1>2, <1>3, <1>4, <1>7, <1>8, <1>9, <1>10, StillStep

\* The row a call is about to write is its torrent's, and there is no other one.
LEMMA OwnRow ==
  ASSUME DbInv, AllKept, NEW c \in Calls, call[c].stage = "row"
  PROVE  LET h == call[c].hash  i == call[c].id  r == call[c].row IN
         /\ i \in Ids
         /\ call[c].op = "add" => rows[i] = None /\ r.set = handle[call[c].h].set
         /\ call[c].op # "add" => Has(rows, i, h)
         /\ \A j \in Ids : Has(rows, j, h) => j = i
         /\ call[c].op # "delete" => index[h] = i /\ r \in Row /\ r.hash = h /\ r # None /\ r.set \in wish[h]
         /\ call[c].op = "delete" => index[h] = None /\ None \in wish[h]
<1>h. PICK h, i, r : h = call[c].hash /\ i = call[c].id /\ r = call[c].row
  OBVIOUS
<1>n. None \notin Row /\ None \notin Ids
  BY ConstantsAssumption, NoneAssumption DEF Ids
<1>1. /\ h \in Hashes /\ call[c].op \in Ops /\ phase # "down" /\ \A d \in Calls \ {c} : call[d].hash # h
      /\ Fits(wish[h], rows, h) /\ Known(h) /\ Counts(c)
  BY <1>h, AloneWith
<1>2. i \in Ids /\ (call[c].op # "delete" => r \in Row /\ r.hash = h /\ r # None)
  BY <1>h, <1>n DEF DbInv, Callers, Proper
<1>3. call[c].op = "add" => rows[i] = None /\ r.set = handle[call[c].h].set
  BY <1>h, <1>1 DEF Counts
<1>4. call[c].op # "delete" => index[h] = i /\ r.set \in wish[h]
  BY <1>h, <1>1 DEF Counts, Ops
<1>5. call[c].op = "delete" => index[h] = None /\ None \in wish[h]
  BY <1>h, <1>1 DEF Counts
<1>6. call[c].op # "add" => Has(rows, i, h)
  <2>1. CASE call[c].op \in {"restore", "delete"}
    BY <1>h, <1>1, <2>1 DEF Counts
  <2>2. CASE call[c].op \notin {"restore", "delete", "add"}
    <3>1. ~ \E d \in Calls : call[d].hash = h /\ call[d].op = "add"
      BY <1>1, <2>2
    <3> QED
      BY <1>n, <1>1, <1>2, <1>4, <2>2, <3>1 DEF Known
  <2> QED
    BY <2>1, <2>2
<1>7. ASSUME NEW j \in Ids, Has(rows, j, h) PROVE j = i
  <2>1. CASE call[c].op # "add"
    BY <1>1, <1>2, <1>6, <1>7, <2>1 DEF Fits
  <2>2. CASE call[c].op = "add"
    <3>1. ~Answers(j, h)
      BY <1>1, <2>2 DEF Answers, AnswersFor
    <3>2. toRestore = {}
      BY <2>2 DEF DbInv, Restoring
    <3> QED
      BY <1>1, <1>4, <1>7, <2>2, <3>1, <3>2 DEF Known
  <2> QED
    BY <2>1, <2>2
<1> QED
  BY <1>h, <1>2, <1>3, <1>4, <1>5, <1>6, <1>7

\* A call writes or removes the row of its torrent: the others' rows stay, and the ids
\* handed out to them stay free.
LEMMA RowChange ==
  ASSUME DbInv, IdInv, AllKept, "sameId" \notin faults, NEW c \in Calls, call[c].stage = "row", NEW h, h = call[c].hash,
         NEW v, v = None \/ v.hash = h, rows' = [rows EXCEPT ![call[c].id] = v],
         UNCHANGED <<backend, phase, index, file, toRestore>>,
         DOMAIN wish' = Hashes, \A g \in Hashes \ {h} : wish'[g] = wish[g],
         \A d \in Calls \ {c} : call'[d] = call[d], call'[c].hash \in {h, None},
         \A d \in Calls \ {c} : call[d].h # None => handle'[call[d].h].set = handle[call[d].h].set,
         Kept(h)'
  PROVE  AllKept'
<1>n. None \notin Hashes
  BY ConstantsAssumption
<1>h. PICK i : i = call[c].id
  OBVIOUS
<1>1. h \in Hashes /\ phase # "down" /\ \A d \in Calls \ {c} : call[d].hash # h
  BY <1>h, AloneWith
<1>2. i \in Ids /\ (call[c].op = "add" => rows[i] = None) /\ (call[c].op # "add" => Has(rows, i, h))
  BY <1>h, OwnRow
<1>3. rows'[i] = v /\ \A j \in Ids \ {i} : rows'[j] = rows[j]
  BY <1>h, <1>2 DEF DbInv, TypeOK
<1>4. OneCallEach'
  BY <1>1 DEF AllKept, OneCallEach
<1>5. ASSUME NEW g \in Hashes \ {h} PROVE Kept(g)'
  <2>1. SameRows(rows, rows', g)
    BY <1>h, <1>2, <1>3 DEF SameRows, Has
  <2>2. SameRows(StoredRows, StoredRows', g)
    BY <2>1 DEF StoredRows, SameRows
  <2>3. \A d \in Calls : call[d].hash = g \/ call'[d].hash = g => d # c /\ call'[d] = call[d] /\ call[d].hash = g
    BY <1>n, <1>h
  <2>4. \A d \in Calls : call[d].hash = g /\ call[d].h # None => handle'[call[d].h].set = handle[call[d].h].set
    BY <2>3
  <2>5. Kept(g)
    BY DEF AllKept
  <2>6. ASSUME NEW d \in Calls, call[d].hash = g, call[d].op = "add", call[d].stage \in {"insert", "snapshot", "row"}
        PROVE  rows'[call[d].id] = None
    <3>1. rows[call[d].id] = None /\ call[d].id \in Ids
      BY <1>1, <2>5, <2>6 DEF Kept, Counts, DbInv, Callers, Proper
    <3>2. call[d].id # i
      <4>1. CASE call[c].op # "add"
        BY <1>2, <3>1, <4>1 DEF Has
      <4>2. CASE call[c].op = "add"
        BY <1>h, <1>2, <2>3, <2>6, <3>1, <4>2 DEF IdInv, OneAdd
      <4> QED
        BY <4>1, <4>2
    <3> QED
      BY <1>3, <3>1, <3>2
  <2>7. \A j \in toRestore : Has(rows, j, g) => j \in toRestore'
    OBVIOUS
  <2>8. wish'[g] = wish[g] /\ index'[g] = index[g] /\ phase' # "down"
    BY <1>h, <1>1
  <2> QED
    BY <1>1, <2>1, <2>2, <2>3, <2>4, <2>5, <2>6, <2>7, <2>8, Elsewhere
<1> QED
  BY <1>h, <1>4, <1>5 DEF AllKept

\* The json store puts the row.
LEMMA KeptPutRow ==
  ASSUME DbInv, IdInv, AllKept, "sameId" \notin faults, NEW c \in Calls, PutRow(c)
  PROVE  AllKept'
<1>n. None \notin Ids
  BY ConstantsAssumption DEF Ids
<1>h. PICK h, i, r : h = call[c].hash /\ i = call[c].id /\ r = call[c].row
  OBVIOUS
<1>1. /\ call[c].stage = "row" /\ call[c].op # "delete" /\ rows' = [rows EXCEPT ![i] = r] /\ backend = "json"
      /\ call' = [call EXCEPT ![c].stage = "flush"]
      /\ UNCHANGED <<backend, phase, file, index, handle, toRestore, wish>>
  BY <1>h DEF PutRow, Goto, history
<1>2. /\ call'[c].op = call[c].op /\ call'[c].id = i /\ call'[c].hash = h /\ call'[c].stage = "flush"
      /\ call'[c].row = r /\ call'[c].h = call[c].h
      /\ \A d \in Calls \ {c} : call'[d] = call[d]
  <2>1. call \in [Calls -> CallState] /\ call[c] \in CallState
    BY DEF DbInv, TypeOK
  <2>2. call'[c].row = r /\ call'[c].h = call[c].h
    BY <1>h, <1>1, <2>1 DEF CallState
  <2> QED
    BY <1>h, <1>1, <2>2, CallAfter DEF DbInv, Stages
<1>3. /\ h \in Hashes /\ phase # "down" /\ \A d \in Calls \ {c} : call[d].hash # h
      /\ Fits(wish[h], rows, h) /\ Fits(wish[h], StoredRows, h)
  BY <1>h, <1>1, AloneWith
<1>4. /\ i \in Ids /\ index[h] = i /\ r.hash = h /\ r # None /\ r.set \in wish[h]
      /\ call[c].op = "add" => r.set = handle[call[c].h].set
      /\ \A j \in Ids : Has(rows, j, h) => j = i
  BY <1>h, <1>1, OwnRow
<1>5. rows'[i] = r /\ \A j \in Ids \ {i} : rows'[j] = rows[j]
  BY <1>1, <1>4 DEF DbInv, TypeOK
<1>6. \A j \in Ids : Has(rows', j, h) <=> j = i
  BY <1>4, <1>5 DEF Has
<1>7. StoredRows' = StoredRows
  BY <1>1 DEF StoredRows
<1>8. Kept(h)'
  <2>1. Fits(wish[h], StoredRows, h)'
    BY <1>1, <1>3, <1>7
  <2>2. Fits(wish[h], rows, h)'
    BY <1>1, <1>4, <1>5, <1>6 DEF Fits
  <2>3. Agree(h)'
    BY <1>2 DEF Agree
  <2>4. Known(h)'
    BY <1>1, <1>4, <1>6 DEF Known
  <2>5. Counts(c)'
    BY <1>1, <1>2, <1>4, <1>5, <1>6 DEF Counts
  <2>6. \A d \in Calls : call'[d].hash = h => Counts(d)'
    BY <1>2, <1>3, <2>5
  <2> QED
    BY <2>1, <2>2, <2>3, <2>4, <2>6 DEF Kept
<1>9. DOMAIN wish' = Hashes
  BY <1>1 DEF AllKept
<1> QED
  BY <1>h, <1>1, <1>2, <1>4, <1>8, <1>9, RowChange

\* The table of postgres takes the row: of a new torrent where there is none, of another
\* one over the old one.
LEMMA KeptExecute ==
  ASSUME DbInv, IdInv, AllKept, "sameId" \notin faults, NEW c \in Calls, Execute(c)
  PROVE  AllKept'
<1>n. None \notin Ids /\ None \notin Hashes
  BY ConstantsAssumption DEF Ids
<1>h. PICK h, i, r : h = call[c].hash /\ i = call[c].id /\ r = call[c].row
  OBVIOUS
<1>1. /\ call[c].stage = "row" /\ call[c].op # "delete" /\ backend = "postgres"
      /\ rows' = IF (rows[i] = None) = (call[c].op \in {"add", "restore"}) THEN [rows EXCEPT ![i] = r] ELSE rows
      /\ UNCHANGED <<backend, phase, file, index, toRestore>>
      /\ \/ call[c].op \in {"add", "restore"} /\ Goto(c, "start") /\ wish' = wish
         \/ call[c].op \notin {"add", "restore"} /\ ReturnWith(c, torrents) /\ wish' = [wish EXCEPT ![h] = {r.set}]
  BY <1>h DEF Execute, AfterStore, Settled, Return
<1>2. /\ h \in Hashes /\ call[c].op \in Ops /\ phase # "down" /\ \A d \in Calls \ {c} : call[d].hash # h
      /\ Fits(wish[h], rows, h) /\ Counts(c)
  BY <1>h, <1>1, AloneWith
<1>3. /\ i \in Ids /\ index[h] = i /\ r.hash = h /\ r # None /\ r.set \in wish[h]
      /\ call[c].op = "add" => rows[i] = None /\ r.set = handle[call[c].h].set
      /\ call[c].op # "add" => Has(rows, i, h)
      /\ \A j \in Ids : Has(rows, j, h) => j = i
  BY <1>h, <1>1, OwnRow
<1>4. PICK v : /\ rows' = [rows EXCEPT ![i] = v] /\ v # None /\ v.hash = h /\ v.set \in wish[h]
               /\ call[c].op # "restore" => v = r
  <2>1. CASE call[c].op = "restore"
    <3>1. rows' = rows /\ rows[i] # None /\ rows[i].hash = h
      BY <1>1, <1>3, <2>1 DEF Has
    <3>2. rows[i].set \in wish[h]
      BY <1>2, <1>3, <2>1 DEF Fits
    <3>3. rows' = [rows EXCEPT ![i] = rows[i]]
      BY <3>1, <1>3 DEF DbInv, TypeOK
    <3> QED
      BY <2>1, <3>1, <3>2, <3>3
  <2>2. CASE call[c].op # "restore"
    <3>1. (rows[i] = None) = (call[c].op \in {"add", "restore"})
      BY <1>3, <2>2 DEF Has
    <3> QED
      BY <1>1, <1>3, <3>1
  <2> QED
    BY <2>1, <2>2
<1>5. rows'[i] = v /\ \A j \in Ids \ {i} : rows'[j] = rows[j]
  BY <1>3, <1>4 DEF DbInv, TypeOK
<1>6. \A j \in Ids : Has(rows', j, h) <=> j = i
  BY <1>3, <1>4, <1>5 DEF Has
<1>7. StoredRows' = rows'
  BY <1>1 DEF StoredRows
<1>8. DOMAIN wish = Hashes
  BY DEF AllKept
<1>9. Known(h)'
  BY <1>1, <1>3, <1>6 DEF Known
<1>10. Agree(h)'
  BY <1>7 DEF Agree, SameRows
<1>11. CASE call[c].op \in {"add", "restore"}
  <2>1. Goto(c, "start") /\ wish' = wish
    BY <1>1, <1>11
  <2>2. /\ call'[c].op = call[c].op /\ call'[c].id = i /\ call'[c].hash = h /\ call'[c].stage = "start"
        /\ call'[c].h = call[c].h /\ handle' = handle
        /\ \A d \in Calls \ {c} : call'[d] = call[d]
    <3>1. call \in [Calls -> CallState] /\ call[c] \in CallState
      BY DEF DbInv, TypeOK
    <3>2. call' = [call EXCEPT ![c].stage = "start"] /\ handle' = handle
      BY <2>1 DEF Goto
    <3>3. call'[c].h = call[c].h
      BY <3>1, <3>2 DEF CallState
    <3> QED
      BY <1>h, <3>2, <3>3, CallAfter DEF DbInv, Stages
  <2>3. Fits(wish[h], rows, h)' /\ Fits(wish[h], StoredRows, h)'
    <3>1. Fits(wish[h], rows', h)
      <4>1. rows'[i].set \in wish[h] /\ i \in Ids
        BY <1>3, <1>4, <1>5
      <4> QED
        BY <1>6, <4>1, FitsOne
    <3> QED
      BY <1>7, <2>1, <3>1
  <2>4. Counts(c)'
    BY <1>1, <1>3, <1>4, <1>5, <1>6, <1>11, <2>2 DEF Counts
  <2>5. \A d \in Calls : call'[d].hash = h => Counts(d)'
    BY <1>2, <2>2, <2>4
  <2>6. Kept(h)'
    BY <1>9, <1>10, <2>3, <2>5 DEF Kept
  <2>7. /\ call[c].stage = "row" /\ UNCHANGED <<backend, phase, file, index, toRestore>>
        /\ DOMAIN wish' = Hashes /\ \A g \in Hashes \ {h} : wish'[g] = wish[g]
    BY <1>1, <1>8, <2>1
  <2>8. call'[c].hash \in {h, None} /\ \A d \in Calls \ {c} : call[d].h # None => handle'[call[d].h].set = handle[call[d].h].set
    BY <2>2
  <2>9. rows' = [rows EXCEPT ![call[c].id] = v] /\ v.hash = h
    BY <1>h, <1>4
  <2> QED
    BY <1>h, <2>2, <2>6, <2>7, <2>8, <2>9, RowChange
<1>12. CASE call[c].op \notin {"add", "restore"}
  <2>1. ReturnWith(c, torrents) /\ wish' = [wish EXCEPT ![h] = {r.set}] /\ v = r
    BY <1>1, <1>4, <1>12
  <2>2. call'[c].hash = None /\ \A d \in Calls \ {c} : call'[d] = call[d]
    BY <2>1, CallAfter DEF DbInv
  <2>3. DOMAIN wish' = Hashes /\ wish'[h] = {r.set} /\ \A g \in Hashes \ {h} : wish'[g] = wish[g]
    BY <1>2, <1>8, <2>1
  <2>4. Fits(wish[h], rows, h)' /\ Fits(wish[h], StoredRows, h)'
    BY <1>3, <1>5, <1>6, <1>7, <2>1, <2>3 DEF Fits
  <2>5. \A d \in Calls : call'[d].hash # h
    BY <1>n, <1>2, <2>2
  <2>6. Kept(h)'
    BY <1>9, <1>10, <2>4, <2>5 DEF Kept
  <2>7. \A d \in Calls \ {c} : call[d].h # None => handle'[call[d].h].set = handle[call[d].h].set
    BY <2>1, ReturnKeeps
  <2>8. call[c].stage = "row" /\ UNCHANGED <<backend, phase, file, index, toRestore>> /\ call'[c].hash \in {h, None}
    BY <1>1, <2>2
  <2>9. rows' = [rows EXCEPT ![call[c].id] = v] /\ v.hash = h
    BY <1>h, <1>4
  <2> QED
    BY <1>h, <2>2, <2>3, <2>6, <2>7, <2>8, <2>9, RowChange
<1> QED
  BY <1>11, <1>12

\* A delete takes the row of its torrent out.
LEMMA KeptDeleteRow ==
  ASSUME DbInv, IdInv, AllKept, "sameId" \notin faults, NEW c \in Calls, DeleteRow(c)
  PROVE  AllKept'
<1>n. None \notin Ids /\ None \notin Hashes
  BY ConstantsAssumption DEF Ids
<1>h. PICK h, i : h = call[c].hash /\ i = call[c].id
  OBVIOUS
<1>1. /\ call[c].stage = "row" /\ call[c].op = "delete" /\ rows' = [rows EXCEPT ![i] = None]
      /\ UNCHANGED <<backend, phase, file, index, toRestore>>
      /\ IF backend = "json" /\ rows[i] # None THEN Goto(c, "flush") /\ wish' = wish
         ELSE ReturnWith(c, torrents) /\ wish' = [wish EXCEPT ![h] = {None}]
  BY <1>h DEF DeleteRow, Settled, Return
<1>2. /\ h \in Hashes /\ phase # "down" /\ \A d \in Calls \ {c} : call[d].hash # h
      /\ Fits(wish[h], rows, h) /\ Fits(wish[h], StoredRows, h)
  BY <1>h, <1>1, AloneWith
<1>3. /\ i \in Ids /\ Has(rows, i, h) /\ index[h] = None /\ None \in wish[h]
      /\ \A j \in Ids : Has(rows, j, h) => j = i
  BY <1>h, <1>1, OwnRow
<1>4. rows'[i] = None /\ \A j \in Ids \ {i} : rows'[j] = rows[j]
  BY <1>1, <1>3 DEF DbInv, TypeOK
<1>5. \A j \in Ids : ~Has(rows', j, h)
  BY <1>3, <1>4 DEF Has
<1>6. Known(h)'
  BY <1>1, <1>3, <1>5 DEF Known
<1>7. DOMAIN wish = Hashes
  BY DEF AllKept
<1>8. CASE backend = "json"
  <2>1. Goto(c, "flush") /\ wish' = wish
    BY <1>1, <1>3, <1>8 DEF Has
  <2>2. /\ call'[c].op = "delete" /\ call'[c].hash = h /\ call'[c].stage = "flush" /\ handle' = handle
        /\ \A d \in Calls \ {c} : call'[d] = call[d]
    <3>1. call' = [call EXCEPT ![c].stage = "flush"] /\ handle' = handle
      BY <2>1 DEF Goto
    <3> QED
      BY <1>h, <1>1, <3>1, CallAfter DEF DbInv, Stages
  <2>3. Fits(wish[h], StoredRows, h)'
    BY <1>1, <1>2, <1>8, <2>1 DEF StoredRows
  <2>4. Fits(wish[h], rows, h)'
    BY <1>3, <1>5, <2>1 DEF Fits
  <2>5. Agree(h)'
    BY <2>2 DEF Agree
  <2>6. Counts(c)'
    BY <1>1, <1>3, <2>1, <2>2 DEF Counts
  <2>7. \A d \in Calls : call'[d].hash = h => Counts(d)'
    BY <1>2, <2>2, <2>6
  <2>8. Kept(h)'
    BY <1>6, <2>3, <2>4, <2>5, <2>7 DEF Kept
  <2> QED
    BY <1>h, <1>1, <1>7, <2>1, <2>2, <2>8, RowChange
<1>9. CASE backend # "json"
  <2>1. ReturnWith(c, torrents) /\ wish' = [wish EXCEPT ![h] = {None}]
    BY <1>1, <1>9
  <2>2. call'[c].hash = None /\ \A d \in Calls \ {c} : call'[d] = call[d]
    BY <2>1, CallAfter DEF DbInv
  <2>3. DOMAIN wish' = Hashes /\ wish'[h] = {None} /\ \A g \in Hashes \ {h} : wish'[g] = wish[g]
    BY <1>2, <1>7, <2>1
  <2>4. StoredRows' = rows'
    BY <1>1, <1>9 DEF StoredRows
  <2>5. Fits(wish[h], rows, h)' /\ Fits(wish[h], StoredRows, h)' /\ Agree(h)'
    BY <1>5, <2>3, <2>4 DEF Fits, Agree, SameRows
  <2>6. \A d \in Calls : call'[d].hash # h
    BY <1>n, <1>2, <2>2
  <2>7. Kept(h)'
    BY <1>6, <2>5, <2>6 DEF Kept
  <2>8. \A d \in Calls \ {c} : call[d].h # None => handle'[call[d].h].set = handle[call[d].h].set
    BY <2>1, ReturnKeeps
  <2> QED
    BY <1>h, <1>1, <2>2, <2>3, <2>7, <2>8, RowChange
<1> QED
  BY <1>8, <1>9

\* session.json becomes what the rows are, and a change of a torrent is done.
LEMMA KeptFlush ==
  ASSUME DbInv, AllKept, NEW c \in Calls, Flush(c)
  PROVE  AllKept'
<1>n. None \notin Ids /\ None \notin Hashes /\ None \notin Row
  BY ConstantsAssumption, NoneAssumption DEF Ids
<1>h. PICK h, i, r : h = call[c].hash /\ i = call[c].id /\ r = call[c].row
  OBVIOUS
<1>1. /\ call[c].stage = "flush" /\ file'.rows = rows /\ UNCHANGED <<backend, phase, rows, index, toRestore>>
  BY DEF Flush
<1>2. /\ h \in Hashes /\ call[c].op \in Ops /\ phase # "down" /\ \A d \in Calls \ {c} : call[d].hash # h
      /\ Fits(wish[h], rows, h) /\ Counts(c) /\ Known(h)
  BY <1>h, <1>1, AloneWith
<1>3. i \in Ids /\ (call[c].op # "delete" => r \in Row /\ r.hash = h /\ rows[i] = r)
  BY <1>h, <1>1, <1>2 DEF DbInv, Callers, Proper, Counts
<1>4. call[c].op # "delete" => Has(rows, i, h)
  BY <1>n, <1>3 DEF Has
<1>5. StoredRows' = rows'
  BY <1>1 DEF StoredRows
<1>6. DOMAIN wish = Hashes
  BY DEF AllKept
<1>7. \/ /\ call[c].op \in {"add", "restore", "delete"} /\ wish' = wish /\ handle' = handle
         /\ call'[c].op = call[c].op /\ call'[c].id = i /\ call'[c].hash = h /\ call'[c].h = call[c].h
         /\ call'[c].stage = (IF call[c].op = "delete" THEN "unlink" ELSE "start")
         /\ \A d \in Calls \ {c} : call'[d] = call[d]
      \/ /\ call[c].op \notin {"add", "restore", "delete"} /\ ReturnWith(c, torrents) /\ wish' = [wish EXCEPT ![h] = {r.set}]
         /\ call'[c].hash = None /\ \A d \in Calls \ {c} : call'[d] = call[d]
  <2>0. TypeOK /\ call \in [Calls -> CallState] /\ call[c] \in CallState
    BY DEF DbInv, TypeOK
  <2>1. CASE call[c].op \in {"add", "restore", "delete"}
    <3>1. PICK z \in {"unlink", "start"} : z = IF call[c].op = "delete" THEN "unlink" ELSE "start"
      OBVIOUS
    <3>2. call' = [call EXCEPT ![c].stage = z] /\ handle' = handle /\ wish' = wish
      BY <2>1, <3>1 DEF Flush, Goto, AfterStore
    <3>3. call'[c].h = call[c].h
      BY <2>0, <3>2 DEF CallState
    <3>4. /\ call'[c].op = call[c].op /\ call'[c].id = i /\ call'[c].hash = h /\ call'[c].stage = z
          /\ \A d \in Calls \ {c} : call'[d] = call[d]
      <4>1. z \in Stages
        BY <3>1 DEF Stages
      <4>2. /\ call'[c].op = call[c].op /\ call'[c].id = call[c].id /\ call'[c].hash = call[c].hash /\ call'[c].stage = z
            /\ \A d \in Calls \ {c} : call'[d] = call[d]
        BY <2>0, <3>2, <4>1, CallAfter
      <4> QED
        BY <1>h, <4>2
    <3> QED
      BY <2>1, <3>1, <3>2, <3>3, <3>4
  <2>2. CASE call[c].op \notin {"add", "restore", "delete"}
    <3>1. ReturnWith(c, torrents) /\ wish' = [wish EXCEPT ![h] = {r.set}]
      BY <1>h, <2>2 DEF Flush, AfterStore, Settled, Return
    <3> QED
      BY <2>0, <2>2, <3>1, CallAfter
  <2> QED
    BY <2>1, <2>2
<1>8. /\ DOMAIN wish' = Hashes /\ \A g \in Hashes \ {h} : wish'[g] = wish[g]
      /\ \A d \in Calls \ {c} : call'[d] = call[d]
      /\ call'[c].hash \in {h, None}
  BY <1>2, <1>6, <1>7
<1>9. \A d \in Calls \ {c} : call[d].h # None => handle'[call[d].h].set = handle[call[d].h].set
  BY <1>7, ReturnKeeps
<1>10. OneCallEach'
  BY <1>2, <1>8 DEF AllKept, OneCallEach
<1>11. ASSUME NEW g \in Hashes \ {h} PROVE Kept(g)'
  <2>1. SameRows(rows, rows', g)
    BY <1>1 DEF SameRows
  <2>3. \A d \in Calls : call[d].hash = g \/ call'[d].hash = g => d # c /\ call'[d] = call[d] /\ call[d].hash = g
    BY <1>n, <1>h, <1>8
  <2>4. \A d \in Calls : call[d].hash = g /\ call[d].h # None => handle'[call[d].h].set = handle[call[d].h].set
    BY <1>9, <2>3
  <2>5. Kept(g)
    BY DEF AllKept
  <2>6. \A d \in Calls : call[d].hash = g /\ call[d].op = "add" /\ call[d].stage \in {"insert", "snapshot", "row"}
                           => rows'[call[d].id] = None
    BY <1>1, <1>2, <2>5 DEF Kept, Counts
  <2>7. \A j \in toRestore : Has(rows, j, g) => j \in toRestore'
    BY <1>1
  <2>8. wish'[g] = wish[g] /\ index'[g] = index[g] /\ phase' # "down"
    BY <1>1, <1>2, <1>8
  <2> QED
    BY <1>2, <1>5, <2>1, <2>3, <2>4, <2>5, <2>6, <2>7, <2>8, Elsewhere
<1>12. Agree(h)'
  BY <1>5 DEF Agree, SameRows
<1>13. Known(h)'
  BY <1>1, <1>2, <1>8, KnownStays DEF AnswersFor
<1>14. Fits(wish'[h], rows, h)
  <2>1. CASE wish' = wish
    BY <1>2, <2>1
  <2>2. CASE call[c].op \notin {"add", "restore", "delete"} /\ wish' = [wish EXCEPT ![h] = {r.set}]
    <3>1. wish'[h] = {r.set} /\ Has(rows, i, h) /\ rows[i].set = r.set
      BY <1>2, <1>3, <1>4, <1>6, <2>2
    <3> QED
      BY <1>2, <1>3, <3>1 DEF Fits
  <2> QED
    BY <1>7, <2>1, <2>2
<1>15. Fits(wish[h], rows, h)' /\ Fits(wish[h], StoredRows, h)'
  BY <1>1, <1>5, <1>14
<1>16. ASSUME call'[c].hash = h PROVE Counts(c)'
  <2>1. /\ call[c].op \in {"add", "restore", "delete"} /\ wish' = wish /\ handle' = handle
        /\ call'[c].op = call[c].op /\ call'[c].id = i /\ call'[c].hash = h /\ call'[c].h = call[c].h
        /\ call'[c].stage = IF call[c].op = "delete" THEN "unlink" ELSE "start"
    BY <1>n, <1>2, <1>7, <1>16
  <2>2. /\ call[c].op = "delete" => index[h] = None /\ None \in wish[h]
        /\ call[c].op \in {"add", "restore"} => index[h] = i
        /\ call[c].op = "add" => r.set = handle[call[c].h].set
    BY <1>h, <1>1, <1>2 DEF Counts
  <2> QED
    BY <1>1, <1>3, <1>4, <2>1, <2>2 DEF Counts, Has
<1>17. \A d \in Calls : call'[d].hash = h => Counts(d)'
  BY <1>2, <1>8, <1>16
<1>18. Kept(h)'
  BY <1>12, <1>13, <1>15, <1>17 DEF Kept
<1> QED
  BY <1>8, <1>10, <1>11, <1>18 DEF AllKept

\* A step that changes neither the rows nor what is stored, and no call.
LEMMA KeptQuiet ==
  ASSUME DbInv, AllKept, phase' = "down" <=> phase = "down", StoredRows' = StoredRows,
         UNCHANGED <<rows, wish, index, toRestore, call>>,
         \A d \in Calls : call[d].h # None => handle'[call[d].h].set = handle[call[d].h].set
  PROVE  AllKept'
<1>1. DOMAIN wish' = Hashes /\ OneCallEach'
  BY DEF AllKept, OneCallEach
<1>2. ASSUME NEW g \in Hashes PROVE Kept(g)'
  <2>1. Kept(g)
    BY DEF AllKept
  <2>2. CASE phase = "down"
    BY <2>1, <2>2 DEF Kept
  <2>3. CASE phase # "down"
    <3>1. SameRows(rows, rows', g) /\ SameRows(StoredRows, StoredRows', g)
      BY DEF SameRows
    <3>2. \A d \in Calls : call[d].hash = g /\ call[d].op = "add" /\ call[d].stage \in {"insert", "snapshot", "row"}
                             => rows'[call[d].id] = None
      BY <2>1, <2>3 DEF Kept, Counts
    <3> QED
      BY <2>1, <2>3, <3>1, <3>2, Elsewhere
  <2> QED
    BY <2>2, <2>3
<1> QED
  BY <1>1, <1>2 DEF AllKept

\* The process goes on: a torrent fails, bytes arrive, the session stops or is restored.
LEMMA KeptGoesOn ==
  ASSUME DbInv, IdInv, AllKept, faults' \subseteq {"torrentFile"},
         \/ (\E k \in Handles : TorrentFails(k)) \/ (\E h \in Hashes : TorrentFileWritten(h))
         \/ Written \/ Stop \/ Restored
  PROVE  AllKept'
<1>1. ASSUME NEW k \in Handles, TorrentFails(k) PROVE AllKept'
  <2>1. UNCHANGED <<backend, phase, rows, file, wish, index, toRestore, call>> /\ handle' = [handle EXCEPT ![k].run = "error"]
    BY <1>1 DEF TorrentFails, store, history
  <2>2. handle[k] \in Torrent
    <3>1. handle[k] # None
      BY <1>1, ConstantsAssumption DEF TorrentFails, DbInv, Refs
    <3> QED
      BY <3>1 DEF DbInv, TypeOK
  <2>3. \A l \in Handles : handle'[l].set = handle[l].set
    BY <2>1, <2>2 DEF DbInv, TypeOK, Torrent
  <2>4. \A d \in Calls : call[d].h # None => call[d].h \in Handles
    BY DEF DbInv, TypeOK, CallState
  <2>5. StoredRows' = StoredRows
    BY <2>1 DEF StoredRows
  <2> QED
    BY <2>1, <2>3, <2>4, <2>5, KeptQuiet
<1>2. CASE Written
  <2>1. file'.rows = file.rows /\ UNCHANGED <<backend, phase, rows, wish, index, toRestore, call, handle>>
    BY <1>2 DEF Written, database, history, DbInv, TypeOK
  <2>2. StoredRows' = StoredRows
    BY <2>1 DEF StoredRows
  <2> QED
    BY <2>1, <2>2, KeptQuiet
<1>3. CASE Stop
  <2>1. /\ UNCHANGED <<backend, rows, file, wish, index, toRestore, call>> /\ phase = "up" /\ phase' = "stopping"
        /\ \A c \in Calls : ~Busy(c)
    BY <1>3 DEF Stop, store
  <2>2. \A c \in Calls : call[c].h = None
    BY <2>1, FreshCall DEF Busy
  <2>3. StoredRows' = StoredRows
    BY <2>1 DEF StoredRows
  <2> QED
    BY <2>1, <2>2, <2>3, KeptQuiet
<1>4. CASE Restored
  <2>1. UNCHANGED <<backend, rows, file, wish, index, toRestore, call, handle>> /\ phase = "restoring" /\ phase' = "up"
    BY <1>4 DEF Restored, store, history, database
  <2>2. StoredRows' = StoredRows
    BY <2>1 DEF StoredRows
  <2> QED
    BY <2>1, <2>2, KeptQuiet
<1>5. ASSUME NEW h \in Hashes, TorrentFileWritten(h) PROVE AllKept'
  <2>1. UNCHANGED <<backend, phase, rows, file, wish, index, toRestore, call, handle>>
    BY <1>5 DEF TorrentFileWritten, database
  <2>2. StoredRows' = StoredRows
    BY <2>1 DEF StoredRows
  <2> QED
    BY <2>1, <2>2, KeptQuiet
<1> QED
  BY <1>1, <1>2, <1>3, <1>4, <1>5

\* The process ends at any moment at which the bytes of session.json have arrived.
LEMMA KeptExit ==
  ASSUME DbInv, AllKept, faults' \subseteq {"torrentFile"}, Exit
  PROVE  AllKept'
<1>1. /\ phase' = "down" /\ call' = [c \in Calls |-> Idle] /\ UNCHANGED <<backend, wish>>
      /\ backend # "json" => rows' = rows
      /\ file' = file
  BY DEF Exit
<1>2. StoredRows' = StoredRows
  BY <1>1 DEF StoredRows
<1>3. OneCallEach'
  BY <1>1 DEF OneCallEach, Idle
<1>4. \A h \in Hashes : Kept(h)'
  BY <1>1, <1>2 DEF AllKept, Kept
<1> QED
  BY <1>1, <1>3, <1>4 DEF AllKept

\* A restart finds the one row of a torrent, or none, and either was to be expected.
LEMMA StoredFits ==
  ASSUME NEW h \in Hashes, NEW W, Fits(W, StoredRows, h)
  PROVE  Stored(h) \in W /\ Fits({Stored(h)}, StoredRows, h)
<1>1. CASE \A i \in Ids : ~Has(StoredRows, i, h)
  <2>1. Stored(h) = None
    BY <1>1 DEF Stored, Has
  <2> QED
    BY <1>1, <2>1 DEF Fits
<1>2. ASSUME NEW i \in Ids, Has(StoredRows, i, h) PROVE Stored(h) \in W /\ Fits({Stored(h)}, StoredRows, h)
  <2>1. \A j \in Ids : Has(StoredRows, j, h) <=> j = i
    BY <1>2 DEF Fits
  <2>2. {j \in Ids : StoredRows[j] # None /\ StoredRows[j].hash = h} = {i}
    BY <2>1 DEF Has
  <2>3. Stored(h) = StoredRows[i].set
    BY <2>2 DEF Stored
  <2>4. Fits({Stored(h)}, StoredRows, h)
    BY <2>1, <2>3, FitsOne
  <2> QED
    BY <1>2, <2>3, <2>4 DEF Fits
<1> QED
  BY <1>1, <1>2

\* The next process reads what is stored, and that is what the user is to find.
LEMMA KeptBoot ==
  ASSUME DbInv, IdInv, AllKept, Boot
  PROVE  AllKept'
<1>1. /\ phase = "down" /\ phase' # "down" /\ rows' = StoredRows /\ toRestore' = {i \in Ids : rows'[i] # None}
      /\ wish' = [h \in Hashes |-> {Stored(h)}] /\ UNCHANGED <<backend, index, file, call>>
  BY DEF Boot, database, StoredRows
<1>2. StoredRows' = StoredRows
  BY <1>1 DEF StoredRows
<1>3. \A h \in Hashes : index[h] = None
  BY <1>1 DEF IdInv, DbInv, Refs, TypeOK
<1>4. \A c \in Calls : call[c].hash = None
  <2>1. \A c \in Calls : call[c].op = "" /\ Proper(call[c])
    BY <1>1 DEF DbInv, Restoring, Callers
  <2>2. "" \notin Ops
    BY DEF Ops
  <2> QED
    BY <2>1, <2>2, FreshCall DEF Proper
<1>5. None \notin Hashes
  BY ConstantsAssumption
<1>6. ASSUME NEW h \in Hashes PROVE Kept(h)'
  <2>1. Fits(wish[h], StoredRows, h)
    BY DEF AllKept, Kept
  <2>2. Fits({Stored(h)}, StoredRows, h)
    BY <2>1, StoredFits
  <2>3. wish'[h] = {Stored(h)}
    BY <1>1
  <2>4. Fits(wish[h], StoredRows, h)' /\ Fits(wish[h], rows, h)'
    BY <1>1, <1>2, <2>2, <2>3
  <2>5. Agree(h)'
    BY <1>1, <1>2 DEF Agree, SameRows
  <2>6. Known(h)'
    BY <1>1, <1>3 DEF Known, Has
  <2>7. \A c \in Calls : call'[c].hash # h
    BY <1>1, <1>4, <1>5
  <2> QED
    BY <2>4, <2>5, <2>6, <2>7 DEF Kept
<1>7. OneCallEach' /\ DOMAIN wish' = Hashes
  BY <1>1, <1>4 DEF OneCallEach
<1> QED
  BY <1>6, <1>7 DEF AllKept

\* Every step without a fault keeps every torrent.
LEMMA KeptStep ==
  ASSUME DbInv, IdInv, AllKept, backend # "none", faults \subseteq {"torrentFile"}, faults' \subseteq {"torrentFile"}, Next
  PROVE  AllKept'
<1>1. ASSUME NEW c \in Calls, FlushFails(c) PROVE FALSE
  BY <1>1 DEF FlushFails
<1>2. ASSUME NEW i \in Ids, RestoreFails(i) PROVE FALSE
  BY <1>2 DEF RestoreFails
<1>3. ASSUME NEW c \in Calls, CallStep(c) PROVE AllKept'
  BY <1>1, <1>3, KeptAdd, KeptFails, KeptNextId, KeptAlready, KeptInsert, KeptStart, KeptSnapshot, KeptPutRow,
     KeptExecute, KeptFlush, KeptDeleteRow, KeptUnlink, KeptApply, KeptDelete, KeptRestore, KeptChange DEF CallStep
<1> QED
  BY <1>2, <1>3, KeptGoesOn, KeptExit, KeptBoot DEF Next

\* What a restart would restore of a torrent is what the last finished call left, or what
\* an interrupted one may have left, for both stores and wherever the process stops
\* between two steps of SessionPersistenceStore::store, update_metadata, delete or flush.
\* It needs that calls about one torrent do not overlap, that no two adds got one id, that
\* no write failed and that no call ran into Session::stop.
THEOREM RestartFindsTheLastCall == Spec => []Durable
<1>1. Init => KeptInv
  <2> SUFFICES ASSUME Init PROVE AllKept
    BY DEF KeptInv
  <2>1. \A c \in Calls : call[c].hash = None
    BY DEF Init, Idle
  <2>2. \A i \in Ids, h \in Hashes : ~Has(rows, i, h) /\ ~Has(StoredRows, i, h)
    BY DEF Init, Has, NoRows, StoredRows
  <2>3. None \notin Hashes
    BY ConstantsAssumption
  <2>4. ASSUME NEW h \in Hashes PROVE Kept(h)
    <3>1. wish[h] = {None} /\ index[h] = None
      BY DEF Init
    <3>2. Fits(wish[h], StoredRows, h) /\ Fits(wish[h], rows, h) /\ Agree(h) /\ Known(h)
      BY <2>2, <3>1 DEF Fits, Agree, SameRows, Known
    <3>3. \A c \in Calls : call[c].hash # h
      BY <2>1, <2>3
    <3> QED
      BY <3>2, <3>3 DEF Kept
  <2>5. OneCallEach /\ DOMAIN wish = Hashes
    BY <2>1 DEF OneCallEach, Init
  <2> QED
    BY <2>4, <2>5 DEF AllKept
<1>2. DbInv /\ IdInv /\ KeptInv /\ [Next /\ Bounded]_vars => KeptInv'
  <2>1. ASSUME DbInv, KeptInv, UNCHANGED vars PROVE KeptInv'
    <3>1. UNCHANGED <<backend, phase, index, handle, call, rows, file, toRestore, wish, faults>>
      BY <2>1 DEF vars, database, store, history
    <3>2. StoredRows' = StoredRows
      BY <3>1 DEF StoredRows
    <3>3. AllKept => AllKept'
      BY <2>1, <3>1, <3>2, KeptQuiet
    <3> QED
      BY <2>1, <3>1, <3>3 DEF KeptInv
  <2>2. ASSUME DbInv, IdInv, KeptInv, Next PROVE KeptInv'
    <3>1. backend' = backend /\ faults \subseteq faults'
      BY <2>2, FaultsStay
    <3> QED
      BY <2>2, <3>1, KeptStep DEF KeptInv
  <2> QED
    BY <2>1, <2>2
<1>3. KeptInv => Durable
  <2> SUFFICES ASSUME AllKept, NEW h \in Hashes PROVE Stored(h) \in wish[h]
    BY DEF KeptInv, Durable
  <2>1. Fits(wish[h], StoredRows, h)
    BY DEF AllKept, Kept
  <2> QED
    BY <2>1, StoredFits
<1> QED
  BY <1>1, <1>2, <1>3, DbInvariant, IdInvariant, PTL DEF Spec
=============================================================================
