------------------------------ MODULE SessionDb ------------------------------
(***************************************************************************)
(* The session's database of torrents and its persistence store.           *)
(*                                                                         *)
(* API calls add, delete, pause, unpause and reselect torrents. Each call  *)
(* changes the database in memory, then the store, in several steps with   *)
(* awaits in between, while other calls do the same. The process may stop  *)
(* at any moment; the next one restores what the store holds.              *)
(*                                                                         *)
(* Two stores exist. "json" keeps rows in memory, rewrites session.json    *)
(* after every change and has a .torrent file per torrent; "postgres" is a *)
(* table whose statements are atomic. With "none" nothing survives.        *)
(***************************************************************************)
EXTENDS Integers, FiniteSets

CONSTANTS
  Hashes,     \* info hashes
  Calls,      \* slots for concurrent API calls, or for futures of the restore
  Selections, \* values of only_files
  MaxId,      \* bound on torrent ids
  Handles,    \* identities of ManagedTorrent objects in memory
  Backends,   \* the stores a run looks at
  MaxFaults,  \* bound on the kinds of faults in one behaviour
  MaxCalls,   \* bound on the API calls of one behaviour
  None

ASSUME ConstantsAssumption ==
  /\ MaxId \in Nat /\ MaxFaults \in Nat /\ MaxCalls \in Nat
  /\ Backends \subseteq {"json", "postgres", "none"}
  /\ None \notin Hashes \cup Handles \cup (0..MaxId)

VARIABLES
  backend,   \* SessionOptions::persistence
  phase,     \* "up", "stopping", "down" or "restoring"
  torrents,  \* SessionDatabase::torrents, id -> handle
  index,     \* SessionDatabase::info_hash_to_id
  handle,    \* the ManagedTorrent objects: hash, id, settings, run state
  counter,   \* Session::next_id, or the sequence torrents_id of postgres
  rows,      \* the store: db_content of json, the table of postgres
  file,      \* what session.json says, and whether the bytes have arrived
  torrentFiles, \* hashes with a .torrent file in the json folder
  arriving,  \* those of them that are truncated, their bytes still on their way
  call,      \* what each call is doing
  toRestore, \* ids the restore has not looked at yet
  wish,      \* per hash, what the store may say given what the user was told
  made,      \* API calls made so far
  faults     \* what has happened so far that a store may not cope with

database == <<torrents, index, handle, counter>>
dotTorrent == <<torrentFiles, arriving>>
store == <<rows, file, dotTorrent>>
history == <<wish, made, faults>>
vars == <<backend, phase, database, store, call, toRestore, history>>

Ids == 0..MaxId
Settings == [paused : BOOLEAN, only : Selections]
Row == [hash : Hashes, set : Settings]
Torrent == [hash : Hashes, id : Ids, set : Settings, run : {"live", "paused", "error", "gone"}]

ASSUME NoneAssumption == None \notin Row \cup Torrent \cup Settings

NoRows == [i \in Ids |-> None]
Idle == [stage |-> "idle", op |-> "", hash |-> None, id |-> None, h |-> None, row |-> None]
Ops == {"add", "restore", "delete", "pause", "unpause", "select"}
Stages == {"idle", "id", "insert", "snapshot", "row", "flush", "start", "unlink", "apply", "failed"}
CallState == [stage : Stages, op : Ops \cup {""}, hash : Hashes \cup {None}, id : Ids \cup {None},
              h : Handles \cup {None}, row : Settings \cup Row \cup {None}]

TypeOK ==
  /\ backend \in Backends
  /\ phase \in {"up", "stopping", "down", "restoring"}
  /\ torrents \in [Ids -> Handles \cup {None}]
  /\ index \in [Hashes -> Ids \cup {None}]
  /\ handle \in [Handles -> Torrent \cup {None}]
  /\ counter \in 0..(MaxId + 1)
  /\ rows \in [Ids -> Row \cup {None}]
  /\ file \in [rows : [Ids -> Row \cup {None}], written : BOOLEAN]
  /\ torrentFiles \subseteq Hashes /\ arriving \subseteq Hashes
  /\ toRestore \subseteq Ids
  /\ call \in [Calls -> CallState]

Init ==
  /\ backend \in Backends
  /\ phase = "up"
  /\ torrents = NoRows
  /\ index = [h \in Hashes |-> None]
  /\ handle = [k \in Handles |-> None]
  /\ counter = 0
  /\ rows = NoRows
  /\ file = [rows |-> NoRows, written |-> TRUE]
  /\ torrentFiles = {} /\ arriving = {}
  /\ call = [c \in Calls |-> Idle]
  /\ toRestore = {}
  /\ wish = [h \in Hashes |-> {None}]
  /\ made = 0
  /\ faults = {}

-----------------------------------------------------------------------------
(* Calls *)

Busy(c) == call[c].stage # "idle"
Goto(c, s) ==
  /\ call' = [call EXCEPT ![c].stage = s]
  /\ UNCHANGED handle

\* A call that returns lets go of its torrent; the last reference frees the object.
ReturnWith(c, table) ==
  LET k == call[c].h IN
  /\ call' = [call EXCEPT ![c] = Idle]
  /\ handle' = IF \/ k = None
                  \/ \E i \in Ids : table[i] = k
                  \/ \E d \in Calls \ {c} : call[d].h = k
               THEN handle ELSE [handle EXCEPT ![k] = None]

Return(c) == ReturnWith(c, torrents)

\* Two calls about one torrent at the same time are remembered: a store row is
\* then written by two steps whose order nobody controls.
Begin(c, op, h, fields) ==
  /\ ~Busy(c)
  /\ made' = IF op = "restore" THEN made ELSE made + 1
  /\ made' <= MaxCalls
  /\ call' = [call EXCEPT ![c] = [fields EXCEPT !.op = op, !.hash = h]]
  /\ faults' = faults \cup
       (IF \E d \in Calls \ {c} : call[d].hash = h THEN {"sameTorrent"} ELSE {}) \cup
       (IF phase = "stopping" THEN {"stop"} ELSE {})

\* What the user may find after a restart while a call is in progress: what was
\* there before, or what the call asks for.
MayBecome(h, v) == wish' = [wish EXCEPT ![h] = @ \cup {v}]
Settled(h, v) == wish' = [wish EXCEPT ![h] = {v}]

FreeHandles == {k \in Handles : handle[k] = None}

MaxStored == {i \in Ids : rows[i] # None /\ \A j \in Ids : rows[j] # None => j <= i}

\* SessionDatabase::add_torrent and remove_torrent
DbAdd(h, i, k) ==
  /\ index' = [index EXCEPT ![h] = i]
  /\ torrents' = [torrents EXCEPT ![i] = k]

\* Mutant: the reverse index keeps the torrent.
DbRemoveFromTable(i) ==
  /\ torrents' = [torrents EXCEPT ![i] = None]
  /\ UNCHANGED index

DbRemove(i) ==
  /\ torrents' = [torrents EXCEPT ![i] = None]
  /\ index' = IF torrents[i] = None THEN index
              ELSE [index EXCEPT ![handle[torrents[i]].hash] = None]

-----------------------------------------------------------------------------
(* Adding a torrent *)

AddTorrent(c, h, s) ==
  /\ phase \in {"up", "stopping"}
  /\ Begin(c, "add", h, [Idle EXCEPT !.stage = "id", !.row = s])
  /\ UNCHANGED <<backend, phase, database, store, toRestore, wish>>

\* Resolving a magnet link, decoding or the selection failed, or a torrent refused
\* to be changed.
Fails(c) ==
  /\ call[c].stage \in {"id", "failed"}
  /\ Return(c)
  /\ UNCHANGED <<backend, phase, torrents, index, counter, store, toRestore, history>>

\* Mutant: every store derives the id from what it holds.
NextIdFromRows(c) ==
  /\ call[c].stage = "id"
  /\ \E i \in IF MaxStored = {} THEN {0} ELSE {m + 1 : m \in MaxStored} :
       /\ i \in Ids
       /\ call' = [call EXCEPT ![c].stage = "insert", ![c].id = i]
  /\ UNCHANGED <<backend, phase, database, store, toRestore, history>>

\* The json store answers one more than the largest stored id, which another add
\* may also have been told.
NextId(c) ==
  /\ call[c].stage = "id"
  /\ IF backend = "json"
     THEN /\ \E i \in IF MaxStored = {} THEN {0} ELSE {m + 1 : m \in MaxStored} :
               /\ i \in Ids
               /\ call' = [call EXCEPT ![c].stage = "insert", ![c].id = i]
               /\ faults' = faults \cup
                    (IF \E d \in Calls \ {c} : call[d].op = "add" /\ call[d].id = i
                     THEN {"sameId"} ELSE {})
          /\ UNCHANGED counter
     ELSE /\ counter \in Ids
          /\ counter' = counter + 1
          /\ call' = [call EXCEPT ![c].stage = "insert", ![c].id = counter]
          /\ UNCHANGED faults
  /\ UNCHANGED <<backend, phase, torrents, index, handle, store, toRestore, wish, made>>
\* The answer AlreadyManaged tells the user that the torrent is there.
AlreadyManaged(c) ==
  /\ call[c].stage = "insert"
  /\ torrents[call[c].id] # None \/ index[call[c].hash] # None
  /\ wish' = IF call[c].op = "add" THEN [wish EXCEPT ![call[c].hash] = @ \ {None}] ELSE wish
  /\ Return(c)
  /\ UNCHANGED <<backend, phase, torrents, index, counter, store, toRestore, faults, made>>
Insert(c) ==
  /\ call[c].stage = "insert"
  /\ torrents[call[c].id] = None /\ index[call[c].hash] = None
  /\ FreeHandles # {}
  /\ LET k == CHOOSE x \in FreeHandles : TRUE IN
       /\ DbAdd(call[c].hash, call[c].id, k)
       /\ handle' = [handle EXCEPT ![k] =
            [hash |-> call[c].hash, id |-> call[c].id, set |-> call[c].row,
             run |-> IF call[c].row.paused THEN "paused" ELSE "live"]]
       /\ call' = [call EXCEPT ![c].h = k,
            ![c].stage = IF backend = "none" THEN "start" ELSE "snapshot"]
  /\ MayBecome(call[c].hash, call[c].row)
  /\ UNCHANGED <<backend, phase, counter, store, toRestore, faults, made>>
\* start() fails on a torrent that was deleted in the meantime; the answer is then
\* an error.
Start(c) ==
  /\ call[c].stage = "start"
  /\ LET k == call[c].h IN
       IF call[c].op = "add" /\ handle[k].run # "gone"
       THEN Settled(call[c].hash, handle[k].set)
       ELSE UNCHANGED wish
  /\ Return(c)
  /\ UNCHANGED <<backend, phase, torrents, index, counter, store, toRestore, faults, made>>
-----------------------------------------------------------------------------
(* Writing to the store *)

RowOf(k) == [hash |-> handle[k].hash, set |-> handle[k].set]

\* The .torrent file, for a new torrent and for a restored one: it is truncated, and its
\* bytes are handed over but not waited for. A file that cannot be opened stays as it is,
\* and the store goes on without it.
WriteTorrentFile(h) ==
  \/ /\ torrentFiles' = torrentFiles \cup {h} /\ arriving' = arriving \cup {h}
     /\ UNCHANGED faults
  \/ faults' = faults \cup {"torrentFile"} /\ UNCHANGED dotTorrent

\* update_db of json reads the torrent and writes the .torrent file; store and
\* update_metadata of postgres bind their parameters.
Snapshot(c) ==
  /\ call[c].stage = "snapshot"
  /\ call' = [call EXCEPT ![c].stage = "row", ![c].row = RowOf(call[c].h)]
  /\ IF backend = "json" /\ call[c].op \in {"add", "restore"}
     THEN WriteTorrentFile(call[c].hash) ELSE UNCHANGED <<dotTorrent, faults>>
  /\ UNCHANGED <<backend, phase, database, rows, file, toRestore, wish, made>>

\* The bytes of a .torrent file arrive, or the write fails and nobody looks at the error.
TorrentFileWritten(h) ==
  /\ h \in arriving /\ arriving' = arriving \ {h}
  /\ \/ UNCHANGED <<torrentFiles, faults>>
     \/ torrentFiles' = torrentFiles \ {h} /\ faults' = faults \cup {"torrentFile"}
  /\ UNCHANGED <<backend, phase, database, rows, file, call, toRestore, wish, made>>

AfterStore(op) == IF op \in {"add", "restore"} THEN "start" ELSE "idle"

PutRow(c) ==
  /\ backend = "json"
  /\ call[c].stage = "row" /\ call[c].op # "delete"
  /\ rows' = [rows EXCEPT ![call[c].id] = call[c].row]
  /\ Goto(c, "flush")
  /\ UNCHANGED <<backend, phase, torrents, index, counter, file, dotTorrent, toRestore, history>>

\* Mutant: rows are only ever inserted.
ExecuteInsert(c) ==
  /\ backend = "postgres"
  /\ call[c].stage = "row" /\ call[c].op # "delete"
  /\ rows' = IF rows[call[c].id] = None THEN [rows EXCEPT ![call[c].id] = call[c].row] ELSE rows
  /\ IF AfterStore(call[c].op) = "start"
     THEN Goto(c, "start") /\ UNCHANGED wish
     ELSE Return(c) /\ Settled(call[c].hash, call[c].row.set)
  /\ UNCHANGED <<backend, phase, torrents, index, counter, file, dotTorrent, toRestore, faults, made>>

\* INSERT ... ON CONFLICT DO NOTHING, and UPDATE ... WHERE id
Execute(c) ==
  /\ backend = "postgres"
  /\ call[c].stage = "row" /\ call[c].op # "delete"
  /\ rows' = IF (rows[call[c].id] = None) = (call[c].op \in {"add", "restore"})
             THEN [rows EXCEPT ![call[c].id] = call[c].row] ELSE rows
  /\ IF AfterStore(call[c].op) = "start"
     THEN Goto(c, "start") /\ UNCHANGED wish
     ELSE Return(c) /\ Settled(call[c].hash, call[c].row.set)
  /\ UNCHANGED <<backend, phase, torrents, index, counter, file, dotTorrent, toRestore, faults, made>>
\* flush() writes under the write lock of db_content, renames the temporary file
\* and returns; the bytes may still be on their way to the file.
Flush(c) ==
  /\ call[c].stage = "flush"
  /\ file' = [rows |-> rows, written |-> FALSE]
  /\ IF call[c].op = "delete" THEN Goto(c, "unlink") /\ UNCHANGED wish
     ELSE IF AfterStore(call[c].op) = "start" THEN Goto(c, "start") /\ UNCHANGED wish
     ELSE Return(c) /\ Settled(call[c].hash, call[c].row.set)
  /\ UNCHANGED <<backend, phase, torrents, index, counter, rows, dotTorrent, toRestore, faults, made>>
Written ==
  /\ ~file.written
  /\ file' = [file EXCEPT !.written = TRUE]
  /\ UNCHANGED <<backend, phase, database, rows, dotTorrent, call, toRestore, history>>

\* A failed add is taken out of the session again, but not out of db_content.
FlushFails(c) ==
  /\ call[c].stage = "flush"
  /\ faults' = faults \cup {"flush"}
  /\ IF call[c].op \in {"add", "restore"} THEN DbRemove(call[c].id)
     ELSE UNCHANGED <<torrents, index>>
  /\ ReturnWith(c, torrents')
  /\ UNCHANGED <<backend, phase, counter, store, toRestore, wish, made>>
-----------------------------------------------------------------------------
(* Deleting a torrent *)

\* Removal from the database, cancellation and pause happen before the first await.
Delete(c, i) ==
  /\ phase \in {"up", "stopping"}
  /\ torrents[i] # None
  /\ LET k == torrents[i] IN
       /\ Begin(c, "delete", handle[k].hash,
            [Idle EXCEPT !.stage = IF backend = "none" THEN "unlink" ELSE "row",
                         !.id = i, !.h = k])
       /\ MayBecome(handle[k].hash, None)
       /\ handle' = [handle EXCEPT ![k].run = "gone",
                                   ![k].set.paused = @ \/ handle[k].run = "live"]
  /\ DbRemove(i)
  /\ UNCHANGED <<backend, phase, counter, store, toRestore>>

\* Mutant: the files of the torrent go first.
DeleteRowAfterFiles(c) ==
  /\ call[c].stage = "row" /\ call[c].op = "delete"
  /\ rows' = [rows EXCEPT ![call[c].id] = None]
  /\ torrentFiles' = torrentFiles \ {call[c].hash} /\ arriving' = arriving \ {call[c].hash}
  /\ IF backend = "json" /\ rows[call[c].id] # None
     THEN Goto(c, "flush") /\ UNCHANGED wish
     ELSE Return(c) /\ Settled(call[c].hash, None)
  /\ UNCHANGED <<backend, phase, torrents, index, counter, file, toRestore, faults, made>>

\* The json store fails when it has no such row, and its files stay.
DeleteRow(c) ==
  /\ call[c].stage = "row" /\ call[c].op = "delete"
  /\ rows' = [rows EXCEPT ![call[c].id] = None]
  /\ IF backend = "json" /\ rows[call[c].id] # None
     THEN Goto(c, "flush") /\ UNCHANGED wish
     ELSE Return(c) /\ Settled(call[c].hash, None)
  /\ UNCHANGED <<backend, phase, torrents, index, counter, file, dotTorrent, toRestore, faults, made>>
Unlink(c) ==
  /\ call[c].stage = "unlink"
  /\ torrentFiles' = torrentFiles \ {call[c].hash} /\ arriving' = arriving \ {call[c].hash}
  /\ Settled(call[c].hash, None)
  /\ Return(c)
  /\ UNCHANGED <<backend, phase, torrents, index, counter, rows, file, toRestore, faults, made>>
-----------------------------------------------------------------------------
(* Changing a torrent *)

\* A call looks the torrent up and keeps the object from then on.
Change(c, op, i) ==
  /\ phase \in {"up", "stopping"}
  /\ torrents[i] # None
  /\ LET k == torrents[i] IN
       Begin(c, op, handle[k].hash, [Idle EXCEPT !.stage = "apply", !.id = i, !.h = k])
  /\ UNCHANGED <<backend, phase, database, store, toRestore, wish>>

\* pause() fails on a torrent that is paused, failed or gone, start() on one that
\* is live or gone, though by then it has recorded the wish. A new selection is
\* accepted in every state.
Accepts(op, run) ==
  CASE op = "pause" -> run = "live"
    [] op = "unpause" -> run \in {"paused", "error"}
    [] op = "select" -> TRUE

Changed(t, op, o) ==
  CASE op = "pause" -> [t EXCEPT !.set.paused = TRUE, !.run = "paused"]
    [] op = "unpause" -> [t EXCEPT !.set.paused = FALSE, !.run = "live"]
    [] op = "select" -> [t EXCEPT !.set.only = o]

Apply(c) ==
  LET k == call[c].h  op == call[c].op IN
  /\ call[c].stage = "apply"
  /\ Accepts(op, handle[k].run)
  /\ \E o \in Selections :
       /\ handle' = [handle EXCEPT ![k] = Changed(@, op, o)]
       /\ MayBecome(call[c].hash, Changed(handle[k], op, o).set)
  /\ call' = [call EXCEPT ![c].stage = IF backend = "none" THEN "failed" ELSE "snapshot"]
  /\ UNCHANGED <<backend, phase, torrents, index, counter, store, toRestore, faults, made>>
Refuse(c) ==
  LET k == call[c].h  op == call[c].op IN
  /\ call[c].stage = "apply"
  /\ ~Accepts(op, handle[k].run)
  /\ handle' = IF op = "unpause" THEN [handle EXCEPT ![k].set.paused = FALSE] ELSE handle
  /\ call' = [call EXCEPT ![c].stage = "failed"]
  /\ UNCHANGED <<backend, phase, torrents, index, counter, store, toRestore, history>>

TorrentFails(k) ==
  /\ \E i \in Ids : torrents[i] = k
  /\ handle[k].run = "live"
  /\ handle' = [handle EXCEPT ![k].run = "error"]
  /\ UNCHANGED <<backend, phase, torrents, index, counter, store, call, toRestore, history>>

-----------------------------------------------------------------------------
(* The process *)

\* What a process that starts now would restore of a torrent.
StoredRows == IF backend = "json" THEN file.rows ELSE rows
Stored(h) ==
  LET is == {i \in Ids : StoredRows[i] # None /\ StoredRows[i].hash = h} IN
  IF is = {} THEN None ELSE StoredRows[CHOOSE i \in is : TRUE].set

\* Session::stop pauses every torrent and does not store that.
Stop ==
  /\ phase = "up"
  /\ phase' = "stopping"
  /\ handle' = [k \in Handles |->
       IF (\E i \in Ids : torrents[i] = k) /\ handle[k].run = "live"
       THEN [handle[k] EXCEPT !.set.paused = TRUE, !.run = "paused"] ELSE handle[k]]
  /\ faults' = faults \cup (IF \E c \in Calls : Busy(c) THEN {"stop"} ELSE {})
  /\ UNCHANGED <<backend, torrents, index, counter, store, call, toRestore, wish, made>>
\* A rename that overtook its bytes leaves an empty session.json; .torrent files whose bytes
\* have not arrived stay empty, and count as missing.
Exit ==
  /\ phase # "down"
  /\ backend # "none"
  /\ phase' = "down"
  /\ torrents' = NoRows /\ index' = [h \in Hashes |-> None]
  /\ handle' = [k \in Handles |-> None]
  /\ call' = [c \in Calls |-> Idle]
  /\ toRestore' = {}
  /\ rows' = IF backend = "json" THEN NoRows ELSE rows
  /\ faults' = faults \cup (IF file.written THEN {} ELSE {"torn"})
                      \cup (IF arriving = {} THEN {} ELSE {"torrentFile"})
  /\ torrentFiles' = torrentFiles \ arriving /\ arriving' = {}
  /\ file' = IF file.written THEN file ELSE [rows |-> NoRows, written |-> TRUE]
  /\ UNCHANGED <<backend, counter, wish, made>>
\* An empty session.json does not parse and the session does not come up.
Boot ==
  /\ phase = "down"
  /\ "torn" \notin faults
  /\ phase' = "restoring"
  /\ rows' = IF backend = "json" THEN file.rows ELSE rows
  /\ toRestore' = {i \in Ids : rows'[i] # None}
  /\ wish' = [h \in Hashes |-> {Stored(h)}]
  /\ UNCHANGED <<backend, database, file, dotTorrent, call, faults, made>>
\* A torrent is restored under its old id. Without its .torrent file it is a magnet
\* link, and resolving that may fail.
Restore(c, i) ==
  /\ phase = "restoring"
  /\ i \in toRestore
  /\ toRestore' = toRestore \ {i}
  /\ Begin(c, "restore", rows[i].hash,
           [Idle EXCEPT !.stage = "insert", !.id = i, !.row = rows[i].set])
  /\ UNCHANGED <<backend, phase, database, store, wish>>

RestoreFails(i) ==
  /\ phase = "restoring"
  /\ i \in toRestore
  /\ toRestore' = toRestore \ {i}
  /\ faults' = faults \cup {"restore"}
  /\ UNCHANGED <<backend, phase, database, store, call, wish, made>>
Restored ==
  /\ phase = "restoring"
  /\ toRestore = {}
  /\ \A c \in Calls : ~Busy(c)
  /\ phase' = "up"
  /\ UNCHANGED <<backend, database, store, call, toRestore, history>>

-----------------------------------------------------------------------------
CallStep(c) ==
  \/ \E h \in Hashes, s \in Settings : AddTorrent(c, h, s)
  \/ Fails(c) \/ NextId(c) \/ AlreadyManaged(c) \/ Insert(c) \/ Start(c)
  \/ Snapshot(c) \/ PutRow(c) \/ Execute(c) \/ Flush(c) \/ FlushFails(c)
  \/ DeleteRow(c) \/ Unlink(c) \/ Apply(c) \/ Refuse(c)
  \/ \E i \in Ids : Delete(c, i) \/ Restore(c, i)
  \/ \E i \in Ids, op \in {"pause", "unpause", "select"} : Change(c, op, i)

Next ==
  \/ \E c \in Calls : CallStep(c)
  \/ \E k \in Handles : TorrentFails(k)
  \/ \E i \in Ids : RestoreFails(i)
  \/ \E h \in Hashes : TorrentFileWritten(h)
  \/ Written \/ Stop \/ Exit \/ Boot \/ Restored

Bounded == Cardinality(faults') <= MaxFaults

Spec == Init /\ [][Next /\ Bounded]_vars

-----------------------------------------------------------------------------
(* Properties *)

\* The lookup by info hash, which incoming handshakes and the test for duplicates
\* rely on, and the table of torrents say the same, whatever calls interleave,
\* fail or are cut off: SessionDatabase keeps two maps by hand.
IndexAgrees ==
  /\ \A h \in Hashes : index[h] # None =>
       torrents[index[h]] # None /\ handle[torrents[index[h]]].hash = h
  /\ \A i \in Ids : torrents[i] # None =>
       handle[torrents[i]] # None /\ index[handle[torrents[i]].hash] = i

\* What a restart would restore of a torrent is what the last finished call left,
\* or what an interrupted one may have left: torrents are neither forgotten nor
\* brought back, nor restored with an older setting, and at no moment of a call
\* either. It needs that calls about one torrent do not overlap, that two adds did
\* not get one id, and that no write of the rows failed or was cut off; the .torrent
\* file of a torrent may be missing.
Durable ==
  faults \subseteq {"torrentFile"} /\ backend # "none" => \A h \in Hashes : Stored(h) \in wish[h]

\* A row in session.json has its .torrent file: the file is made before the row and
\* removed after it, in every order of calls and across restarts, each of which writes it
\* again. Without the file the restart has to find the metadata on the network. That is
\* so after "torrentFile": the file could not be opened or written, which is only logged,
\* or the process ended while its bytes were on their way, which nothing waits for.
RowHasTorrentFile ==
  backend = "json" /\ faults \cap {"sameTorrent", "flush", "restore", "torrentFile"} = {} =>
    \A i \in Ids : file.rows[i] # None => file.rows[i].hash \in torrentFiles

\* An add that got its id finds it free, otherwise it would answer AlreadyManaged
\* with another torrent. The json store breaks this when two adds overlap.
FreshIdIsFree ==
  "sameId" \notin faults =>
    \A c \in Calls : call[c].op = "add" /\ call[c].stage = "insert" => torrents[call[c].id] = None
=============================================================================
