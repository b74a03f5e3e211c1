---------------------------- MODULE Categories -----------------------------
(***************************************************************************)
(* Categories of torrents: a map in memory, changed by requests, and a     *)
(* file that every request writes anew from a snapshot of the map, through *)
(* a temporary file of a fixed name that is renamed over it. Requests      *)
(* overlap; a file is an inode, so that a writer keeps the one it opened.  *)
(* A write is handed to another thread, and nobody waits for it. This is   *)
(* the json store: with postgres, or without persistence, the categories   *)
(* are in memory only.                                                     *)
(***************************************************************************)
EXTENDS Naturals

CONSTANTS
  Caller, Category, SavePath,
  Inode       \* bound on files that are named, open or being written

NoPath == "none"
NoInode == "no inode"
Torn == [c \in Category |-> "torn"]

ASSUME CategoriesAssumption ==
  NoInode \notin Inode /\ SavePath \cap {NoPath, "torn"} = {}

VARIABLES
  categories,   \* name -> save path, or NoPath where there is no such category
  caller,       \* where each request is
  name, path,   \* its arguments, until they are applied; removing has no path
  copy,         \* its snapshot, until it is handed on
  handle,       \* the inode it has open, until the writing thread has it
  data,         \* contents of the inodes
  late,         \* per inode, the contents handed to the writing thread and not yet there
  file, tmp,    \* the inodes of the two names
  categoryFaults

disk == <<data, late, file, tmp>>
calls == <<caller, name, path, copy, handle>>
categoryVars == <<categories, calls, disk, categoryFaults>>

NoCategories == [c \in Category |-> NoPath]

CategoryInit ==
  /\ categories = NoCategories
  /\ caller = [r \in Caller |-> "idle"] /\ name = [r \in Caller |-> NoPath]
  /\ path = [r \in Caller |-> NoPath] /\ copy = [r \in Caller |-> NoCategories]
  /\ handle = [r \in Caller |-> NoInode]
  /\ data = [i \in Inode |-> NoCategories] /\ late = [i \in Inode |-> {}]
  /\ file = NoInode /\ tmp = NoInode
  /\ categoryFaults = {}

GoOn(r, to) == caller' = [caller EXCEPT ![r] = to]

\* A request is done; nothing of it is left.
Answer(r) ==
  /\ GoOn(r, "idle")
  /\ name' = [name EXCEPT ![r] = NoPath] /\ path' = [path EXCEPT ![r] = NoPath]
  /\ copy' = [copy EXCEPT ![r] = NoCategories]
  /\ handle' = [handle EXCEPT ![r] = NoInode]

\* api_create_or_edit_category asks whether the category exists and then edits or
\* creates; api_remove_category removes at once.
Request(r, c, p) ==
  /\ caller[r] = "idle"
  /\ GoOn(r, IF p = NoPath THEN "remove" ELSE IF categories[c] = NoPath THEN "create" ELSE "edit")
  /\ name' = [name EXCEPT ![r] = c] /\ path' = [path EXCEPT ![r] = p]
  /\ categoryFaults' = categoryFaults \cup
       (IF \E q \in Caller : caller[q] # "idle" THEN {"overlap"} ELSE {})
  /\ UNCHANGED <<categories, copy, handle, disk>>

\* create fails when the category exists, edit and remove when it does not.
Accepted(r) == (caller[r] = "create") <=> (categories[name[r]] = NoPath)

\* Mutant: a removal is not followed by a save.
ApplyUnsavedRemoval(r) ==
  /\ caller[r] \in {"create", "edit", "remove"} /\ Accepted(r)
  /\ categories' = [categories EXCEPT ![name[r]] = path[r]]
  /\ name' = [name EXCEPT ![r] = NoPath] /\ path' = [path EXCEPT ![r] = NoPath]
  /\ GoOn(r, IF caller[r] = "remove" THEN "idle" ELSE "snapshot")
  /\ UNCHANGED <<copy, handle, disk, categoryFaults>>

Apply(r) ==
  /\ caller[r] \in {"create", "edit", "remove"} /\ Accepted(r)
  /\ categories' = [categories EXCEPT ![name[r]] = path[r]]
  /\ name' = [name EXCEPT ![r] = NoPath] /\ path' = [path EXCEPT ![r] = NoPath]
  /\ GoOn(r, "snapshot")
  /\ UNCHANGED <<copy, handle, disk, categoryFaults>>

Refused(r) ==
  /\ caller[r] \in {"create", "edit", "remove"} /\ ~Accepted(r)
  /\ Answer(r)
  /\ UNCHANGED <<categories, disk, categoryFaults>>

\* persist_categories
TakeSnapshot(r) ==
  /\ caller[r] = "snapshot"
  /\ copy' = [copy EXCEPT ![r] = categories]
  /\ GoOn(r, "open")
  /\ UNCHANGED <<categories, name, path, handle, disk, categoryFaults>>

InUse == {file, tmp} \cup {handle[r] : r \in Caller} \cup {i \in Inode : late[i] # {}}

\* An inode with neither a name nor anybody who has it open is gone.
StillThere(contents) ==
  [i \in Inode |-> IF i \in InUse' THEN contents[i] ELSE NoCategories]

\* store_categories: the temporary file is created or truncated,
OpenTmp(r) ==
  /\ caller[r] = "open"
  /\ tmp = NoInode => \E free \in Inode : free \notin InUse
  /\ LET i == IF tmp # NoInode THEN tmp ELSE CHOOSE free \in Inode : free \notin InUse IN
       /\ tmp' = i
       /\ handle' = [handle EXCEPT ![r] = i]
       /\ data' = [data EXCEPT ![i] = Torn]
  /\ GoOn(r, "write")
  /\ UNCHANGED <<categories, name, path, copy, late, file, categoryFaults>>

\* handed what to write, which returns before it is written,
WriteTmp(r) ==
  /\ caller[r] = "write"
  /\ late' = [late EXCEPT ![handle[r]] = @ \cup {copy[r]}]
  /\ copy' = [copy EXCEPT ![r] = NoCategories] /\ handle' = [handle EXCEPT ![r] = NoInode]
  /\ GoOn(r, "rename")
  /\ UNCHANGED <<categories, name, path, data, file, tmp, categoryFaults>>

\* and renamed, which fails when another writer has renamed it already.
RenameTmp(r) ==
  /\ caller[r] = "rename"
  /\ file' = IF tmp = NoInode THEN file ELSE tmp
  /\ tmp' = NoInode
  /\ Answer(r)
  /\ UNCHANGED <<categories, late, categoryFaults>>
  /\ data' = StillThere(data)

StoreFails(r) ==
  /\ caller[r] \in {"open", "write", "rename"}
  /\ Answer(r)
  /\ categoryFaults' = categoryFaults \cup {"io"}
  /\ UNCHANGED <<categories, late, file, tmp>> /\ data' = StillThere(data)

\* tokio's thread writes from the beginning of the file, over what another writer may
\* have put there; an error is dropped with the file.
WriteArrives(i, content, ok) ==
  /\ content \in late[i]
  /\ late' = [late EXCEPT ![i] = @ \ {content}]
  /\ UNCHANGED <<categories, calls, file, tmp>>
  /\ \E there \in IF ok THEN {content} \cup ({Torn} \ {data[i]}) ELSE {data[i], Torn} :
       data' = StillThere([data EXCEPT ![i] = there])
  /\ categoryFaults' = IF ok THEN categoryFaults ELSE categoryFaults \cup {"io"}

\* load_categories: no file is no category, and so is one that cannot be read.
LoadCategories(contents) ==
  IF file = NoInode THEN NoCategories
  ELSE IF contents[file] = Torn THEN NoCategories ELSE contents[file]

\* The process or the machine stops and starts again. Writes that have not arrived are
\* lost; nothing is synced, so the machine may have the new name of the file and not its
\* content.
RestartSession(power) ==
  /\ UNCHANGED <<file, tmp>> /\ late' = [i \in Inode |-> {}] /\ handle' = [r \in Caller |-> NoInode]
  /\ data' = StillThere(IF power /\ file # NoInode THEN [data EXCEPT ![file] = Torn] ELSE data)
  /\ categories' = LoadCategories(data')
  /\ caller' = [r \in Caller |-> "idle"] /\ name' = [r \in Caller |-> NoPath]
  /\ path' = [r \in Caller |-> NoPath] /\ copy' = [r \in Caller |-> NoCategories]
  /\ categoryFaults' = {}

CategoryNext ==
  \/ \E r \in Caller :
       \/ \E c \in Category, p \in SavePath \cup {NoPath} : Request(r, c, p)
       \/ Apply(r) \/ Refused(r) \/ TakeSnapshot(r)
       \/ OpenTmp(r) \/ WriteTmp(r) \/ RenameTmp(r) \/ StoreFails(r)
  \/ \E i \in Inode : \E content \in late[i], ok \in BOOLEAN : WriteArrives(i, content, ok)
  \/ \E power \in BOOLEAN : RestartSession(power)

-----------------------------------------------------------------------------
\* When every request has been answered, the categories in memory are the ones a restart
\* finds, or they are with the thread that writes the file (the request was answered and
\* a stop now loses them, json.rs:385), whatever was refused or cut off by an earlier
\* restart. Excepted are requests that overlapped (the older snapshot may be written
\* last, json.rs:367) and a store that failed, whose change stays in memory.
CategoriesAreStored ==
  (\A r \in Caller : caller[r] = "idle") /\ categoryFaults = {} =>
     LoadCategories(data) = categories \/ (file # NoInode /\ late[file] = {categories})
=============================================================================
