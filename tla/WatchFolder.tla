---------------------------- MODULE WatchFolder ----------------------------
(***************************************************************************)
(* The watched folder. A thread walks it once, then watches it; files that *)
(* are valid when they are read go through a channel to a task that adds   *)
(* them. Users create files whole or write them piecemeal, at any time.    *)
(***************************************************************************)
EXTENDS Naturals, Sequences, SequencesExt

CONSTANTS
  Path, MagnetPath,  \* files of the folder; the ones with the extension magnet
  QueueBound         \* bound on the channel and on events not yet delivered

ASSUME WatchAssumption == MagnetPath \subseteq Path /\ QueueBound \in Nat

VARIABLES
  content,     \* per file: absent, partial or whole
  thread,      \* the watch thread: off, walk, watching or ended
  unvisited,   \* the files the walk has not come to
  events,      \* notify events not yet delivered
  channel,     \* files read and validated
  taken,       \* files the adder gave to the session
  watchFaults

watchVars == <<content, thread, unvisited, events, channel, taken, watchFaults>>

WatchInit ==
  /\ content = [f \in Path |-> "absent"] /\ thread = "off" /\ unvisited = {}
  /\ events = <<>> /\ channel = <<>> /\ taken = {} /\ watchFaults = {}

WatchFolder ==
  /\ thread = "off"
  /\ thread' = "walk" /\ unvisited' = Path
  /\ UNCHANGED <<content, events, channel, taken, watchFaults>>

\* A file completed behind the walk: before watch() is called nothing tells the thread.
Missed(f) == thread = "walk" /\ f \notin unvisited

\* A user creates or completes a file.
WriteFile(f, to) ==
  /\ content[f] # "whole" /\ content[f] # to /\ Len(events) < QueueBound
  /\ content' = [content EXCEPT ![f] = to]
  /\ events' = IF thread = "watching"
                 THEN Append(events, [kind |-> IF content[f] = "absent" THEN "create" ELSE "modify",
                                      path |-> f])
                 ELSE events
  /\ watchFaults' = IF Missed(f) /\ to = "whole" THEN watchFaults \cup {"gap"} ELSE watchFaults
  /\ UNCHANGED <<thread, unvisited, channel, taken>>

\* A user moves or copies a directory into the folder: the event names the directory, and
\* the files that are in it when the watch is extended to it raise none.
BringDirectory(inside) ==
  /\ \A f \in inside : content[f] = "absent"
  /\ content' = [f \in Path |-> IF f \in inside THEN "whole" ELSE content[f]]
  /\ watchFaults' = watchFaults \cup (IF thread = "watching" THEN {"directory"} ELSE {})
                                 \cup (IF \E f \in inside : Missed(f) THEN {"gap"} ELSE {})
  /\ UNCHANGED <<thread, unvisited, events, channel, taken>>

\* Other events of the folder (access, removal) are delivered too.
OtherEvent(f) ==
  /\ thread = "watching" /\ Len(events) < QueueBound
  /\ events' = Append(events, [kind |-> "other", path |-> f])
  /\ UNCHANGED <<content, thread, unvisited, channel, taken, watchFaults>>

\* read_and_validate_torrent, read_and_validate_magnet: opening or reading may fail, and
\* the file is passed over.
Valid(f, readable) == content[f] = "whole" /\ readable

Unread(f, readable) == IF content[f] = "whole" /\ ~readable THEN {"unread"} ELSE {}

\* The walk looks at .torrent files only.
Visit(f, readable) ==
  /\ thread = "walk" /\ f \in unvisited /\ Len(channel) < QueueBound
  /\ unvisited' = unvisited \ {f}
  /\ channel' = IF f \notin MagnetPath /\ Valid(f, readable) THEN Append(channel, f) ELSE channel
  /\ watchFaults' = watchFaults \cup Unread(f, readable)
       \cup (IF f \in MagnetPath /\ content[f] = "whole" THEN {"magnet"} ELSE {})
  /\ UNCHANGED <<content, thread, events, taken>>

\* The watcher is made, or it cannot be and the thread ends.
Watch(ok) ==
  /\ thread = "walk" /\ unvisited = {}
  /\ thread' = IF ok THEN "watching" ELSE "ended"
  /\ UNCHANGED <<content, unvisited, events, channel, taken, watchFaults>>

\* Mutant: a file is read when it appears only.
RelevantCreate(kind) == kind = "create"

Relevant(kind) == kind \in {"create", "modify"}

WatchCb(readable) ==
  /\ thread = "watching" /\ events # <<>> /\ Len(channel) < QueueBound
  /\ LET e == Head(events) IN
     /\ channel' = IF Relevant(e.kind) /\ Valid(e.path, readable) THEN Append(channel, e.path) ELSE channel
     /\ watchFaults' = watchFaults \cup (IF Relevant(e.kind) THEN Unread(e.path, readable) ELSE {})
  /\ events' = Tail(events)
  /\ UNCHANGED <<content, thread, unvisited, taken>>

\* The event queue of the system overflows; the notice of it is of no relevant kind.
LoseEvents ==
  /\ thread = "watching" /\ Len(events) = QueueBound
  /\ events' = <<>>
  /\ watchFaults' = watchFaults \cup {"overflow"}
  /\ UNCHANGED <<content, thread, unvisited, channel, taken>>

\* watch_adder: an error is logged, a torrent that is managed already is fine.
AddOne(ok) ==
  /\ channel # <<>>
  /\ channel' = Tail(channel)
  /\ taken' = IF ok THEN taken \cup {Head(channel)} ELSE taken
  /\ watchFaults' = IF ok THEN watchFaults ELSE watchFaults \cup {"failed"}
  /\ UNCHANGED <<content, thread, unvisited, events>>

\* The session is stopped and started again; the folder and the torrents stay.
StopWatching ==
  /\ thread # "off"
  /\ thread' = "off" /\ unvisited' = {} /\ events' = <<>> /\ channel' = <<>>
  /\ watchFaults' = {}
  /\ UNCHANGED <<content, taken>>

WatchNext ==
  \/ WatchFolder \/ LoseEvents \/ StopWatching
  \/ \E ok \in BOOLEAN : Watch(ok) \/ WatchCb(ok) \/ AddOne(ok)
  \/ \E f \in Path :
       \/ \E to \in {"partial", "whole"} : WriteFile(f, to)
       \/ OtherEvent(f)
       \/ \E readable \in BOOLEAN : Visit(f, readable)
  \/ \E inside \in (SUBSET Path) \ {{}} : BringDirectory(inside)

-----------------------------------------------------------------------------
\* Once the folder is watched, every complete file in it has been added or is on its
\* way: however it was written before, during or after the walk. Excepted are files
\* completed between the walk and watch() (watch.rs:174), magnet files that were there
\* before (watch.rs:159), files that came inside a directory (watch.rs:181), files that
\* could not be read when their turn came (watch.rs:91-105), lost events and failed adds.
WatchedFilesAdded ==
  thread = "watching" /\ watchFaults = {} =>
    \A f \in Path : content[f] = "whole" =>
      f \in taken \cup ToSet(channel) \cup {e.path : e \in {e \in ToSet(events) : e.kind # "other"}}
=============================================================================
