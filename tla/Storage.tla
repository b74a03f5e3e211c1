------------------------------ MODULE Storage ------------------------------
(***************************************************************************)
(* The storage of a torrent: the files of the file system back end, behind *)
(* them optionally the write-through cache, and the calls of FileOps that  *)
(* write chunks and check pieces. Pausing a torrent does not wait for its  *)
(* writers: it takes the storage away from them, file by file. What this   *)
(* shows is that taking is enough, and that a piece that passed its check  *)
(* is on disk although the check may have read it from the cache.          *)
(*                                                                         *)
(* A storage object is a number; take() makes the next one. That the       *)
(* chunks of a piece have one writer at a time in a live torrent comes     *)
(* from PieceDownload (PieceLockProtects); writers of earlier live         *)
(* torrents may still be on their way. A peer that stole a piece requests  *)
(* and writes all its chunks, those already recorded too.                  *)
(***************************************************************************)
EXTENDS Naturals, Sequences, FiniteSets, SequencesExt

CONSTANTS
  Blocks,       \* the chunks of the torrent
  BlockPiece,   \* the piece of each of them
  Span,         \* the files a chunk reaches into, in order
  Padding,      \* files that exist in the metadata only
  CacheSizes,   \* capacities of the cache, in pieces; 0 is no cache
  MaxObjects,   \* bound on the storage objects of a behaviour
  MaxJobs       \* bound on the chunks that are being written at once

OnDisk(s) == SelectSeq(s, LAMBDA f : f \notin Padding)

ASSUME StorageAssumption ==
  /\ CacheSizes \subseteq Nat /\ MaxObjects \in Nat \ {0} /\ MaxJobs \in Nat
  /\ \A b \in Blocks : OnDisk(Span[b]) \in Seq(Nat)

VARIABLES
  capacity,     \* of the cache of this torrent
  overwrite,    \* allow_overwrite of the torrent
  exist,        \* the files that are there
  life,         \* state of the torrent
  stopping,     \* the state it is in once its storage has been taken
  object,       \* the storage object in use
  opened,       \* per object, the files it has open
  cached,       \* per object, the pieces in its cache, the least recently used first
  pages,        \* per object, what its cache holds of each part of a chunk
  ondisk,      \* what the files hold of it
  jobs,         \* calls of write_to_disk
  written,      \* chunks recorded as downloaded
  verified,     \* pieces recorded as downloaded
  fatal,        \* a writer has reported a fatal error
  halfRewritten,  \* pieces with a recorded chunk that was cached again but not written again
  storageFaults

stateVars == <<life, stopping, fatal>>
tracker == <<written, verified>>
lru == <<cached, pages>>
files == <<exist, opened, ondisk>>
faults == <<halfRewritten, storageFaults>>
storageVars == <<capacity, overwrite, stateVars, tracker, object, lru, files, jobs, faults>>

Objects == 1..MaxObjects
Parts == UNION {{<<b, f>> : f \in ToSet(OnDisk(Span[b]))} : b \in Blocks}
RealFiles == {part[2] : part \in Parts}
BlocksOf(z) == {b \in Blocks : BlockPiece[b] = z}
PartsOf(z) == {part \in Parts : BlockPiece[part[1]] = z}
AllPiecesOf(bs) == {BlockPiece[b] : b \in bs}

StorageInit ==
  /\ capacity \in CacheSizes /\ overwrite \in BOOLEAN /\ exist \in {{}, RealFiles}
  /\ life = "opening" /\ stopping = "paused" /\ fatal = FALSE
  /\ object = 1 /\ opened = [o \in Objects |-> {}]
  /\ cached = [o \in Objects |-> <<>>] /\ pages = [o \in Objects |-> [part \in Parts |-> "zero"]]
  /\ ondisk = [part \in Parts |-> "zero"]
  /\ jobs = {} /\ written = {} /\ verified = {} /\ halfRewritten = {} /\ storageFaults = {}

-----------------------------------------------------------------------------
(* Opening. Files are opened in order; without allow_overwrite each of them  *)
(* must be new, also when the torrent restarts after an error.               *)

ToOpen == RealFiles \ opened[object]
NextToOpen(f) == f \in ToOpen /\ \A g \in ToOpen : f <= g
MayOpen(f) == overwrite \/ f \notin exist

OpenFile(f) ==
  /\ life = "opening" /\ NextToOpen(f) /\ MayOpen(f)
  /\ exist' = exist \cup {f}
  /\ opened' = [opened EXCEPT ![object] = @ \cup {f}]
  /\ UNCHANGED <<capacity, overwrite, stateVars, tracker, object, lru, ondisk, jobs, faults>>

\* The files opened so far are closed again, but those created stay.
OpenFails(f) ==
  /\ life = "opening" /\ NextToOpen(f)
  /\ opened' = [opened EXCEPT ![object] = {}]
  /\ life' = "error"
  /\ UNCHANGED <<capacity, overwrite, stopping, fatal, tracker, object, lru, exist, ondisk, jobs, faults>>

\* The initialization that follows keeps the stored bitfield or reads everything.
Initialized ==
  /\ life = "opening" /\ ToOpen = {}
  /\ verified' \in {verified, {z \in AllPiecesOf(Blocks) : \A part \in PartsOf(z) : ondisk[part] = "good"}}
  /\ written' = UNION {BlocksOf(z) : z \in verified'}
  /\ life' = "paused"
  /\ UNCHANGED <<capacity, overwrite, stopping, fatal, object, lru, files, jobs, faults>>

GoLive ==
  /\ life = "paused" /\ life' = "live"
  /\ UNCHANGED <<capacity, overwrite, stopping, fatal, tracker, object, lru, files, jobs, faults>>

CreateAgain ==
  /\ life = "error" /\ life' = "opening"
  /\ UNCHANGED <<capacity, overwrite, stopping, fatal, tracker, object, lru, files, jobs, faults>>

-----------------------------------------------------------------------------
(* Writing a chunk: into the cache if there is one, whose lock is kept until *)
(* the file has been written, and into the file, under its read lock.        *)

FirstStep == IF capacity > 0 THEN "cache" ELSE "file"

Replace(j, k) == jobs' = (jobs \ {j}) \cup {k}
Finish(j) == jobs' = jobs \ {j}

WriteChunk(b, good) ==
  /\ life = "live" /\ Cardinality(jobs) < MaxJobs
  /\ ~(BlocksOf(BlockPiece[b]) \subseteq written)
  /\ ~ \E j \in jobs : j.object = object /\ BlockPiece[j.block] = BlockPiece[b]
  /\ jobs' = jobs \cup {[object |-> object, block |-> b, left |-> OnDisk(Span[b]), good |-> good,
                         step |-> IF OnDisk(Span[b]) = <<>> THEN "mark" ELSE FirstStep]}
  /\ UNCHANGED <<capacity, overwrite, stateVars, tracker, object, lru, files, faults>>

\* The live torrent that made the call still has its tracker.
StillLive(j) == life = "live" /\ j.object = object

Value(j) == IF j.good THEN "good" ELSE "bad"

\* The next file, or the bookkeeping after the last one, which has no use for the bytes.
Advance(j) ==
  Replace(j, IF Len(j.left) = 1 THEN [j EXCEPT !.left = <<>>, !.step = "mark", !.good = TRUE]
             ELSE [j EXCEPT !.left = Tail(@), !.step = FirstStep])

CacheFree(o) == capacity = 0 \/ ~ \E j \in jobs : j.object = o /\ j.step \in {"file", "guard"}

\* A storage that has been taken keeps a cache of one piece.
Capacity(o) == IF o = object /\ life # "taking" THEN capacity ELSE 1

\* get_or_insert_mut: the piece is the most recently used one afterwards, a new one
\* is all zeros, and the least recently used one makes room for it.
Touched(o, z) ==
  LET others == RemoveFirst(cached[o], z)
      room == Capacity(o) - 1
  IN (IF Len(others) > room THEN SubSeq(others, Len(others) - room + 1, Len(others)) ELSE others) \o <<z>>

CachePutting(j, kept) ==
  LET z == BlockPiece[j.block]
      now == Touched(j.object, z)
      evicted == (ToSet(cached[j.object]) \ ToSet(now)) \ verified
  IN /\ j.step = "cache" /\ CacheFree(j.object)
     /\ cached' = [cached EXCEPT ![j.object] = now]
     /\ pages' = [pages EXCEPT ![j.object] =
          [part \in Parts |->
            IF part = <<j.block, Head(j.left)>> THEN Value(j)
            ELSE IF BlockPiece[part[1]] \in ToSet(now) /\ (kept \/ BlockPiece[part[1]] # z)
                 THEN @[part] ELSE "zero"]]
     /\ Replace(j, [j EXCEPT !.step = "file"])
     /\ storageFaults' = storageFaults \cup (IF evicted = {} THEN {} ELSE {"evicted"})
     /\ UNCHANGED <<capacity, overwrite, stateVars, tracker, object, files, halfRewritten>>

\* Mutant: the page is put, not looked up first.
CachePutNew(j) == CachePutting(j, FALSE)

CachePut(j) == CachePutting(j, TRUE)

\* lock_read: the file is there and stays until the write is done.
LockFile(j) ==
  /\ j.step = "file" /\ Head(j.left) \in opened[j.object]
  /\ Replace(j, [j EXCEPT !.step = "guard"])
  /\ UNCHANGED <<capacity, overwrite, stateVars, tracker, object, lru, files, faults>>

\* The chunk is in the cache and not in the file; if it stays recorded as downloaded,
\* the two disagree on it from now on.
NotWritten(j, marked) ==
  halfRewritten' = halfRewritten \cup
    (IF capacity > 0 /\ StillLive(j) /\ j.block \in marked THEN {BlockPiece[j.block]} ELSE {})

\* The file has been taken away.
FileIsNone(j) ==
  /\ j.step = "file" /\ Head(j.left) \notin opened[j.object]
  /\ Finish(j) /\ NotWritten(j, written)
  /\ UNCHANGED <<capacity, overwrite, stateVars, tracker, object, lru, files, storageFaults>>

PWrite(j) ==
  /\ j.step = "guard"
  /\ ondisk' = [ondisk EXCEPT ![<<j.block, Head(j.left)>>] = Value(j)]
  /\ Advance(j)
  /\ UNCHANGED <<capacity, overwrite, stateVars, tracker, object, lru, exist, opened, faults>>

\* pwritev may write less than it was given, which nobody but a debug assertion
\* looks at; the cache uses write_all_at, which goes on.
ShortWrite(j) ==
  /\ j.step = "guard" /\ capacity = 0
  /\ ondisk' = [ondisk EXCEPT ![<<j.block, Head(j.left)>>] = IF j.good /\ @ = "good" THEN @ ELSE "bad"]
  /\ Advance(j)
  /\ UNCHANGED <<capacity, overwrite, stateVars, tracker, object, lru, exist, opened, faults>>

\* The write fails, after some of the bytes or before; the live torrent is told. The piece
\* is released with the peer and starts anew, unless another peer has stolen it by then.
WriteFails(j) ==
  /\ j.step = "guard"
  /\ \E v \in {"bad", ondisk[<<j.block, Head(j.left)>>]} :
       ondisk' = [ondisk EXCEPT ![<<j.block, Head(j.left)>>] = v]
  /\ fatal' = (fatal \/ StillLive(j))
  /\ written' \in {written, IF StillLive(j) THEN written \ BlocksOf(BlockPiece[j.block]) ELSE written}
  /\ Finish(j) /\ NotWritten(j, written')
  /\ UNCHANGED <<capacity, overwrite, life, stopping, verified, object, lru, exist, opened, storageFaults>>

-----------------------------------------------------------------------------
(* After the write: the chunk is recorded and a complete piece is checked. A *)
(* live torrent that was stopped has no tracker any more, and its lock is    *)
(* held while its storage is taken.                                          *)

Stale(j) == j.object < object \/ life \notin {"live", "taking cache", "taking"}

MarkChunk(j) ==
  /\ j.step = "mark" /\ StillLive(j)
  /\ written' = written \cup {j.block}
  /\ IF BlocksOf(BlockPiece[j.block]) \subseteq written' THEN Replace(j, [j EXCEPT !.step = "check"]) ELSE Finish(j)
  /\ UNCHANGED <<capacity, overwrite, stateVars, verified, object, lru, files, faults>>

\* What pread_exact returns: a cached piece is not looked up on disk.
Read(o, part) == IF BlockPiece[part[1]] \in ToSet(cached[o]) THEN pages[o][part] ELSE ondisk[part]

CheckPiece(j) ==
  LET z == BlockPiece[j.block]
      hit == z \in ToSet(cached[j.object])
      found == \A part \in PartsOf(z) : Read(j.object, part) = "good"
  IN /\ j.step = "check" /\ CacheFree(j.object)
     /\ IF hit \/ {part[2] : part \in PartsOf(z)} \subseteq opened[j.object]
        THEN Replace(j, [j EXCEPT !.step = IF found THEN "passed" ELSE "failed"])
        ELSE Finish(j)
     /\ cached' = IF hit THEN [cached EXCEPT ![j.object] = Touched(j.object, z)] ELSE cached
     /\ UNCHANGED <<capacity, overwrite, stateVars, tracker, object, pages, files, faults>>

MarkVerdict(j) ==
  /\ j.step \in {"passed", "failed"} /\ StillLive(j)
  /\ IF j.step = "passed" THEN verified' = verified \cup {BlockPiece[j.block]} /\ UNCHANGED written
     ELSE written' = written \ BlocksOf(BlockPiece[j.block]) /\ UNCHANGED verified
  /\ Finish(j)
  /\ UNCHANGED <<capacity, overwrite, stateVars, object, lru, files, faults>>

Abandon(j) ==
  /\ j.step \in {"mark", "passed", "failed"} /\ Stale(j)
  /\ Finish(j)
  /\ UNCHANGED <<capacity, overwrite, stateVars, tracker, object, lru, files, faults>>

-----------------------------------------------------------------------------
(* Stopping: the tracker requeues the pieces in flight, a piece whose check  *)
(* is under way is not among them; then the cache and the files are taken.   *)

KeptBlocks == {b \in written : BlocksOf(BlockPiece[b]) \subseteq written}

Pause ==
  /\ life = "live" /\ object < MaxObjects
  /\ life' = IF capacity > 0 THEN "taking cache" ELSE "taking"
  /\ stopping' = IF fatal THEN "error" ELSE "paused"
  /\ fatal' = FALSE
  /\ written' = KeptBlocks
  /\ UNCHANGED <<capacity, overwrite, verified, object, lru, files, jobs, faults>>

TakeCache ==
  /\ life = "taking cache" /\ CacheFree(object)
  /\ life' = "taking"
  /\ cached' = [cached EXCEPT ![object + 1] = cached[object], ![object] = <<>>]
  /\ pages' = [pages EXCEPT ![object + 1] = pages[object], ![object] = [part \in Parts |-> "zero"]]
  /\ UNCHANGED <<capacity, overwrite, stopping, fatal, tracker, object, files, jobs, faults>>

Taking(f) ==
  /\ life = "taking" /\ f \in opened[object] /\ \A g \in opened[object] : f <= g
  /\ opened' = [opened EXCEPT ![object] = @ \ {f}, ![object + 1] = @ \cup {f}]
  /\ UNCHANGED <<capacity, overwrite, stateVars, tracker, object, lru, exist, ondisk, jobs, faults>>

\* Mutant: the file is replaced beside the calls that are using it.
TakeCloneAtOnce(f) == Taking(f)

\* take_clone waits for the readers of the file, which are the writes under way.
TakeClone(f) ==
  /\ ~ \E j \in jobs : j.object = object /\ j.step = "guard" /\ Head(j.left) = f
  /\ Taking(f)

\* The taken storage belongs to the paused torrent; an error drops it.
Taken ==
  /\ life = "taking" /\ opened[object] = {}
  /\ life' = stopping /\ stopping' = "paused" /\ object' = object + 1
  /\ IF stopping = "paused" THEN UNCHANGED <<opened, lru>>
     ELSE /\ opened' = [opened EXCEPT ![object + 1] = {}]
          /\ cached' = [cached EXCEPT ![object + 1] = <<>>]
          /\ pages' = [pages EXCEPT ![object + 1] = [part \in Parts |-> "zero"]]
  /\ UNCHANGED <<capacity, overwrite, fatal, tracker, exist, ondisk, jobs, faults>>

JobStep(j) ==
  \/ CachePut(j) \/ LockFile(j) \/ FileIsNone(j) \/ PWrite(j) \/ ShortWrite(j) \/ WriteFails(j)
  \/ MarkChunk(j) \/ CheckPiece(j) \/ MarkVerdict(j) \/ Abandon(j)

StorageNext ==
  \/ \E f \in RealFiles : OpenFile(f) \/ OpenFails(f) \/ TakeClone(f)
  \/ Initialized \/ GoLive \/ CreateAgain
  \/ \E b \in Blocks, good \in BOOLEAN : WriteChunk(b, good)
  \/ \E j \in jobs : JobStep(j)
  \/ Pause \/ TakeCache \/ Taken

-----------------------------------------------------------------------------

\* A piece recorded as downloaded is on disk: the hash was computed over what the cache
\* returned, writes may have been short or failed half way, and writers of a torrent that
\* has been paused, resumed or restarted since may still be in the middle of a call. The
\* exception is a piece that was stolen half done, one of whose recorded chunks the thief
\* then put into the cache but could not write (peer_handler.rs:902): if a third peer goes
\* on with it before the fatal error has stopped the torrent, it is checked in the cache.
VerifiedIsOnDisk ==
  \A z \in verified \ halfRewritten, part \in Parts : part \in PartsOf(z) => ondisk[part] = "good"

\* As long as the cache had room for the pieces being written, a piece fails its check
\* only when something wrong has reached the disk: an honest peer's piece is accepted
\* whatever was in the cache, in an earlier storage or in the files before. The pieces with
\* a chunk that was cached again but not written again are excepted here too.
GoodDataPasses ==
  \A j \in jobs : /\ j.step = "failed" /\ StillLive(j)
                  /\ "evicted" \notin storageFaults /\ BlockPiece[j.block] \notin halfRewritten
    => \E part \in PartsOf(BlockPiece[j.block]) : ondisk[part] # "good"
=============================================================================
