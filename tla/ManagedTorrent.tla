---------------------------- MODULE ManagedTorrent ----------------------------
(***************************************************************************)
(* The state of one torrent of a session (ManagedTorrentState) and         *)
(* everybody who replaces it: the user's unpause, pause, file selection    *)
(* and delete, the tasks that check the files on disk, and the task that   *)
(* waits for a fatal error of the live torrent.                            *)
(*                                                                         *)
(* Every action is one critical section of ManagedTorrent::locked, or what *)
(* an initialization task does between two of its await points. A call of  *)
(* start() is a run: its child token cancels its initialization task and   *)
(* the live torrent that comes out of it. The per-torrent token the        *)
(* children hang on is an epoch, which pausing an initialization ends.     *)
(***************************************************************************)
EXTENDS Naturals, FiniteSets

CONSTANTS
  MaxRuns,      \* bound on calls of start()
  InitPermits,  \* concurrent_initialize_semaphore
  Selection     \* sets of files the user may select

ASSUME ConstantsAssumption ==
  /\ MaxRuns \in Nat \ {0} /\ InitPermits \in Nat \ {0}
  /\ Selection # {}

Run == 1..MaxRuns

VARIABLES
  state,       \* ManagedTorrentState
  init,        \* the run that created the Initializing object last
  current,     \* the run of the Live object in the state, 0 if it is not Live
  usable,      \* the storage in the Paused or Live state is not a dummy
  chosen,      \* the files its chunk tracker selects
  paused,      \* the user's intention
  only,        \* only_files
  runs,        \* number of calls of start()
  epoch,       \* the per-torrent cancellation token
  closed,      \* it was cancelled for good
  epochOf,     \* the token each run's child token hangs on
  stage,       \* of the initialization task of each run
  object,      \* the Initializing object it works on
  startPaused, \* its argument
  good,        \* the storage it took is not a dummy
  files,       \* only_files of the Initializing object created by each run
  taken,       \* objects whose storage was taken
  live,        \* the Live object of each run
  receiver,    \* its fatal_errors_receiver
  deleting,    \* progress of delete()
  late,        \* runs started by a handle kept across delete(), on a token that was
               \* made after delete() cancelled the torrent's
  disturbed    \* the torrent was unpaused or paused while it was initializing, unpaused
               \* after delete() began, or the receiver of a fatal error had to wait for
               \* the lock

torrent == <<state, init, current, usable, chosen, paused, only>>
tokens == <<runs, epoch, closed, epochOf>>
inits == <<stage, object, startPaused, good, files, taken>>
lives == <<live, receiver>>
deletion == <<deleting, late>>
vars == <<torrent, tokens, inits, lives, deletion, disturbed>>

States == {"initializing", "paused", "live", "error", "none"}

\* "queued" waits for a permit, "checking" and "checked" do not await, "stored"
\* awaits between the two; "failed" has the error of check().
Stages == {"free", "queued", "checking", "stored", "checked", "failed"}

TypeOK ==
  /\ state \in States
  /\ init \in Run /\ current \in Run \cup {0}
  /\ current # 0 <=> state = "live"
  /\ usable \in BOOLEAN /\ paused \in BOOLEAN
  /\ chosen \in Selection /\ only \in Selection
  /\ runs \in Run /\ epoch \in Nat /\ closed \in BOOLEAN
  /\ epochOf \in [Run -> Nat]
  /\ stage \in [Run -> Stages]
  /\ object \in [Run -> Run]
  /\ startPaused \in [Run -> BOOLEAN]
  /\ good \in [Run -> BOOLEAN]
  /\ files \in [Run -> Selection]
  /\ taken \subseteq Run
  /\ live \in [Run -> {"none", "running", "stopped"}]
  /\ receiver \in [Run -> {"none", "waiting", "signalled", "got"}]
  /\ deleting \in {"no", "cancelled", "paused", "done"} /\ late \subseteq Run
  /\ disturbed \in BOOLEAN

\* The child token of run k is not cancelled.
Alive(k) == epochOf[k] = epoch /\ ~closed /\ live[k] # "stopped"

\* The selections are alike, so it does not matter which one a torrent is added with.
InitialSelection == CHOOSE s \in Selection : TRUE

\* A torrent was added and start() called: it is checked, then started unless
\* it was added paused.
Init ==
  /\ state = "initializing" /\ init = 1 /\ current = 0
  /\ usable = FALSE
  /\ only = InitialSelection /\ chosen = only
  /\ paused \in BOOLEAN
  /\ runs = 1 /\ epoch = 0 /\ closed = FALSE
  /\ epochOf = [k \in Run |-> 0]
  /\ stage = [k \in Run |-> IF k = 1 THEN "queued" ELSE "free"]
  /\ object = [k \in Run |-> 1]
  /\ startPaused = [k \in Run |-> k = 1 /\ paused]
  /\ good = [k \in Run |-> FALSE]
  /\ files = [k \in Run |-> only]
  /\ taken = {}
  /\ live = [k \in Run |-> "none"]
  /\ receiver = [k \in Run |-> "none"]
  /\ deleting = "no" /\ late = {} /\ disturbed = FALSE
-----------------------------------------------------------------------------
(* start() and the initialization task *)

\* Mutation: every call of start() shares one child token.
GoLiveOldToken(k) ==
  /\ state' = "live" /\ current' = k
  /\ live' = [live EXCEPT ![k] = IF \E j \in Run : live[j] = "stopped" THEN "stopped" ELSE "running"]
  /\ receiver' = [receiver EXCEPT ![k] = "waiting"]

\* _start in the Paused state: TorrentStateLive::new and its error receiver.
GoLive(k) ==
  /\ state' = "live" /\ current' = k
  /\ live' = [live EXCEPT ![k] = "running"]
  /\ receiver' = [receiver EXCEPT ![k] = "waiting"]

\* Mutation: the Initializing object of the failed attempt is used again.
SpawnOnOldObject(k, o) ==
  /\ stage' = [stage EXCEPT ![k] = "queued"]
  /\ object' = [object EXCEPT ![k] = init]
  /\ startPaused' = [startPaused EXCEPT ![k] = FALSE]

\* Mutation: the task started by unpause stops at Paused.
SpawnPaused(k, o) ==
  /\ stage' = [stage EXCEPT ![k] = "queued"]
  /\ object' = [object EXCEPT ![k] = o]
  /\ startPaused' = [startPaused EXCEPT ![k] = TRUE]

\* A call of start() with a child of the current token; its initialization
\* task works on object o.
Spawn(k, o) ==
  /\ stage' = [stage EXCEPT ![k] = "queued"]
  /\ object' = [object EXCEPT ![k] = o]
  /\ startPaused' = [startPaused EXCEPT ![k] = FALSE]

\* Session::unpause. In the Error state a new Initializing object is created;
\* in the Initializing state another task checks the same object. The handle may be one
\* that was looked up before delete().
Unpause ==
  LET k == runs + 1
  IN /\ runs < MaxRuns
     /\ paused' = FALSE
     /\ runs' = k
     /\ epochOf' = [epochOf EXCEPT ![k] = epoch]
     /\ \/ /\ state = "initializing"
           /\ Spawn(k, init)
           /\ UNCHANGED <<state, init, current, files, lives>>
        \/ /\ state = "paused"
           /\ GoLive(k)
           /\ UNCHANGED <<init, stage, object, startPaused, files>>
        \/ /\ state = "error"
           /\ state' = "initializing" /\ init' = k
           /\ files' = [files EXCEPT ![k] = only]
           /\ Spawn(k, k)
           /\ UNCHANGED <<current, lives>>
        \/ /\ state \in {"live", "error", "none"}   \* bail, in Error when the storage cannot be created
           /\ UNCHANGED <<state, init, current, stage, object, startPaused, files, lives>>
     /\ late' = IF deleting # "no" /\ ~closed THEN late \cup {k} ELSE late
     /\ disturbed' = (disturbed \/ state = "initializing" \/ deleting # "no")
     /\ UNCHANGED <<usable, chosen, only, epoch, closed, good, taken, deleting>>

Goto(k, s) == stage' = [stage EXCEPT ![k] = s]

\* The permit is held until the task ends.
GetPermit(k) ==
  /\ stage[k] = "queued" /\ Alive(k)
  /\ Cardinality({j \in Run : stage[j] \notin {"free", "queued"}}) < InitPermits
  /\ Goto(k, "checking")
  /\ UNCHANGED <<torrent, tokens, object, startPaused, good, files, taken, lives, deletion, disturbed>>

\* spawn_with_cancel drops a cancelled task at an await point.
Cancelled(k) ==
  /\ stage[k] \in {"queued", "stored"} /\ ~Alive(k)
  /\ Goto(k, "free")
  /\ UNCHANGED <<torrent, tokens, object, startPaused, good, files, taken, lives, deletion, disturbed>>

\* The fastresume validation or the full check ends. It notices a cancellation
\* between two pieces and reports it as an error.
Check(k) ==
  /\ stage[k] = "checking"
  /\ \/ Goto(k, "stored")
     \/ Goto(k, "failed")
  /\ UNCHANGED <<torrent, tokens, object, startPaused, good, files, taken, lives, deletion, disturbed>>

\* The end of check(): the storage is moved out of the Initializing object.
TakeStorage(k) ==
  /\ stage[k] = "stored"
  /\ Goto(k, "checked")
  /\ good' = [good EXCEPT ![k] = object[k] \notin taken]
  /\ taken' = taken \cup {object[k]}
  /\ UNCHANGED <<torrent, tokens, object, startPaused, files, lives, deletion, disturbed>>

\* The check succeeded: Paused and, under the same lock, Live. A torrent that
\* is no longer Initializing is left alone.
Install(k) ==
  /\ stage[k] = "checked"
  /\ Goto(k, "free")
  /\ IF state = "initializing"
     THEN /\ usable' = good[k] /\ chosen' = files[object[k]]
          /\ IF startPaused[k]
             THEN state' = "paused" /\ UNCHANGED <<current, lives>>
             ELSE GoLive(k)
     ELSE UNCHANGED <<state, current, usable, chosen, lives>>
  /\ UNCHANGED <<init, paused, only, tokens, object, startPaused, good, files, taken, deletion, disturbed>>

\* Mutation: the failed task ends without recording its error.
InstallNoError(k) ==
  /\ stage[k] = "failed"
  /\ Goto(k, "free")
  /\ UNCHANGED <<torrent, tokens, object, startPaused, good, files, taken, lives, deletion, disturbed>>

\* The check failed: the state becomes Error, whatever it was.
InstallError(k) ==
  /\ stage[k] = "failed"
  /\ Goto(k, "free")
  /\ state' = "error" /\ current' = 0
  /\ UNCHANGED <<init, usable, chosen, paused, only, tokens, object, startPaused, good,
                 files, taken, lives, deletion, disturbed>>
-----------------------------------------------------------------------------
(* pause, fatal errors, selection, delete *)

\* Mutation: the live torrent goes on running.
DropLive == UNCHANGED live

\* TorrentStateLive::pause of the Live object in the state.
StopLive == live' = [live EXCEPT ![current] = "stopped"]

\* ManagedTorrent::pause. An initialization is cancelled and its token replaced.
Pause ==
  /\ paused' = TRUE
  /\ \/ /\ state = "live"
        /\ StopLive
        /\ state' = "paused" /\ current' = 0
        /\ UNCHANGED <<epoch, closed>>
     \/ /\ state = "initializing"
        /\ epoch' = epoch + 1 /\ closed' = FALSE
        /\ state' = "error"
        /\ UNCHANGED <<current, live>>
  /\ UNCHANGED <<init, usable, chosen, only, runs, epochOf, inits, receiver>>

UserPauses ==
  /\ Pause
  /\ disturbed' = (disturbed \/ state = "initializing")
  /\ UNCHANGED deletion

\* on_fatal_error
FatalError(k) ==
  /\ live[k] = "running" /\ Alive(k) /\ receiver[k] = "waiting"
  /\ receiver' = [receiver EXCEPT ![k] = "signalled"]
  /\ UNCHANGED <<torrent, tokens, inits, live, deletion, disturbed>>

\* The receiver has the error and waits for the lock, unless it was cancelled.
ReceiverWakes(k) ==
  /\ \/ /\ receiver[k] = "signalled" /\ Alive(k)
        /\ receiver' = [receiver EXCEPT ![k] = "got"] /\ disturbed' = TRUE
     \/ /\ receiver[k] \in {"waiting", "signalled"} /\ ~Alive(k)
        /\ receiver' = [receiver EXCEPT ![k] = "none"] /\ UNCHANGED disturbed
  /\ UNCHANGED <<torrent, tokens, inits, live, deletion>>

\* stop_with_error: whatever is Live now is paused, the state becomes Error.
StopWithError(k) ==
  /\ receiver[k] = "got" \/ (receiver[k] = "signalled" /\ Alive(k))
  /\ receiver' = [receiver EXCEPT ![k] = "none"]
  /\ IF state = "live" THEN StopLive ELSE UNCHANGED live
  /\ state' = "error" /\ current' = 0
  /\ UNCHANGED <<init, usable, chosen, paused, only, tokens, inits, deletion, disturbed>>

\* Mutation: the selection is remembered but not applied to the chunk tracker.
UpdateOnlyRemembered(s) ==
  /\ state # "initializing"
  /\ only' = s
  /\ UNCHANGED <<state, init, current, usable, chosen, paused, tokens, inits, lives, deletion, disturbed>>

\* update_only_files: refused while initializing; kept for the next
\* initialization in the Error state.
UpdateOnlyFiles(s) ==
  /\ state # "initializing"
  /\ only' = s
  /\ chosen' = IF state \in {"paused", "live"} THEN s ELSE chosen
  /\ UNCHANGED <<state, init, current, usable, paused, tokens, inits, lives, deletion, disturbed>>

\* Mutation: the token is not cancelled.
DeleteNoCancel ==
  /\ deleting = "no"
  /\ deleting' = "cancelled"
  /\ UNCHANGED <<torrent, tokens, inits, lives, late, disturbed>>

\* Session::delete: cancel the token, pause, then take the state away.
DeleteCancels ==
  /\ deleting = "no"
  /\ closed' = TRUE /\ deleting' = "cancelled"
  /\ UNCHANGED <<torrent, runs, epoch, epochOf, inits, lives, late, disturbed>>

DeletePauses ==
  /\ deleting = "cancelled" /\ deleting' = "paused"
  /\ \/ state \in {"live", "initializing"} /\ Pause
     \/ state \notin {"live", "initializing"} /\ UNCHANGED <<torrent, tokens, inits, lives>>
  /\ UNCHANGED <<late, disturbed>>

DeleteTakes ==
  /\ deleting = "paused" /\ deleting' = "done"
  /\ state' = "none" /\ current' = 0
  /\ IF state = "live" THEN StopLive ELSE UNCHANGED live
  /\ UNCHANGED <<init, usable, chosen, paused, only, tokens, inits, receiver, late, disturbed>>
-----------------------------------------------------------------------------
InitStep(k) ==
  GetPermit(k) \/ Cancelled(k) \/ Check(k) \/ TakeStorage(k) \/ Install(k) \/ InstallError(k)

LiveStep(k) == FatalError(k) \/ ReceiverWakes(k) \/ StopWithError(k)

UserStep ==
  \/ Unpause \/ UserPauses
  \/ \E s \in Selection : UpdateOnlyFiles(s)
  \/ DeleteCancels \/ DeletePauses \/ DeleteTakes

Next == (\E k \in Run : InitStep(k) \/ LiveStep(k)) \/ UserStep

Spec == Init /\ [][Next]_vars

\* A task that can run runs, and so does the request that deletes the torrent;
\* permits are handed out in the order they are asked for.
Fairness ==
  /\ WF_vars(DeletePauses) /\ WF_vars(DeleteTakes)
  /\ \A k \in Run : /\ SF_vars(GetPermit(k))
                    /\ WF_vars(Cancelled(k) \/ Check(k) \/ TakeStorage(k) \/ Install(k) \/ InstallError(k))

FairSpec == Spec /\ Fairness
-----------------------------------------------------------------------------
(* Properties *)

Running(k) == live[k] = "running" /\ Alive(k)

\* A live torrent that runs is the one in the state: no other exists that pause
\* and delete would not reach.
NoOrphanLive == ~disturbed => \A k \in Run : Running(k) => current = k

\* The torrent shown as Live has not been cancelled.
LiveIsAlive == ~disturbed /\ state = "live" /\ ~closed => Alive(current)

\* The chunk tracker selects the files the user asked for last, whatever
\* initialization it comes from.
SelectionApplied == ~disturbed /\ state \in {"paused", "live"} => chosen = only

\* TorrentStorage::take: the storage that was moved out "should be used
\* instead": a Paused or Live torrent never holds the dummy left behind.
StorageUsable == ~disturbed /\ state \in {"paused", "live"} => usable

\* `paused` is the user's intention: once nothing is initializing, a torrent in
\* the Paused state is one the user wants paused.
IntentionHonoured ==
  ~disturbed /\ state = "paused" /\ (\A k \in Run : stage[k] = "free") => paused

\* A deleted torrent does not run: every live torrent hangs on the token delete cancels,
\* or was stopped, also one that an initialization still under way or a handle kept
\* across delete() starts. Only a handle that unpauses it after delete() or a pause has
\* put a new token in the place of the cancelled one makes it run again.
DeletedIsStopped == deleting = "done" => \A k \in Run : Running(k) => k \in late

\* Every initialization ends, with any number of them waiting for permits; only one that
\* a handle starts after delete() may never do, as its task is cancelled at once.
InitializationEnds == (state = "initializing") ~> (state # "initializing" \/ deleting = "done")
=============================================================================
