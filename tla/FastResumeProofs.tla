-------------------------- MODULE FastResumeProofs --------------------------
(* Machine-checked proofs about FastResume, for any torrent, any number of   *)
(* bitfield instances, any flush interval and any number of faults.          *)
EXTENDS FastResume, TLAPS

\* Nothing but failing writes of the bitfield has gone wrong.
Calm == faults \subseteq {"io"}

\* The pieces a claim may be about: while the torrent runs, other pieces are being
\* written and may be wrong at any moment.
Trusted == IF phase \in {"run", "paused"} THEN have ELSE Good

\* Every claim is about pieces that are trusted, and so is what is about to be
\* renamed over the file.
Claims ==
  /\ have \subseteq Good /\ claim \subseteq Good
  /\ bitv # None /\ (bitv # Empty \/ store = "postgres") => bitv \subseteq Trusted
  /\ landing # None => landing \subseteq Trusted
  /\ \A bits \in updates : bits \subseteq Trusted
  /\ \A g \in Instances :
       /\ pending[g] \notin Request => pending[g] \subseteq Trusted
       /\ snapshot[g] \notin Request => snapshot[g] \subseteq Trusted
       /\ stage[g] \in {"write", "rename"} /\ tmp \notin {None, Empty} => tmp \subseteq Trusted

\* At most one flusher exists, and what each of them holds follows from its stage.
OneFlusher ==
  /\ \A g, h \in Instances : stage[g] # "free" /\ stage[h] # "free" => g = h
  /\ \A g \in Instances :
       /\ stage[g] \in {"free", "dead"} => pending[g] = NoRequest
       /\ stage[g] \in {"free", "dead", "idle"} => snapshot[g] = NoRequest
       /\ stage[g] # "write" => fd[g] = None
       /\ fd[g] # "bitv"
  /\ current # None => stage[current] # "free"

\* How far an initialization is from what it will claim.
Initializing ==
  /\ phase = "reopen" => \A g \in Instances : stage[g] = "free"
  /\ phase = "validate" =>
       /\ claim = bitv /\ landing = None /\ updates = {}
       /\ \A g \in Instances : stage[g] \in {"free", "idle"} /\ pending[g] = NoRequest
  /\ phase \in {"run", "paused"} => claim = {}
  /\ landing # None => bitv = Empty
  /\ store = "json" => updates = {}
  /\ store = "postgres" /\ phase \in {"full", "store"} => bitv = None /\ updates = {}

\* A flusher at work has something to write, pieces complete in a running torrent
\* only, and with Postgres there is no flusher.
WellFormed ==
  /\ \A g \in Instances : stage[g] \in {"open", "write"} => snapshot[g] # NoRequest
  /\ phase # "run" => completing = {}
  /\ store = "postgres" =>
       /\ bitv \in Contents \cup {None} /\ landing = None /\ current = None /\ phase # "reopen"
       /\ \A g \in Instances : stage[g] = "free"

Sound == moved = {} /\ Claims /\ OneFlusher /\ Initializing

ResumeInv == TypeOK /\ WellFormed /\ (Calm => Sound)

-----------------------------------------------------------------------------
(* Types *)

\* What a good piece is stays a set of pieces, and what is checked is good.
LEMMA GoodPieces == Good \subseteq Pieces /\ Checked \subseteq Good
  BY DEF Good, Checked

\* No fault is ever forgotten.
LEMMA FaultsGrow ==
  ASSUME Next PROVE faults \subseteq faults'
<1>1. CASE \E g \in Instances : FlusherStep(g)
  BY <1>1 DEF FlusherStep, Receive, Retire, OpenTmp, WriteTmp, RenameTmp, FlusherFails
<1>2. CASE InitStep
  BY <1>2 DEF InitStep, Load, ValidateOk, ValidateBroken, InitialCheck, StoreInitialCheck, WriteLands, Reopen
<1>3. CASE Cancel \/ Pause \/ Resume \/ StopWithError \/ Start \/ Delete \/ DeleteFiles \/ Crash \/ PowerLoss
  BY <1>3 DEF Cancel, Pause, Resume, StopWithError, Start, Delete, DeleteFiles, Crash, PowerLoss
<1>4. CASE \E p \in Pieces : WritePiece(p) \/ PieceVerified(p) \/ OnPieceCompleted(p) \/ Tamper(p)
  BY <1>4 DEF WritePiece, PieceVerified, OnPieceCompleted, Tamper
<1>5. CASE (\E f \in Files : MoveCompleted(f)) \/ (\E bits \in updates : UpdateRow(bits))
  BY <1>5 DEF MoveCompleted, UpdateRow
<1> QED
  BY <1>1, <1>2, <1>3, <1>4, <1>5 DEF Next

\* The steps of a flusher keep the types, and a flusher at work keeps its snapshot.
LEMMA FlusherTypes ==
  ASSUME TypeOK, WellFormed, NEW g \in Instances, FlusherStep(g)
  PROVE  TypeOK' /\ WellFormed'
<1> USE DEF TypeOK, WellFormed, torrent, flushers, names, FlusherStages, Request
<1>1. CASE Receive(g)
  BY <1>1 DEF Receive
<1>2. CASE Retire(g)
  BY <1>2 DEF Retire
<1>3. CASE OpenTmp(g)
  BY <1>3 DEF OpenTmp
<1>4. CASE WriteTmp(g)
  BY <1>4 DEF WriteTmp
<1>5. CASE RenameTmp(g)
  BY <1>5 DEF RenameTmp
<1>6. CASE FlusherFails(g)
  BY <1>6 DEF FlusherFails, Unlinked
<1> QED
  BY <1>1, <1>2, <1>3, <1>4, <1>5, <1>6 DEF FlusherStep

\* Dropping an instance keeps the types of what it touches.
LEMMA DropTypes ==
  ASSUME TypeOK, WellFormed, NEW bits \in Contents, DropInstance(current, bits)
  PROVE  /\ stage' \in [Instances -> FlusherStages]
         /\ pending' \in [Instances -> Request \cup Contents]
         /\ \A g \in Instances : stage'[g] = stage[g] \/ stage'[g] = "free"
         /\ store = "postgres" => UNCHANGED <<stage, pending>>
  BY DEF TypeOK, WellFormed, DropInstance, FlusherStages

\* The steps of an initialization keep the types.
LEMMA InitTypes ==
  ASSUME TypeOK, WellFormed, InitStep \/ Cancel
  PROVE  TypeOK' /\ WellFormed'
<1>a. claim \in Contents /\ have \in Contents
  BY DEF TypeOK, Contents
<1>1. CASE Load
  <2>1. /\ phase' \in Phases /\ phase' # "run" /\ current' \in Instances \cup {None} /\ claim' \subseteq Pieces
    BY <1>1 DEF Load, TypeOK, WellFormed, Contents, Phases, FreeInstances
  <2>2. stage' \in [Instances -> FlusherStages] /\ pending' \in [Instances -> Request \cup Contents]
    BY <1>1 DEF Load, TypeOK, Spawn, FreeInstances, FlusherStages, Request
  <2>3. WellFormed'
    <3>1. UNCHANGED <<store, completing, snapshot, names>> /\ completing = {} /\ phase' # "reopen"
      BY <1>1 DEF Load, WellFormed
    <3>2. CASE UNCHANGED <<stage, current>>
      BY <3>1, <3>2, <2>1 DEF WellFormed, names
    <3>3. CASE store = "json" /\ \E g \in FreeInstances : Spawn(g)
      BY <3>1, <3>3, <2>1 DEF TypeOK, WellFormed, Spawn, FreeInstances
    <3> QED
      BY <1>1, <3>2, <3>3 DEF Load, TypeOK
  <2> QED
    BY <1>1, <2>1, <2>2, <2>3 DEF Load, TypeOK, WellFormed, names
<1>2. CASE ValidateOk
  BY <1>2 DEF ValidateOk, EnsureLength, TypeOK, WellFormed, flushers, names, Phases, Contents
<1>3. CASE ValidateBroken
  <2>1. WellFormed'
    BY <1>3, <1>a, DropTypes DEF ValidateBroken, WellFormed, TypeOK
  <2> QED
    BY <1>3, <1>a, <2>1, DropTypes DEF ValidateBroken, Unlinked, TypeOK, Phases, Contents
<1>4. CASE InitialCheck
  BY <1>4, GoodPieces DEF InitialCheck, TypeOK, WellFormed, flushers, names, Phases, Contents
<1>5. CASE StoreInitialCheck
  <2>1. WellFormed'
    BY <1>5 DEF StoreInitialCheck, WellFormed
  <2>2. CASE store = "json"
    BY <1>5, <1>a, <2>1, <2>2 DEF StoreInitialCheck, Unlinked, TypeOK, WellFormed, Phases, Contents
  <2>3. CASE store # "json"
    BY <1>5, <1>a, <2>1, <2>3 DEF StoreInitialCheck, EnsureLength, TypeOK, WellFormed, Phases, Contents
  <2> QED
    BY <2>2, <2>3
<1>6. CASE WriteLands
  BY <1>6 DEF WriteLands, TypeOK, WellFormed, torrent, flushers, Contents
<1>7. CASE Reopen
  <2>1. /\ phase' \in Phases /\ current' \in Instances \cup {None} /\ claim' \subseteq Pieces
        /\ have' \subseteq Pieces /\ completing' = {} /\ unflushed' \in Nat
    BY <1>7 DEF Reopen, TypeOK, WellFormed, Contents, Phases
  <2>2. stage' \in [Instances -> FlusherStages] /\ pending' \in [Instances -> Request \cup Contents]
    BY <1>7 DEF Reopen, TypeOK, Spawn, FreeInstances, FlusherStages, Request
  <2>3. WellFormed'
    BY <1>7, <2>1 DEF Reopen, TypeOK, WellFormed, Spawn, FreeInstances
  <2>4. data' \in [Pieces -> {"absent", "wrong", "good"}]
    BY <1>7 DEF Reopen, EnsureLength, TypeOK
  <2> QED
    BY <1>7, <2>1, <2>2, <2>3, <2>4 DEF Reopen, TypeOK, names
<1>8. CASE Cancel
  <2>1. WellFormed'
    BY <1>8, <1>a, DropTypes DEF Cancel, WellFormed, TypeOK, names
  <2> QED
    BY <1>8, <1>a, <2>1, DropTypes DEF Cancel, names, TypeOK, Phases, Contents
<1> QED
  BY <1>1, <1>2, <1>3, <1>4, <1>5, <1>6, <1>7, <1>8 DEF InitStep

\* The steps of the running torrent, of the user and of the machine keep the types.
LEMMA RunTypes ==
  ASSUME TypeOK, WellFormed,
         \/ \E p \in Pieces : WritePiece(p) \/ PieceVerified(p) \/ OnPieceCompleted(p) \/ Tamper(p)
         \/ \E f \in Files : MoveCompleted(f)
         \/ \E bits \in updates : UpdateRow(bits)
         \/ Pause \/ Resume \/ StopWithError \/ Start \/ Delete \/ DeleteFiles \/ Crash \/ PowerLoss
  PROVE  TypeOK' /\ WellFormed'
<1>a. claim \in Contents /\ have \in Contents
  BY DEF TypeOK, Contents
<1>1. ASSUME NEW p \in Pieces, WritePiece(p) \/ PieceVerified(p) \/ Tamper(p) PROVE TypeOK' /\ WellFormed'
  BY <1>1 DEF WritePiece, PieceVerified, Tamper, TypeOK, WellFormed, flushers, names
<1>2. ASSUME NEW p \in Pieces, OnPieceCompleted(p) PROVE TypeOK' /\ WellFormed'
  <2>1. unflushed' \in Nat
    BY <1>2 DEF OnPieceCompleted, TypeOK
  <2>2. pending' \in [Instances -> Request \cup Contents] /\ updates' \subseteq Contents
    BY <1>2, <1>a DEF OnPieceCompleted, Flush, TypeOK
  <2> QED
    BY <1>2, <2>1, <2>2 DEF OnPieceCompleted, TypeOK, WellFormed
<1>3. ASSUME NEW f \in Files, MoveCompleted(f) PROVE TypeOK' /\ WellFormed'
  BY <1>3 DEF MoveCompleted, TypeOK, WellFormed, flushers, names
<1>4. ASSUME NEW bits \in updates, UpdateRow(bits) PROVE TypeOK' /\ WellFormed'
  BY <1>4 DEF UpdateRow, TypeOK, WellFormed, torrent, flushers, Contents
<1>5. CASE Pause \/ Resume
  BY <1>5 DEF Pause, Resume, TypeOK, WellFormed, flushers, names, Phases
<1>6. CASE StopWithError \/ Delete
  <2>1. WellFormed' /\ stage' \in [Instances -> FlusherStages] /\ pending' \in [Instances -> Request \cup Contents]
    BY <1>6, <1>a, DropTypes DEF StopWithError, Delete, WellFormed, TypeOK, names
  <2> QED
    BY <1>6, <2>1 DEF StopWithError, Delete, TypeOK, names, Phases
<1>7. CASE Start
  BY <1>7 DEF Start, Found, TypeOK, WellFormed, flushers, names, Phases
<1>8. CASE DeleteFiles
  BY <1>8 DEF DeleteFiles, Unlinked, TypeOK, WellFormed, Phases
<1>9. CASE Crash \/ PowerLoss
  BY <1>9 DEF Crash, PowerLoss, Halt, TypeOK, WellFormed, Phases, FlusherStages, Request
<1> QED
  BY <1>1, <1>2, <1>3, <1>4, <1>5, <1>6, <1>7, <1>8, <1>9

-----------------------------------------------------------------------------
(* The claims *)

\* A flusher changes names and its own request, never what is trusted.
LEMMA FlusherClaims ==
  ASSUME TypeOK, WellFormed, Sound, NEW g \in Instances, FlusherStep(g)
  PROVE  Sound'
<1>1. UNCHANGED <<torrent, updates>> /\ Trusted' = Trusted /\ Good' = Good
  BY DEF FlusherStep, Receive, Retire, OpenTmp, WriteTmp, RenameTmp, FlusherFails, names, torrent, Trusted, Good
<1>2. /\ stage \in [Instances -> FlusherStages] /\ pending \in [Instances -> Request \cup Contents]
      /\ snapshot \in [Instances -> Request \cup Contents] /\ fd \in [Instances -> {"tmp", "bitv", "gone", None}]
      /\ current \in Instances \cup {None}
  BY DEF TypeOK
<1>3. store = "json" /\ phase # "reopen" /\ \A h \in Instances : h # g => stage[h] = "free"
  BY DEF FlusherStep, Receive, Retire, OpenTmp, WriteTmp, RenameTmp, FlusherFails, WellFormed, Sound, OneFlusher, Initializing, TypeOK
<1>4. Claims'
  BY <1>1, <1>2, <1>3 DEF FlusherStep, Receive, Retire, OpenTmp, WriteTmp, RenameTmp, FlusherFails, Sound, Claims, OneFlusher, WellFormed, torrent, names, Request
<1>5. OneFlusher'
  <2> USE <1>1, <1>2, <1>3, ConstantsAssumption DEF Sound, OneFlusher, WellFormed, torrent, FlusherStages
  <2>1. CASE Receive(g) \/ Retire(g)
    BY <2>1 DEF Receive, Retire
  <2>2. CASE OpenTmp(g) \/ WriteTmp(g)
    BY <2>2 DEF OpenTmp, WriteTmp
  <2>3. CASE RenameTmp(g)
    BY <2>3 DEF RenameTmp
  <2>4. CASE FlusherFails(g)
    BY <2>4 DEF FlusherFails, Unlinked
  <2> QED
    BY <2>1, <2>2, <2>3, <2>4 DEF FlusherStep
<1>6. Initializing'
  BY <1>1, <1>2, <1>3 DEF FlusherStep, Receive, Retire, OpenTmp, WriteTmp, RenameTmp, FlusherFails, Sound, Claims, OneFlusher, Initializing, WellFormed, torrent, names, Request
<1> QED
  BY <1>1, <1>4, <1>5, <1>6 DEF Sound, torrent

\* An instance is dropped when what it has is known to be good: its last snapshot
\* claims no more than that.
LEMMA DropClaims ==
  ASSUME TypeOK, WellFormed, Sound, NEW bits \in Contents, DropInstance(current, bits),
         UNCHANGED <<data, store, snapshot, updates>>, current' = None,
         Trusted' = Good, bits \subseteq Good,
         \/ UNCHANGED <<tmp, bitv, landing, fd>>
         \/ bitv' = None /\ landing' = None /\ UNCHANGED tmp /\ fd' = Unlinked(None, {"bitv"})
  PROVE  OneFlusher' /\ (have' \subseteq Good /\ claim' \subseteq Good => Claims')
<1>1. Good' = Good /\ Trusted \subseteq Good
  BY DEF Good, Trusted, Sound, Claims
<1>2. OneFlusher'
  <2>1. fd' = fd
    BY ConstantsAssumption DEF Unlinked, OneFlusher, Sound, TypeOK
  <2> QED
    BY <2>1 DEF OneFlusher, Sound, DropInstance, TypeOK, FlusherStages
<1>3. ASSUME have' \subseteq Good, claim' \subseteq Good PROVE Claims'
  BY <1>1, <1>3 DEF Claims, OneFlusher, Sound, DropInstance, TypeOK, FlusherStages
<1> QED
  BY <1>2, <1>3

\* The steps of an initialization.
LEMMA InitClaims ==
  ASSUME TypeOK, WellFormed, Sound, InitStep \/ Cancel, Calm'
  PROVE  Sound'
<1>a. claim \in Contents /\ have \in Contents
  BY DEF TypeOK, Contents
<1>b. Good \subseteq Pieces /\ Trusted \subseteq Good
  BY DEF Good, Trusted, Sound, Claims
<1>1. CASE Load
  <2>1. Quiet
    BY <1>1 DEF Load, Late, Calm
  <2> QED
    <3>1. /\ UNCHANGED <<store, data, moved, have, completing, snapshot, fd, names>> /\ updates = {}
          /\ phase = "load" /\ phase' \in {"full", "validate"} /\ \A g \in Instances : stage[g] = "free"
          /\ Trusted = Good /\ Trusted' = Good /\ Good' = Good
      BY <1>1, <2>1 DEF Load, Quiet, FreeInstances, Trusted, Good, names
    <3>2. CASE UNCHANGED <<current, stage, pending>>
      BY <1>1, <3>1, <3>2 DEF Load, Sound, Claims, OneFlusher, Initializing, TypeOK, names, WellFormed
    <3>3. ASSUME store = "json", NEW g \in FreeInstances, Spawn(g), bitv = Empty, phase' = "full",
                 pending' = [pending EXCEPT ![g] = Empty], UNCHANGED <<claim, current>>
          PROVE  Sound'
      BY <3>1, <3>3 DEF FreeInstances, Spawn, Sound, Claims, OneFlusher, Initializing, TypeOK, names, Request, FlusherStages
    <3>4. ASSUME store = "json", NEW g \in FreeInstances, Spawn(g), bitv \notin {None, Empty},
                 claim' = bitv, current' = g, UNCHANGED pending
          PROVE  Sound'
      BY <3>1, <3>4 DEF FreeInstances, Spawn, Sound, Claims, OneFlusher, Initializing, TypeOK, names, FlusherStages
    <3> QED
      BY <1>1, <3>2, <3>3, <3>4 DEF Load, TypeOK
<1>2. CASE ValidateOk
  BY <1>2, <1>a, <1>b DEF ValidateOk, EnsureLength, Sound, Claims, OneFlusher, Initializing, Trusted, Good, TypeOK, names, flushers, WellFormed, Request, FlusherStages
<1>3. CASE ValidateBroken
  <2>1. Trusted' = Good /\ have' \subseteq Good /\ claim' = {} /\ OneFlusher' /\ Claims'
    BY <1>3, <1>a, DropClaims DEF ValidateBroken, Sound, Claims, Trusted, Good
  <2>2. Initializing'
    BY <1>3 DEF ValidateBroken, Sound, Initializing, WellFormed, TypeOK
  <2> QED
    BY <1>3, <2>1, <2>2 DEF ValidateBroken, Sound
<1>4. CASE InitialCheck
  BY <1>4, GoodPieces, <1>b DEF InitialCheck, Sound, Claims, OneFlusher, Initializing, Trusted, Good, names, flushers, WellFormed
<1>5. CASE StoreInitialCheck
  <2>1. Quiet
    BY <1>5 DEF StoreInitialCheck, Late, Calm
  <2>2. CASE store = "json"
    BY <1>5, <1>a, <1>b, <2>1, <2>2 DEF StoreInitialCheck, Unlinked, Quiet, FreeInstances, Sound, Claims, OneFlusher, Initializing, Trusted, Good, TypeOK, WellFormed, Request
  <2>3. CASE store = "postgres"
    BY <1>5, <1>a, <1>b, <2>1, <2>3 DEF StoreInitialCheck, EnsureLength, Quiet, FreeInstances, Sound, Claims, OneFlusher, Initializing, Trusted, Good, TypeOK, WellFormed, Request
  <2> QED
    BY <2>2, <2>3 DEF TypeOK
<1>6. CASE WriteLands
  BY <1>6, <1>b DEF WriteLands, Sound, Claims, OneFlusher, Initializing, Trusted, Good, TypeOK, WellFormed, torrent, flushers
<1>7. CASE Reopen
  BY <1>7, <1>a, <1>b DEF Reopen, EnsureLength, FreeInstances, Spawn, Sound, Claims, OneFlusher, Initializing, Trusted, Good, TypeOK, names, WellFormed, Request, FlusherStages
<1>8. CASE Cancel
  <2>1. Trusted' = Good /\ have' \subseteq Good /\ claim' = {} /\ OneFlusher' /\ Claims'
    BY <1>8, <1>a, DropClaims DEF Cancel, Sound, Claims, Trusted, Good, names
  <2>2. Initializing'
    BY <1>8 DEF Cancel, Sound, Initializing, WellFormed, TypeOK, names
  <2> QED
    BY <1>8, <2>1, <2>2 DEF Cancel, Sound
<1> QED
  BY <1>1, <1>2, <1>3, <1>4, <1>5, <1>6, <1>7, <1>8 DEF InitStep

\* The steps of the running torrent: only pieces without a bit are written to, and a
\* bit is set for a good piece only.
LEMMA RunClaims ==
  ASSUME TypeOK, WellFormed, Sound, NEW p \in Pieces,
         WritePiece(p) \/ PieceVerified(p) \/ OnPieceCompleted(p)
  PROVE  Sound'
<1>a. phase = "run" /\ phase' = "run" /\ Trusted = have /\ Trusted' = have'
  BY DEF WritePiece, PieceVerified, OnPieceCompleted, Trusted
<1>1. CASE WritePiece(p)
  BY <1>1, <1>a DEF WritePiece, Sound, Claims, OneFlusher, Initializing, Good, TypeOK, WellFormed, flushers, names
<1>2. CASE PieceVerified(p)
  BY <1>2, <1>a DEF PieceVerified, Sound, Claims, OneFlusher, Initializing, Good, TypeOK, WellFormed, flushers, names
<1>3. CASE OnPieceCompleted(p)
  <2>1. UNCHANGED <<store, data, moved, phase, claim, have, current, stage, snapshot, fd, tmp, bitv, landing>>
    BY <1>3 DEF OnPieceCompleted
  <2>2. UNCHANGED <<pending, updates>> \/ (Flush /\ CanFlush)
    BY <1>3 DEF OnPieceCompleted
  <2>3. CASE UNCHANGED <<pending, updates>>
    BY <2>1, <2>3, <1>a DEF Sound, Claims, OneFlusher, Initializing, Good
  <2>4. CASE Flush /\ CanFlush /\ store = "postgres"
    BY <2>1, <2>4, <1>a DEF Flush, Sound, Claims, OneFlusher, Initializing, Good
  <2>5. CASE Flush /\ CanFlush /\ store # "postgres"
    <3>1. pending \in [Instances -> Request \cup Contents] /\ current \in Instances \cup {None}
      BY DEF TypeOK
    <3>2. pending' = [pending EXCEPT ![current] = have] /\ UNCHANGED updates /\ stage[current] # "dead"
      BY <2>5 DEF Flush, CanFlush
    <3>3. Claims' /\ Initializing'
      BY <2>1, <1>a, <3>1, <3>2 DEF Sound, Claims, Initializing, Good
    <3>4. OneFlusher'
      BY <2>1, <1>a, <3>1, <3>2, ConstantsAssumption DEF Sound, OneFlusher
    <3> QED
      BY <2>1, <3>3, <3>4 DEF Sound
  <2> QED
    BY <2>2, <2>3, <2>4, <2>5
<1> QED
  BY <1>1, <1>2, <1>3

\* The steps of the user and of the machine, and those of an update of the row.
LEMMA OtherClaims ==
  ASSUME TypeOK, WellFormed, Sound, Calm',
         \/ \E p \in Pieces : Tamper(p)
         \/ \E f \in Files : MoveCompleted(f)
         \/ \E bits \in updates : UpdateRow(bits)
         \/ Pause \/ Resume \/ StopWithError \/ Start \/ Delete \/ DeleteFiles \/ Crash \/ PowerLoss
  PROVE  Sound'
<1>a. claim \in Contents /\ have \in Contents
  BY DEF TypeOK, Contents
<1>b. Good \subseteq Pieces /\ Trusted \subseteq Good
  BY DEF Good, Trusted, Sound, Claims
<1>1. ~(\E p \in Pieces : Tamper(p)) /\ ~(\E f \in Files : MoveCompleted(f)) /\ ~PowerLoss
  BY DEF Tamper, MoveCompleted, PowerLoss, Calm
<1>2. ASSUME NEW bits \in updates, UpdateRow(bits) PROVE Sound'
  BY <1>2 DEF UpdateRow, Sound, Claims, OneFlusher, Initializing, Trusted, Good, TypeOK, WellFormed, torrent, flushers
<1>3. CASE Pause \/ Resume
  BY <1>3 DEF Pause, Resume, Sound, Claims, OneFlusher, Initializing, Trusted, Good, TypeOK, WellFormed, flushers, names
<1>4. CASE StopWithError \/ Delete
  <2>1. Trusted' = Good /\ have' \subseteq Good /\ claim' \subseteq Good /\ have \subseteq Good
    BY <1>4 DEF StopWithError, Delete, Sound, Claims, Trusted, Good
  <2>2. OneFlusher' /\ Claims'
    BY <1>4, <1>a, <2>1, DropClaims DEF StopWithError, Delete, names
  <2>3. Initializing' /\ moved' = {}
    BY <1>4 DEF StopWithError, Delete, Sound, Initializing, names
  <2> QED
    BY <2>2, <2>3 DEF Sound
<1>5. CASE Start
  <2>1. data' = data
    BY <1>5 DEF Start, Found, Sound, TypeOK
  <2> QED
    BY <1>5, <2>1 DEF Start, Sound, Claims, OneFlusher, Initializing, Trusted, Good, TypeOK, WellFormed, flushers, names
<1>6. CASE DeleteFiles
  <2>1. data' = data
    BY <1>6 DEF DeleteFiles, Calm
  <2> QED
    <3>1. fd' = fd
      BY <1>6, ConstantsAssumption DEF DeleteFiles, Unlinked, OneFlusher, Sound, TypeOK
    <3> QED
      BY <1>6, <2>1, <3>1 DEF DeleteFiles, Sound, Claims, OneFlusher, Initializing, Trusted, Good
<1>7. CASE Crash
  <2>1. Good' = Good /\ Trusted' = Good /\ bitv' = bitv /\ tmp' = tmp /\ store' = store /\ moved' = moved
    BY <1>7 DEF Crash, Halt, Trusted, Good
  <2>2. phase' = "down" /\ claim' = {} /\ have' = {} /\ landing' = None /\ updates' = {} /\ current' = None
    BY <1>7 DEF Crash, Halt
  <2>3. \A g \in Instances : stage'[g] = "free" /\ pending'[g] = NoRequest /\ snapshot'[g] = NoRequest /\ fd'[g] = None
    BY <1>7 DEF Crash, Halt
  <2>4. Claims'
    BY <1>b, <2>1, <2>2, <2>3 DEF Sound, Claims, Request
  <2>5. OneFlusher' /\ Initializing'
    BY <2>1, <2>2, <2>3, ConstantsAssumption DEF OneFlusher, Initializing
  <2> QED
    BY <2>1, <2>4, <2>5 DEF Sound
<1> QED
  BY <1>1, <1>2, <1>3, <1>4, <1>5, <1>6, <1>7

-----------------------------------------------------------------------------
(* The theorem *)

\* A new torrent claims nothing.
LEMMA ResumeInit == Init => ResumeInv
<1> SUFFICES ASSUME Init PROVE ResumeInv
  OBVIOUS
<1>1. TypeOK
  BY DEF Init, TypeOK, Phases, FlusherStages, Request, Contents
<1>2. WellFormed
  BY DEF Init, WellFormed
<1>3. Claims /\ Initializing
  BY DEF Init, Claims, Initializing, Request
<1>4. OneFlusher
  BY ConstantsAssumption DEF Init, OneFlusher
<1> QED
  BY <1>1, <1>2, <1>3, <1>4 DEF ResumeInv, Sound, Init

\* Every step keeps the invariant: a state without faults follows one without faults.
LEMMA ResumeStep == ResumeInv /\ [Next]_vars => ResumeInv'
<1> SUFFICES ASSUME ResumeInv, [Next]_vars PROVE ResumeInv'
  OBVIOUS
<1>1. CASE Next
  <2>1. TypeOK' /\ WellFormed'
    BY <1>1, FlusherTypes, InitTypes, RunTypes DEF ResumeInv, Next
  <2>2. ASSUME Calm' PROVE Sound'
    <3>1. Sound
      BY <1>1, <2>2, FaultsGrow DEF Calm, ResumeInv
    <3> QED
      BY <1>1, <2>2, <3>1, FlusherClaims, InitClaims, RunClaims, OtherClaims DEF ResumeInv, Next
  <2> QED
    BY <2>1, <2>2 DEF ResumeInv
<1>2. CASE UNCHANGED vars
  BY <1>2 DEF vars, torrent, flushers, names, ResumeInv, TypeOK, WellFormed, Calm, Sound, Claims, OneFlusher, Initializing, Trusted, Good
<1> QED
  BY <1>1, <1>2

\* The stored bitfield never claims a piece the data does not have: not the file, not
\* the row, not a snapshot a flusher holds or a request that waits, whatever
\* initializations, pauses, deletes, failing writes and crashes of the process
\* happened, as long as the data itself stayed and no flusher was late
\* (DiskBackedBitV, FileOps::initial_check and TorrentStateInitializing::check).
THEOREM StoredClaimsAreGood == Spec => []ClaimsAreGood
<1>1. Spec => []ResumeInv
  BY ResumeInit, ResumeStep, PTL DEF Spec
<1>2. ResumeInv => ClaimsAreGood
  <2> SUFFICES ASSUME ResumeInv, Calm PROVE ClaimsAreGood
    BY DEF ClaimsAreGood, Calm
  <2>1. Sound /\ Trusted \subseteq Good
    BY DEF ResumeInv, Sound, Claims, Trusted
  <2> QED
    BY <2>1 DEF ClaimsAreGood, Sound, Claims
<1> QED
  BY <1>1, <1>2, PTL
=============================================================================
