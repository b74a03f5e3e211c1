------------------------ MODULE ManagedTorrentProofs ------------------------
(* Machine-checked proofs about ManagedTorrent, for any number of calls of   *)
(* start(), initialization permits and selections.                           *)
EXTENDS ManagedTorrent, TLAPS

\* Runs are numbered in the order of the calls; a token that was replaced is never
\* handed out again.
RunsInOrder ==
  /\ init <= runs /\ current <= runs
  /\ \A k \in Run : /\ epochOf[k] <= epoch /\ object[k] <= runs
                    /\ k > runs => stage[k] = "free" /\ live[k] = "none"
                    /\ receiver[k] # "none" => live[k] # "none"
  /\ \A k \in taken : k <= runs

\* What delete() has established as soon as it has cancelled the token: no run but a late
\* one has a token that is not cancelled.
DeleteGoesOn ==
  deleting # "no" =>
    \A k \in Run : k <= runs /\ k \notin late => closed \/ epochOf[k] < epoch

\* Without interference there is at most one initialization task, the one the state
\* is waiting for, and it will install what the user asked for.
OneInitialization ==
  /\ \A k \in Run : receiver[k] # "got"
  /\ deleting \in {"no", "cancelled"} =>
       \A k \in Run : stage[k] # "free" => state = "initializing" /\ k = init
  /\ deleting \in {"paused", "done"} => state \notin {"initializing", "live"}
  /\ state = "initializing" =>
       /\ files[init] = only
       /\ \A k \in Run : stage[k] # "free" =>
            /\ object[k] = init /\ epochOf[k] = epoch
            /\ startPaused[k] => paused
            /\ stage[k] = "checked" => good[k]
            /\ stage[k] \in {"queued", "checking", "stored"} => object[k] \notin taken
  /\ state = "live" => live[current] = "running" /\ epochOf[current] = epoch
  /\ state = "paused" => paused
  /\ state \in {"paused", "live"} => usable /\ chosen = only
  /\ \A k \in Run : live[k] = "running" /\ epochOf[k] = epoch /\ ~closed => current = k

TorrentInv ==
  /\ TypeOK /\ RunsInOrder /\ DeleteGoesOn
  /\ ~disturbed => OneInitialization


USE DEF torrent, tokens, inits, lives, deletion

\* Runs are counted from one.
LEMMA RunNumbers ==
  /\ 1 \in Run /\ 0 \notin Run
  /\ Run \subseteq Nat
  BY ConstantsAssumption DEF Run, ConstantsAssumption

USE RunNumbers

\* A torrent that was just added satisfies the invariant.
LEMMA TorrentInit == Init => TorrentInv
<1>1. InitialSelection \in Selection
  BY ConstantsAssumption DEF InitialSelection, ConstantsAssumption
<1> SUFFICES ASSUME Init PROVE TorrentInv
  OBVIOUS
<1>3. startPaused \in [Run -> BOOLEAN]
  BY DEF Init
<1>4. TypeOK
  BY <1>1, <1>3 DEF Init, TypeOK, States, Stages
<1>5. RunsInOrder /\ DeleteGoesOn
  BY DEF Init, RunsInOrder, DeleteGoesOn
<1>6. OneInitialization
  BY DEF Init, Run, OneInitialization
<1> QED
  BY <1>4, <1>5, <1>6 DEF TorrentInv

-----------------------------------------------------------------------------
(* Types *)

\* Steps of the initialization tasks and the receivers keep the types.
LEMMA TypeTasks ==
  ASSUME TypeOK, NEW k \in Run, InitStep(k) \/ LiveStep(k)
  PROVE  TypeOK'
<1> USE DEF TypeOK, States, Stages
<1>1. CASE GetPermit(k) \/ Cancelled(k) \/ Check(k)
  <2>1. stage' \in [Run -> Stages]
    BY <1>1 DEF GetPermit, Cancelled, Check, Goto
  <2>2. UNCHANGED <<torrent, tokens, object, startPaused, good, files, taken, lives, deletion, disturbed>>
    BY <1>1 DEF GetPermit, Cancelled, Check
  <2> QED
    BY <2>1, <2>2
<1>2. CASE TakeStorage(k)
  BY <1>2 DEF TakeStorage, Goto
<1>3. CASE Install(k)
  <2>1. /\ stage' \in [Run -> Stages] /\ k # 0
        /\ UNCHANGED <<init, paused, only, tokens, object, startPaused, good, files, taken,
                       deletion, disturbed>>
    BY <1>3 DEF Install, Goto
  <2>2. CASE state # "initializing"
    BY <1>3, <2>1, <2>2 DEF Install
  <2>3. CASE state = "initializing"
    <3>0. usable' = good[k] /\ chosen' = files[object[k]]
      BY <1>3, <2>3 DEF Install
    <3>1. usable' \in BOOLEAN /\ chosen' \in Selection
      <4>1. good[k] \in BOOLEAN
        BY Zenon
      <4>2. files[object[k]] \in Selection
        OBVIOUS
      <4> QED
        BY <3>0, <4>1, <4>2, Zenon
    <3>2. \/ state' = "paused" /\ UNCHANGED <<current, lives>>
          \/ GoLive(k)
      BY <1>3, <2>3 DEF Install
    <3>3. (current' # 0 <=> state' = "live") /\ state' \in States /\ current' \in Run \cup {0}
      BY <2>1, <2>3, <3>2 DEF GoLive
    <3>4. /\ live' \in [Run -> {"none", "running", "stopped"}]
          /\ receiver' \in [Run -> {"none", "waiting", "signalled", "got"}]
      BY <3>2 DEF GoLive
    <3> QED
      BY <2>1, <3>1, <3>3, <3>4
  <2> QED
    BY <2>2, <2>3
<1>4. CASE InstallError(k)
  BY <1>4 DEF InstallError, Goto
<1>5. CASE FatalError(k) \/ ReceiverWakes(k)
  BY <1>5, ZenonT(40) DEF FatalError, ReceiverWakes
<1>6. CASE StopWithError(k)
  BY <1>6 DEF StopWithError, StopLive
<1> QED
  BY <1>1, <1>2, <1>3, <1>4, <1>5, <1>6 DEF InitStep, LiveStep

\* Steps of the user keep the types.
LEMMA TypeUser ==
  ASSUME TypeOK, UserStep
  PROVE  TypeOK'
<1> USE DEF TypeOK, States, Stages
<1>1. CASE Unpause
  <2> DEFINE k == runs + 1
  <2>1. k \in Run /\ k # 0
    BY <1>1, ConstantsAssumption DEF Unpause, Run, ConstantsAssumption
  <2>a. paused' \in BOOLEAN /\ disturbed' \in BOOLEAN
    <3>1. paused' = FALSE /\ disturbed' = (disturbed \/ state = "initializing" \/ deleting # "no")
      BY <1>1 DEF Unpause
    <3> QED
      BY <3>1, Zenon
  <2>b. /\ runs' = k /\ epochOf' \in [Run -> Nat] /\ late' \subseteq Run
        /\ UNCHANGED <<usable, chosen, only, epoch, closed, good, taken, deleting>>
    BY <1>1, <2>1 DEF Unpause
  <2>2. CASE state = "initializing" /\ Spawn(k, init) /\ UNCHANGED <<state, init, current, files, lives>>
    BY <2>1, <2>2, <2>a, <2>b DEF Spawn
  <2>3. CASE state = "paused" /\ GoLive(k) /\ UNCHANGED <<init, stage, object, startPaused, files>>
    BY <2>1, <2>3, <2>a, <2>b DEF GoLive
  <2>4. CASE /\ state = "error" /\ Spawn(k, k) /\ state' = "initializing"
             /\ init' = k /\ files' = [files EXCEPT ![k] = only] /\ UNCHANGED <<current, lives>>
    <3>2. startPaused' \in [Run -> BOOLEAN]
      BY <2>1, <2>4 DEF Spawn
    <3>3. stage' \in [Run -> Stages] /\ object' \in [Run -> Run] /\ files' \in [Run -> Selection]
      BY <2>1, <2>4 DEF Spawn
    <3> QED
      BY <2>1, <2>4, <2>a, <2>b, <3>2, <3>3
  <2>5. CASE UNCHANGED <<state, init, current, stage, object, startPaused, files, lives>>
    BY <2>1, <2>5, <2>a, <2>b
  <2> QED
    BY <1>1, <2>2, <2>3, <2>4, <2>5 DEF Unpause
<1>2. ASSUME Pause, deleting' \in {"no", "cancelled", "paused", "done"}, UNCHANGED late,
             disturbed' \in BOOLEAN
      PROVE  TypeOK'
  <2>1. CASE state = "live"
    BY <1>2, <2>1 DEF Pause, StopLive
  <2>2. CASE state = "initializing"
    <3>1. /\ epoch' = epoch + 1 /\ closed' = FALSE /\ state' = "error" /\ paused' = TRUE
          /\ UNCHANGED <<current, live, init, usable, chosen, only, runs, epochOf, inits, receiver>>
      BY <1>2, <2>2 DEF Pause
    <3>2. /\ state' \in States /\ current' \in Run \cup {0} /\ (current' # 0 <=> state' = "live")
      <4>1. state' \in States
        BY <3>1
      <4>2. current' \in Run \cup {0}
        BY <3>1
      <4>3. (current' # 0 <=> state' = "live")
        BY <2>2, <3>1
      <4> QED
        BY <4>1, <4>2, <4>3
    <3>3. closed' \in BOOLEAN /\ paused' \in BOOLEAN
      BY <3>1, Zenon
    <3>4. epoch' \in Nat
      BY <3>1
    <3> QED
      BY <1>2, <3>1, <3>2, <3>3, <3>4
  <2> QED
    BY <1>2, <2>1, <2>2 DEF Pause
<1>3. CASE UserPauses
  BY <1>2, <1>3 DEF UserPauses
<1>4. ASSUME NEW s \in Selection, UpdateOnlyFiles(s) PROVE TypeOK'
  BY <1>4 DEF UpdateOnlyFiles
<1>5. CASE DeleteCancels
  BY <1>5 DEF DeleteCancels
<1>6. CASE DeletePauses
  BY <1>2, <1>6 DEF DeletePauses
<1>7. CASE DeleteTakes
  BY <1>7 DEF DeleteTakes, StopLive
<1> QED
  BY <1>1, <1>3, <1>4, <1>5, <1>6, <1>7 DEF UserStep

-----------------------------------------------------------------------------
(* The tasks *)

\* Steps of the initialization tasks.
LEMMA InitTasks ==
  ASSUME TorrentInv, TypeOK', NEW k \in Run, InitStep(k)
  PROVE  TorrentInv'
<1> USE DEF TypeOK, States, Stages
<1>0. TypeOK /\ RunsInOrder /\ DeleteGoesOn /\ (~disturbed => OneInitialization)
  BY DEF TorrentInv
<1>1. CASE GetPermit(k) \/ Cancelled(k) \/ Check(k)
  <2>1. /\ UNCHANGED <<torrent, tokens, object, startPaused, good, files, taken, lives, deletion, disturbed>>
        /\ stage[k] # "free" /\ stage[k] \in {"queued", "checking", "stored"}
        /\ stage'[k] \in {"free", "checking", "stored", "failed"}
        /\ \A j \in Run \ {k} : stage'[j] = stage[j]
    BY <1>0, <1>1 DEF GetPermit, Cancelled, Check, Goto
  <2>2. RunsInOrder' /\ DeleteGoesOn'
    BY <1>0, <2>1 DEF RunsInOrder, DeleteGoesOn
  <2>3. ~disturbed => OneInitialization'
    BY <1>0, <2>1 DEF OneInitialization
  <2> QED
    BY <2>1, <2>2, <2>3 DEF TorrentInv
<1>2. CASE TakeStorage(k)
  <2>1. RunsInOrder' /\ DeleteGoesOn'
    BY <1>0, <1>2 DEF TakeStorage, Goto, RunsInOrder, DeleteGoesOn
  <2>2. ASSUME ~disturbed PROVE OneInitialization'
    <3>1. /\ stage[k] = "stored" /\ stage' = [stage EXCEPT ![k] = "checked"]
          /\ good' = [good EXCEPT ![k] = object[k] \notin taken]
          /\ taken' = taken \cup {object[k]}
          /\ UNCHANGED <<torrent, tokens, object, startPaused, files, lives, deletion>>
      BY <1>2 DEF TakeStorage, Goto
    <3>2. state = "initializing" =>
            /\ k = init /\ object[k] \notin taken
            /\ \A j \in Run \ {k} : stage[j] = "free"
      BY <1>0, <2>2, <3>1 DEF OneInitialization, DeleteGoesOn
    <3>3. state = "initializing" => good'[k]
      <4>1. state = "initializing" => (object[k] \notin taken) = TRUE
        BY <3>2
      <4>2. state = "initializing" => good' = [good EXCEPT ![k] = TRUE]
        BY <3>1, <4>1
      <4> QED
        BY <1>0, <4>2
    <3> QED
      BY <1>0, <2>2, <3>1, <3>2, <3>3 DEF OneInitialization
  <2> QED
    BY <1>2, <2>1, <2>2 DEF TorrentInv, TakeStorage
<1>3. CASE Install(k)
  <2>1. RunsInOrder' /\ DeleteGoesOn'
    BY <1>0, <1>3 DEF Install, Goto, GoLive, RunsInOrder, DeleteGoesOn
  <2>2. ~disturbed => OneInitialization'
    BY <1>0, <1>3 DEF Install, Goto, GoLive, OneInitialization, DeleteGoesOn
  <2> QED
    BY <1>3, <2>1, <2>2 DEF TorrentInv, Install
<1>4. CASE InstallError(k)
  <2>1. RunsInOrder' /\ DeleteGoesOn'
    BY <1>0, <1>4 DEF InstallError, Goto, RunsInOrder, DeleteGoesOn
  <2>2. ~disturbed => OneInitialization'
    BY <1>0, <1>4 DEF InstallError, Goto, OneInitialization, DeleteGoesOn
  <2> QED
    BY <1>4, <2>1, <2>2 DEF TorrentInv, InstallError
<1> QED
  BY <1>1, <1>2, <1>3, <1>4 DEF InitStep

\* Steps of a live torrent and of the receiver of its fatal error.
LEMMA LiveTasks ==
  ASSUME TorrentInv, TypeOK', NEW k \in Run, LiveStep(k)
  PROVE  TorrentInv'
<1> USE DEF TypeOK, States, Stages
<1>0. TypeOK /\ RunsInOrder /\ DeleteGoesOn /\ (~disturbed => OneInitialization)
  BY DEF TorrentInv
<1>1. CASE FatalError(k)
  BY <1>0, <1>1 DEF FatalError, RunsInOrder, DeleteGoesOn, OneInitialization, TorrentInv
<1>2. CASE ReceiverWakes(k)
  BY <1>0, <1>2 DEF ReceiverWakes, RunsInOrder, DeleteGoesOn, OneInitialization, TorrentInv
<1>3. CASE StopWithError(k)
  <2>1. RunsInOrder' /\ DeleteGoesOn'
    BY <1>0, <1>3 DEF StopWithError, StopLive, RunsInOrder, DeleteGoesOn
  <2>2. ASSUME ~disturbed PROVE OneInitialization'
    <3>1. receiver[k] = "signalled" /\ Alive(k) /\ OneInitialization
      BY <1>0, <1>3, <2>2 DEF StopWithError, OneInitialization
    <3>2. state = "live" /\ current = k
      <4>1. live[k] = "running" /\ epochOf[k] = epoch /\ ~closed
        BY <1>0, <3>1 DEF RunsInOrder, Alive
      <4> QED
        BY <1>0, <3>1, <4>1 DEF OneInitialization
    <3>3. /\ live' = [live EXCEPT ![k] = "stopped"] /\ state' = "error" /\ current' = 0
          /\ receiver' = [receiver EXCEPT ![k] = "none"]
          /\ UNCHANGED <<init, usable, chosen, paused, only, tokens, inits, deletion, disturbed>>
      BY <1>3, <3>2 DEF StopWithError, StopLive
    <3> QED
      BY <1>0, <3>1, <3>2, <3>3 DEF OneInitialization
  <2> QED
    BY <1>3, <2>1, <2>2 DEF TorrentInv, StopWithError
<1> QED
  BY <1>1, <1>2, <1>3 DEF LiveStep

-----------------------------------------------------------------------------
(* The user *)

\* What users and the session ask of a torrent keeps the invariant.
LEMMA UserSteps ==
  ASSUME TorrentInv, TypeOK', UserStep
  PROVE  TorrentInv'
<1> USE DEF TypeOK, States, Stages
<1>0. TypeOK /\ RunsInOrder /\ DeleteGoesOn /\ (~disturbed => OneInitialization)
  BY DEF TorrentInv
<1>1. CASE Unpause
  <2> DEFINE k == runs + 1
  <2>1. /\ k \in Run /\ k # 0 /\ k > runs /\ runs' = k
        /\ disturbed' = (disturbed \/ state = "initializing" \/ deleting # "no")
    BY <1>0, <1>1, ConstantsAssumption DEF Unpause, Run, ConstantsAssumption
  <2>t. /\ runs \in Nat /\ init \in Nat /\ current \in Nat /\ epoch \in Nat /\ k \in Nat
        /\ object \in [Run -> Nat] /\ epochOf \in [Run -> Nat] /\ taken \subseteq Nat
        /\ Run \subseteq Nat
    <3>1. runs \in Nat /\ init \in Nat /\ current \in Nat /\ epoch \in Nat
      BY <1>0
    <3>2. k \in Nat
      BY <2>1, <3>1
    <3>3. object \in [Run -> Nat] /\ epochOf \in [Run -> Nat] /\ taken \subseteq Nat
      BY <1>0
    <3> QED
      BY <3>1, <3>2, <3>3
  <2> DEFINE Others(f, g) == \A j \in Run \ {k} : g[j] = f[j]
  <2>0. /\ epochOf'[k] = epoch /\ Others(epochOf, epochOf') /\ UNCHANGED <<epoch, taken>>
        /\ runs \in Nat /\ epoch \in Nat /\ epochOf[k] \in Nat
        /\ \A j \in Run : j # k => (j > runs' <=> j > runs)
    BY <1>0, <1>1, <2>1 DEF Unpause
  <2>d. DeleteGoesOn'
    <3>1. /\ UNCHANGED <<deleting, closed, epoch>>
          /\ late' = IF deleting # "no" /\ ~closed THEN late \cup {k} ELSE late
      BY <1>1 DEF Unpause
    <3> HIDE DEF TypeOK, k
    <3> QED
      BY <1>0, <2>0, <2>1, <2>t, <3>1 DEF DeleteGoesOn
  <2>2. CASE state = "initializing" /\ Spawn(k, init) /\ UNCHANGED <<state, init, current, files, lives>>
    <3>1. RunsInOrder'
      <4>1. /\ UNCHANGED <<init, current, live, receiver>>
            /\ Others(stage, stage') /\ Others(object, object') /\ object'[k] = init
        BY <1>0, <2>1, <2>2 DEF Spawn
      <4> HIDE DEF TypeOK, k
      <4> QED
        BY <1>0, <2>0, <2>1, <2>t, <4>1 DEF RunsInOrder
    <3>2. disturbed'
      BY <2>1, <2>2
    <3> QED
      BY <2>d, <3>1, <3>2 DEF TorrentInv
  <2>3. CASE state = "paused" /\ GoLive(k) /\ UNCHANGED <<init, stage, object, startPaused, files>>
    <3>1. RunsInOrder'
      <4>1. /\ UNCHANGED <<init, stage, object>> /\ current' = k
            /\ Others(live, live') /\ Others(receiver, receiver') /\ live'[k] = "running"
        BY <1>0, <2>1, <2>3 DEF GoLive
      <4> HIDE DEF TypeOK, k
      <4> QED
        BY <1>0, <2>0, <2>1, <2>t, <4>1 DEF RunsInOrder
    <3>2. ASSUME ~disturbed' PROVE OneInitialization'
      <4>1. ~disturbed /\ deleting = "no" /\ OneInitialization
        BY <1>0, <2>1, <3>2
      <4> QED
        BY <1>0, <1>1, <2>1, <2>3, <4>1 DEF Unpause, GoLive, OneInitialization
    <3> QED
      BY <2>d, <3>1, <3>2 DEF TorrentInv
  <2>4. CASE /\ state = "error" /\ Spawn(k, k) /\ state' = "initializing"
             /\ init' = k /\ files' = [files EXCEPT ![k] = only] /\ UNCHANGED <<current, lives>>
    <3>1. RunsInOrder'
      <4>1. /\ UNCHANGED <<current, live, receiver>> /\ init' = k
            /\ Others(stage, stage') /\ Others(object, object') /\ object'[k] = k
        BY <1>0, <2>1, <2>4 DEF Spawn
      <4> HIDE DEF TypeOK, k
      <4> QED
        BY <1>0, <2>0, <2>1, <2>t, <4>1 DEF RunsInOrder
    <3>2. ASSUME ~disturbed' PROVE OneInitialization'
      <4>1. ~disturbed /\ deleting = "no" /\ OneInitialization
        BY <1>0, <2>1, <3>2
      <4> QED
        BY <1>0, <1>1, <2>1, <2>4, <4>1 DEF Unpause, Spawn, OneInitialization, RunsInOrder
    <3> QED
      BY <2>d, <3>1, <3>2 DEF TorrentInv
  <2>5. CASE /\ state \in {"live", "error", "none"}
             /\ UNCHANGED <<state, init, current, stage, object, startPaused, files, lives>>
    <3>1. RunsInOrder'
      <4> HIDE DEF TypeOK, k
      <4> QED
        BY <1>0, <2>0, <2>1, <2>t, <2>5 DEF RunsInOrder
    <3>2. ASSUME ~disturbed' PROVE OneInitialization'
      <4>1. ~disturbed /\ deleting = "no" /\ OneInitialization
        BY <1>0, <2>1, <3>2
      <4> QED
        BY <1>0, <1>1, <2>1, <2>5, <4>1 DEF Unpause, OneInitialization, RunsInOrder
    <3> QED
      BY <2>d, <3>1, <3>2 DEF TorrentInv
  <2> QED
    BY <1>1, <2>2, <2>3, <2>4, <2>5 DEF Unpause
<1>2. CASE UserPauses
  <2>1. RunsInOrder' /\ DeleteGoesOn'
    BY <1>0, <1>2 DEF UserPauses, Pause, StopLive, RunsInOrder, DeleteGoesOn
  <2>2. ASSUME ~disturbed' PROVE OneInitialization'
    <3>1. state = "live" /\ ~disturbed /\ OneInitialization
      BY <1>0, <1>2, <2>2 DEF UserPauses, Pause
    <3>2. /\ live' = [live EXCEPT ![current] = "stopped"] /\ state' = "paused" /\ current' = 0
          /\ paused' = TRUE
          /\ UNCHANGED <<init, usable, chosen, only, runs, epoch, closed, epochOf, inits, receiver,
                         deletion>>
      BY <1>2, <3>1 DEF UserPauses, Pause, StopLive
    <3> QED
      BY <1>0, <3>1, <3>2 DEF OneInitialization
  <2> QED
    BY <2>1, <2>2 DEF TorrentInv
<1>3. ASSUME NEW s \in Selection, UpdateOnlyFiles(s) PROVE TorrentInv'
  BY <1>0, <1>3 DEF UpdateOnlyFiles, RunsInOrder, DeleteGoesOn, OneInitialization, TorrentInv
<1>4. CASE DeleteCancels
  BY <1>0, <1>4 DEF DeleteCancels, RunsInOrder, DeleteGoesOn, OneInitialization, TorrentInv
<1>5. CASE DeletePauses
  <2>1. RunsInOrder' /\ DeleteGoesOn'
    <3>1. CASE state = "live"
      BY <1>0, <1>5, <3>1 DEF DeletePauses, Pause, StopLive, RunsInOrder, DeleteGoesOn
    <3>2. CASE state = "initializing"
      <4>1. /\ epoch' = epoch + 1 /\ state' = "error" /\ deleting' = "paused"
            /\ UNCHANGED <<current, live, init, runs, epochOf, stage, object, taken, receiver>>
        BY <1>5, <3>2 DEF DeletePauses, Pause
      <4>2. \A k \in Run : epochOf'[k] < epoch'
        BY <1>0, <4>1 DEF RunsInOrder
      <4>3. RunsInOrder'
        BY <1>0, <4>1, <4>2 DEF RunsInOrder
      <4> QED
        BY <4>2, <4>3 DEF DeleteGoesOn
    <3>3. CASE state \notin {"live", "initializing"}
      <4>1. deleting # "no" /\ UNCHANGED <<torrent, tokens, inits, lives, late>>
        BY <1>5, <3>3 DEF DeletePauses
      <4> QED
        BY <1>0, <3>3, <4>1 DEF RunsInOrder, DeleteGoesOn
    <3> QED
      BY <3>1, <3>2, <3>3
  <2>2. ~disturbed => OneInitialization'
    BY <1>0, <1>5 DEF DeletePauses, Pause, StopLive, OneInitialization, RunsInOrder
  <2> QED
    BY <1>5, <2>1, <2>2 DEF TorrentInv, DeletePauses
<1>6. CASE DeleteTakes
  <2>1. RunsInOrder' /\ DeleteGoesOn'
    BY <1>0, <1>6 DEF DeleteTakes, StopLive, RunsInOrder, DeleteGoesOn
  <2>2. ~disturbed => OneInitialization'
    BY <1>0, <1>6 DEF DeleteTakes, StopLive, OneInitialization, DeleteGoesOn
  <2> QED
    BY <1>6, <2>1, <2>2 DEF TorrentInv, DeleteTakes
<1> QED
  BY <1>1, <1>2, <1>3, <1>4, <1>5, <1>6 DEF UserStep

\* The invariant holds in every reachable state.
LEMMA TorrentInvariant == Spec => []TorrentInv
<1>1. TorrentInv /\ [Next]_vars => TorrentInv'
  <2> SUFFICES ASSUME TorrentInv, [Next]_vars PROVE TorrentInv'
    OBVIOUS
  <2>1. TypeOK
    BY DEF TorrentInv
  <2>2. CASE UNCHANGED vars
    BY <2>2 DEF vars, TorrentInv, TypeOK, RunsInOrder, DeleteGoesOn, OneInitialization
  <2> QED
    BY <2>1, <2>2, TypeTasks, TypeUser, InitTasks, LiveTasks, UserSteps DEF Next
<1> QED
  BY <1>1, TorrentInit, PTL DEF Spec

-----------------------------------------------------------------------------
(* Theorems *)

\* After delete() no live torrent of any start() runs, whatever else was under way
\* (initializations, fatal errors, pauses, handles kept across it), unless a handle
\* unpaused it on a token that was made after delete() had cancelled the torrent's.
THEOREM DeleteStopsEverything == Spec => []DeletedIsStopped
<1>1. TorrentInv => DeletedIsStopped
  BY DEF TorrentInv, DeleteGoesOn, RunsInOrder, DeletedIsStopped, Running, Alive, TypeOK
<1> QED
  BY <1>1, TorrentInvariant, PTL

\* A live torrent whose token is not cancelled is the one in the state: none runs that
\* nobody can pause or delete, unless an initialization was disturbed.
THEOREM NoneRunsUnseen == Spec => []NoOrphanLive
<1>1. TorrentInv => NoOrphanLive
  BY DEF TorrentInv, OneInitialization, NoOrphanLive, Running, Alive
<1> QED
  BY <1>1, TorrentInvariant, PTL

\* The live torrent in the state has a token that is not cancelled: a task that outlived
\* a pause or a delete does not install one that shows Live and does nothing, unless an
\* initialization was disturbed.
THEOREM TheStateIsAlive == Spec => []LiveIsAlive
<1>1. TorrentInv => LiveIsAlive
  BY DEF TorrentInv, OneInitialization, LiveIsAlive, Running, Alive
<1> QED
  BY <1>1, TorrentInvariant, PTL

\* Whatever initialization a Paused or Live torrent came from, it has the selection the
\* user made last, also when update_only_files came while the torrent was checked,
\* unless an initialization was disturbed.
THEOREM SelectionIsInstalled == Spec => []SelectionApplied
<1>1. TorrentInv => SelectionApplied
  BY DEF TorrentInv, OneInitialization, SelectionApplied
<1> QED
  BY <1>1, TorrentInvariant, PTL

\* Whatever initialization a Paused or Live torrent came from, its storage is not the
\* dummy that take() left behind, unless an initialization was disturbed.
THEOREM StorageIsInstalled == Spec => []StorageUsable
<1>1. TorrentInv => StorageUsable
  BY DEF TorrentInv, OneInitialization, StorageUsable
<1> QED
  BY <1>1, TorrentInvariant, PTL

\* A torrent is Paused only if the user wants it paused, whoever called start() and
\* pause() while it was checked, unless an initialization was disturbed.
THEOREM WishIsHonoured == Spec => []IntentionHonoured
<1>1. TorrentInv => IntentionHonoured
  BY DEF TorrentInv, OneInitialization, IntentionHonoured
<1> QED
  BY <1>1, TorrentInvariant, PTL
=============================================================================
