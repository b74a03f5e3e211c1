---------------------------- MODULE MCServices -----------------------------
(***************************************************************************)
(* The components around the core share no state with each other, so one   *)
(* run explores them one at a time: `part` says which one moves.           *)
(***************************************************************************)
EXTENDS PeerWire, ReadBuf, Magnet, Feeds, WatchFolder, Categories, Storage

CONSTANTS a1, f1, i1

VARIABLE part

MCOrigin == [a \in Address |-> IF a = a1 THEN "dht" ELSE "tracker"]
MCFeedConfig == [f \in Feed |->
  IF f = f1 THEN {[enabled |-> TRUE, auto |-> TRUE, filtered |-> FALSE, passes |-> {}]}
  ELSE {[enabled |-> TRUE, auto |-> FALSE, filtered |-> TRUE, passes |-> {i1}]}]
MCSpan == [b \in Blocks |-> CASE b = 1 -> <<1, 2>> [] b = 2 -> <<3>> [] OTHER -> <<2>>]
MCBlockPiece == [b \in Blocks |-> IF b = 3 THEN 2 ELSE 1]
MCRuleConfig == {[enabled |-> TRUE, feeds |-> Feed \ {f1}, matches |-> Item]}

\* With everything written and the bound on pauses reached, the storage is left alone.
AtRest == life = "live" /\ jobs = {} /\ object = MaxObjects /\ UNCHANGED storageVars

Init ==
  /\ part \in {"wire", "ring", "magnet", "feeds", "watch", "categories", "storage"}
  /\ WireInit /\ RingInit /\ MagnetInit /\ FeedInit /\ WatchInit /\ CategoryInit /\ StorageInit
  \* No other component looks at the torrent of the wire or at the options of the storage.
  /\ part # "wire" => upload /\ ~private
  \* Overwriting is about the opening of the files, in which no cache takes part.
  /\ capacity > 0 => overwrite
  /\ part # "storage" => capacity = 0 /\ overwrite /\ exist = {}

Next ==
  /\ UNCHANGED part
  /\ \/ /\ part = "wire" /\ WireNext
        /\ UNCHANGED <<ringVars, magnetVars, feedVars, watchVars, categoryVars, storageVars>>
     \/ /\ part = "ring" /\ RingNext
        /\ UNCHANGED <<wireVars, magnetVars, feedVars, watchVars, categoryVars, storageVars>>
     \/ /\ part = "magnet" /\ MagnetNext
        /\ UNCHANGED <<wireVars, ringVars, feedVars, watchVars, categoryVars, storageVars>>
     \/ /\ part = "feeds" /\ FeedNext
        /\ UNCHANGED <<wireVars, ringVars, magnetVars, watchVars, categoryVars, storageVars>>
     \/ /\ part = "watch" /\ WatchNext
        /\ UNCHANGED <<wireVars, ringVars, magnetVars, feedVars, categoryVars, storageVars>>
     \/ /\ part = "categories" /\ CategoryNext
        /\ UNCHANGED <<wireVars, ringVars, magnetVars, feedVars, watchVars, storageVars>>
     \/ /\ part = "storage" /\ (StorageNext \/ AtRest)
        /\ UNCHANGED <<wireVars, ringVars, magnetVars, feedVars, watchVars, categoryVars>>

Spec == Init /\ [][Next]_<<part, wireVars, ringVars, magnetVars, feedVars, watchVars, categoryVars, storageVars>>
=============================================================================
