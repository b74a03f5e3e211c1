---------------------------- MODULE ServicesProofs ----------------------------
(* Machine-checked proofs about the components around the core, each on its   *)
(* own, for any number of files, feeds, items, pieces, peers and callers and  *)
(* any bounds on queues.                                                      *)
EXTENDS WatchFolder, Feeds, PeerWire, Magnet, Categories, Storage, ReadBuf,
        FiniteSetTheorems, SequenceTheorems, NaturalsInduction, WellFoundedInduction, TLAPS

-----------------------------------------------------------------------------
(* Queues *)

\* What is in a queue after something was put in.
LEMMA Appended ==
  ASSUME NEW S, NEW q \in Seq(S), NEW x \in S
  PROVE  /\ Append(q, x) \in Seq(S) /\ Len(Append(q, x)) = Len(q) + 1
         /\ ToSet(Append(q, x)) = ToSet(q) \cup {x}
<1>1. Append(q, x) \in Seq(S) /\ Len(Append(q, x)) = Len(q) + 1
  OBVIOUS
<1>2. \A i \in 1..Len(q) : Append(q, x)[i] = q[i]
  OBVIOUS
<1>3. Append(q, x)[Len(q) + 1] = x
  OBVIOUS
<1> QED
  BY <1>1, <1>2, <1>3 DEF ToSet

\* What is in a queue after something was taken out.
LEMMA TakenOut ==
  ASSUME NEW S, NEW q \in Seq(S), q # <<>>
  PROVE  /\ Head(q) \in S /\ Tail(q) \in Seq(S) /\ Len(Tail(q)) = Len(q) - 1
         /\ Head(q) \in ToSet(q) /\ ToSet(q) = ToSet(Tail(q)) \cup {Head(q)}
<1>1. Head(q) \in S /\ Tail(q) \in Seq(S) /\ Len(Tail(q)) = Len(q) - 1 /\ Head(q) = q[1] /\ Len(q) \in Nat \ {0}
  OBVIOUS
<1>2. \A i \in 1..(Len(q) - 1) : Tail(q)[i] = q[i + 1]
  OBVIOUS
<1>3. ToSet(Tail(q)) \subseteq ToSet(q)
  BY <1>1, <1>2 DEF ToSet
<1>4. ASSUME NEW x \in ToSet(q), x # Head(q) PROVE x \in ToSet(Tail(q))
  <2>1. PICK i \in 1..Len(q) : x = q[i]
    BY <1>4 DEF ToSet
  <2>2. i # 1 /\ i - 1 \in 1..(Len(q) - 1) /\ Tail(q)[i - 1] = x
    BY <1>1, <1>2, <1>4, <2>1
  <2>3. DOMAIN Tail(q) = 1..(Len(q) - 1)
    BY <1>1
  <2> QED
    BY <2>2, <2>3 DEF ToSet
<1>5. Head(q) \in ToSet(q)
  BY <1>1 DEF ToSet
<1> QED
  BY <1>1, <1>3, <1>4, <1>5

\* An empty queue, and what a queue may hold.
LEMMA QueueHolds ==
  /\ \A S : <<>> \in Seq(S) /\ Len(<<>>) = 0 /\ ToSet(<<>>) = {}
  /\ \A S : \A q \in Seq(S) : ToSet(q) \subseteq S
  BY DEF ToSet

-----------------------------------------------------------------------------
(* The watched folder *)

Event == [kind : {"create", "modify", "other"}, path : Path]

\* The files that are on their way to the session.
Coming == taken \cup ToSet(channel) \cup {e.path : e \in {e \in ToSet(events) : e.kind # "other"}}

\* During the walk a complete file was seen or will be visited.
WatchInv ==
  /\ content \in [Path -> {"absent", "partial", "whole"}] /\ thread \in {"off", "walk", "watching", "ended"}
  /\ unvisited \subseteq Path /\ events \in Seq(Event) /\ channel \in Seq(Path)
  /\ thread # "watching" => events = <<>>
  /\ thread = "walk" /\ watchFaults = {} =>
       \A f \in Path : content[f] = "whole" => f \in unvisited \cup Coming
  /\ thread = "watching" /\ watchFaults = {} =>
       \A f \in Path : content[f] = "whole" => f \in Coming

\* Every step of the thread, the adder and the users keeps track of complete files.
LEMMA WatchStep ==
  ASSUME WatchInv, [WatchNext]_watchVars
  PROVE  WatchInv'
<1>1. CASE UNCHANGED watchVars
  BY <1>1 DEF WatchInv, watchVars, Coming
<1>2. CASE WatchFolder
  BY <1>2 DEF WatchFolder, WatchInv, Coming
<1>3. ASSUME NEW f \in Path, NEW to \in {"partial", "whole"}, WriteFile(f, to) PROVE WatchInv'
  <2>1. /\ content[f] # "whole" /\ content' = [content EXCEPT ![f] = to]
        /\ UNCHANGED <<thread, unvisited, channel, taken>> /\ watchFaults \subseteq watchFaults'
        /\ thread = "walk" /\ f \notin unvisited /\ to = "whole" => watchFaults' # {}
    BY <1>3 DEF WriteFile, Missed
  <2>2. content' \in [Path -> {"absent", "partial", "whole"}] /\ \A g \in Path \ {f} : content'[g] = content[g]
    BY <2>1 DEF WatchInv
  <2>3. CASE thread = "watching"
    <3>1. PICK e \in Event : e.kind # "other" /\ e.path = f /\ events' = Append(events, e)
      <4>1. PICK k \in {"create", "modify"} : events' = Append(events, [kind |-> k, path |-> f])
        BY <1>3, <2>3 DEF WriteFile
      <4> QED
        BY <4>1 DEF Event
    <3>2. events' \in Seq(Event) /\ ToSet(events') = ToSet(events) \cup {e}
      BY <3>1, Appended DEF WatchInv
    <3>3. f \in Coming' /\ Coming \subseteq Coming'
      BY <2>1, <3>1, <3>2 DEF Coming
    <3> QED
      BY <2>1, <2>2, <2>3, <3>2, <3>3 DEF WatchInv
  <2>4. CASE thread # "watching"
    <3>1. UNCHANGED events /\ Coming' = Coming
      BY <1>3, <2>1, <2>4 DEF WriteFile, Coming
    <3>2. ASSUME watchFaults' = {}, thread = "walk", NEW g \in Path, content'[g] = "whole"
          PROVE  g \in unvisited \cup Coming
      BY <2>1, <2>2, <3>2 DEF WatchInv
    <3> QED
      BY <2>1, <2>2, <2>4, <3>1, <3>2 DEF WatchInv
  <2> QED
    BY <2>3, <2>4
<1>4. ASSUME NEW f \in Path, OtherEvent(f) PROVE WatchInv'
  <2>1. /\ thread = "watching" /\ events' = Append(events, [kind |-> "other", path |-> f])
        /\ UNCHANGED <<content, thread, unvisited, channel, taken, watchFaults>>
    BY <1>4 DEF OtherEvent
  <2>2. [kind |-> "other", path |-> f] \in Event
    BY DEF Event
  <2>3. events' \in Seq(Event) /\ ToSet(events) \subseteq ToSet(events')
    BY <2>1, <2>2, Appended DEF WatchInv
  <2>4. Coming \subseteq Coming'
    BY <2>1, <2>3 DEF Coming
  <2> QED
    BY <2>1, <2>3, <2>4 DEF WatchInv
<1>5. ASSUME NEW f \in Path, NEW readable \in BOOLEAN, Visit(f, readable) PROVE WatchInv'
  <2>1. /\ thread = "walk" /\ unvisited' = unvisited \ {f}
        /\ UNCHANGED <<content, thread, events, taken>> /\ watchFaults \subseteq watchFaults'
        /\ channel' = channel \/ channel' = Append(channel, f)
        /\ content[f] = "whole" /\ watchFaults' = {} => channel' = Append(channel, f)
    BY <1>5 DEF Visit, Valid, Unread
  <2>2. channel' \in Seq(Path) /\ ToSet(channel) \subseteq ToSet(channel')
        /\ (content[f] = "whole" /\ watchFaults' = {} => f \in ToSet(channel'))
    <3>1. channel \in Seq(Path)
      BY DEF WatchInv
    <3>2. Append(channel, f) \in Seq(Path) /\ ToSet(Append(channel, f)) = ToSet(channel) \cup {f}
      BY <3>1, Appended
    <3> QED
      BY <2>1, <3>1, <3>2
  <2>3. Coming \subseteq Coming' /\ (content[f] = "whole" /\ watchFaults' = {} => f \in Coming')
    BY <2>1, <2>2 DEF Coming
  <2> QED
    BY <2>1, <2>2, <2>3 DEF WatchInv
<1>6. ASSUME NEW ok \in BOOLEAN, Watch(ok) PROVE WatchInv'
  BY <1>6 DEF Watch, WatchInv, Coming
<1>7. ASSUME NEW readable \in BOOLEAN, WatchCb(readable) PROVE WatchInv'
  <2> DEFINE e == Head(events)
  <2>1. /\ thread = "watching" /\ events # <<>> /\ events' = Tail(events)
        /\ UNCHANGED <<content, thread, unvisited, taken>> /\ watchFaults \subseteq watchFaults'
        /\ channel' = IF Relevant(e.kind) /\ Valid(e.path, readable) THEN Append(channel, e.path) ELSE channel
        /\ Relevant(e.kind) /\ content[e.path] = "whole" /\ watchFaults' = {} => readable
    BY <1>7 DEF WatchCb, Unread
  <2>2. e \in Event /\ events' \in Seq(Event) /\ ToSet(events) = ToSet(events') \cup {e}
    BY <2>1, TakenOut DEF WatchInv
  <2> HIDE DEF e
  <2>3. e.path \in Path /\ e.kind \in {"create", "modify", "other"}
    BY <2>2 DEF Event
  <2>4. /\ channel' \in Seq(Path) /\ ToSet(channel) \subseteq ToSet(channel')
        /\ e.kind # "other" /\ content[e.path] = "whole" /\ watchFaults' = {} => e.path \in ToSet(channel')
    BY <2>1, <2>3, Appended DEF WatchInv, Relevant, Valid
  <2>5. ASSUME NEW f \in Path, content[f] = "whole", f \in Coming, watchFaults' = {} PROVE f \in Coming'
    BY <2>1, <2>2, <2>4, <2>5 DEF Coming
  <2> QED
    BY <2>1, <2>2, <2>4, <2>5 DEF WatchInv
<1>8. CASE LoseEvents
  <2>1. /\ events' = <<>> /\ watchFaults' # {} /\ UNCHANGED <<content, thread, unvisited, channel, taken>>
    BY <1>8 DEF LoseEvents
  <2> QED
    BY <2>1, QueueHolds DEF WatchInv
<1>9. ASSUME NEW ok \in BOOLEAN, AddOne(ok) PROVE WatchInv'
  <2>1. /\ channel # <<>> /\ channel' = Tail(channel) /\ watchFaults \subseteq watchFaults'
        /\ watchFaults' = {} => taken' = taken \cup {Head(channel)}
        /\ UNCHANGED <<content, thread, unvisited, events>>
    BY <1>9 DEF AddOne
  <2>2. channel' \in Seq(Path) /\ ToSet(channel) = ToSet(channel') \cup {Head(channel)}
    BY <2>1, TakenOut DEF WatchInv
  <2>3. watchFaults' = {} => Coming \subseteq Coming'
    BY <2>1, <2>2 DEF Coming
  <2> QED
    BY <2>1, <2>2, <2>3 DEF WatchInv
<1>10. CASE StopWatching
  BY <1>10, QueueHolds DEF StopWatching, WatchInv
<1>11. ASSUME NEW fs \in SUBSET Path, BringDirectory(fs) PROVE WatchInv'
  <2>1. /\ content' = [f \in Path |-> IF f \in fs THEN "whole" ELSE content[f]]
        /\ UNCHANGED <<thread, unvisited, events, channel, taken>> /\ watchFaults \subseteq watchFaults'
        /\ thread = "watching" => watchFaults' # {}
        /\ thread = "walk" /\ watchFaults' = {} => fs \subseteq unvisited
    BY <1>11 DEF BringDirectory, Missed
  <2>2. content' \in [Path -> {"absent", "partial", "whole"}] /\ Coming' = Coming
    BY <2>1 DEF WatchInv, Coming
  <2>3. ASSUME thread = "walk", watchFaults' = {}, NEW f \in Path, content'[f] = "whole"
        PROVE  f \in unvisited \cup Coming
    BY <2>1, <2>3 DEF WatchInv
  <2> QED
    BY <2>1, <2>2, <2>3 DEF WatchInv
<1> QED
  BY <1>1, <1>2, <1>3, <1>4, <1>5, <1>6, <1>7, <1>8, <1>9, <1>10, <1>11 DEF WatchNext

\* Every complete file of the watched folder has been added or is on its way, however it
\* was written (watch.rs): the walk, the channel and the events never drop one.
\* The exceptions are those of WatchedFilesAdded.
THEOREM FilesAreNotOverlooked == WatchInit /\ [][WatchNext]_watchVars => []WatchedFilesAdded
<1>1. WatchInit => WatchInv
  BY QueueHolds DEF WatchInit, WatchInv
<1>2. WatchInv => WatchedFilesAdded
  BY DEF WatchInv, WatchedFilesAdded, Coming
<1> QED
  BY <1>1, <1>2, WatchStep, PTL

-----------------------------------------------------------------------------
(* The RSS monitor *)

\* The item being added was not added before and is stored, as is every item added,
\* unless a row was lost or could not be looked up.
FeedInv ==
  /\ stored \in Seq(Item) /\ adding \subseteq Item
  /\ monitor = "adding" <=> adding # {}
  /\ \A i, j \in adding : i = j
  /\ feedFaults \cap {"rowLost", "notLookedUp"} = {} =>
       adding \cup autoAdded \subseteq ToSet(stored) /\ adding \cap autoAdded = {}
  /\ FeedItemsHandled

\* Every request and every step of a round keeps the books.
LEMMA FeedStep ==
  ASSUME FeedInv, [FeedNext]_feedVars
  PROVE  FeedInv'
<1>1. ASSUME UNCHANGED <<stored, adding, autoAdded, due, repeated, feedFaults>>,
             (monitor' = "adding") <=> (monitor = "adding")
      PROVE  FeedInv'
  BY <1>1 DEF FeedInv, FeedItemsHandled
<1>2. CASE UNCHANGED feedVars
  BY <1>1, <1>2 DEF feedVars, history, position
<1>3. ASSUME NEW f \in Feed, NEW c, SetFeed(f, c) PROVE FeedInv'
  BY <1>1, <1>3 DEF SetFeed, history, position
<1>4. ASSUME NEW r \in Rule, NEW c, SetRule(r, c) PROVE FeedInv'
  BY <1>1, <1>4 DEF SetRule, history, position
<1>5. ASSUME NEW i \in Item, RequestDownload(i) \/ RequestEnds(i, TRUE) \/ RequestEnds(i, FALSE) PROVE FeedInv'
  BY <1>1, <1>5 DEF RequestDownload, RequestEnds, history, position
<1>6. CASE StartRound \/ EndFeed
  BY <1>1, <1>6 DEF StartRound, EndFeed, history
<1>7. ASSUME NEW f \in Feed, PassFeed(f) PROVE FeedInv'
  BY <1>1, <1>7 DEF PassFeed, history
<1>8. ASSUME NEW f \in Feed, NEW entries, NEW chosen, FetchFeed(f, entries, chosen) PROVE FeedInv'
  BY <1>1, <1>8 DEF FetchFeed, history
<1>9. ASSUME NEW i \in Item, NEW looked \in BOOLEAN, NEW insert \in BOOLEAN, CheckEntry(i, looked, insert)
      PROVE  FeedInv'
  <2>0. adding = {} /\ monitor = "entries" /\ UNCHANGED <<autoAdded, repeated>>
    BY <1>9 DEF CheckEntry, FeedInv
  <2>1. PICK old \in BOOLEAN, wanted \in BOOLEAN :
          /\ old <=> looked /\ i \in ToSet(stored)
          /\ stored' = IF old \/ ~insert \/ i \in ToSet(stored) THEN stored ELSE Append(stored, i)
          /\ adding' = IF wanted /\ ~old THEN {i} ELSE {}
          /\ monitor' = IF wanted /\ ~old THEN "adding" ELSE monitor
          /\ due' = IF wanted THEN due \cup {i} ELSE due
          /\ feedFaults' = feedFaults
               \cup (IF wanted /\ old /\ i \notin due THEN {"seen"} ELSE {})
               \cup (IF ~old /\ i \in ToSet(stored) THEN {"notLookedUp"} ELSE {})
               \cup (IF i \notin ToSet(stored) /\ ~insert THEN {"rowLost"} ELSE {})
    BY <1>9 DEF CheckEntry, RssItemExists, RssItemUpsert, ShouldDownload, HasTorrentUrl
  <2>2. stored' \in Seq(Item) /\ ToSet(stored) \subseteq ToSet(stored')
        /\ (~old /\ insert => i \in ToSet(stored'))
    BY <2>1, Appended DEF FeedInv
  <2>3. feedFaults' \cap {"rowLost", "notLookedUp"} = {} =>
          adding' \cup autoAdded \subseteq ToSet(stored') /\ adding' \cap autoAdded = {}
    BY <2>0, <2>1, <2>2 DEF FeedInv
  <2>4. FeedItemsHandled'
    BY <2>0, <2>1 DEF FeedInv, FeedItemsHandled
  <2> QED
    BY <2>0, <2>1, <2>2, <2>3, <2>4 DEF FeedInv
<1>10. ASSUME NEW ok \in BOOLEAN, AddTorrent(ok) PROVE FeedInv'
  <2>1. /\ monitor = "adding" /\ adding # {} /\ adding' = {} /\ monitor' = "entries" /\ UNCHANGED <<stored, due>>
        /\ autoAdded' = IF ok THEN autoAdded \cup adding ELSE autoAdded
        /\ feedFaults' = IF ok THEN feedFaults ELSE feedFaults \cup {"notAdded"}
        /\ repeated' => repeated \/ adding \subseteq autoAdded
    BY <1>10 DEF AddTorrent, FeedInv
  <2>2. repeated' => feedFaults' \cap {"rowLost", "notLookedUp"} # {}
    BY <2>1 DEF FeedInv, FeedItemsHandled
  <2>3. feedFaults' \cap {"notAdded", "seen"} = {} => due' \subseteq autoAdded' \cup adding'
    BY <2>1 DEF FeedInv, FeedItemsHandled
  <2> QED
    BY <2>1, <2>2, <2>3 DEF FeedInv, FeedItemsHandled
<1>11. CASE PruneItems
  <2>1. /\ monitor = "feeds" /\ stored' \in {Kept, stored} /\ monitor' = "sleep"
        /\ feedFaults' = IF stored' # stored THEN feedFaults \cup {"rowLost"} ELSE feedFaults
        /\ UNCHANGED <<adding, due, autoAdded, repeated>>
    BY <1>11 DEF PruneItems
  <2>2. Kept \in Seq(Item)
    <3> DEFINE m == IF Len(stored) > HistoryLimit THEN Len(stored) - HistoryLimit + 1 ELSE 1
    <3>1. Len(stored) \in Nat /\ HistoryLimit \in Nat
      BY FeedsAssumption DEF FeedInv
    <3>2. m \in Int /\ m >= 1
      BY <3>1
    <3>3. Kept = SubSeq(stored, m, Len(stored))
      BY DEF Kept
    <3> HIDE DEF m
    <3> QED
      BY <3>1, <3>2, <3>3, SubSeqProperties DEF FeedInv
  <2> QED
    BY <2>1, <2>2 DEF FeedInv, FeedItemsHandled
<1>12. CASE Restart
  BY <1>12 DEF Restart, FeedInv, FeedItemsHandled
<1> QED
  BY <1>2, <1>3, <1>4, <1>5, <1>6, <1>7, <1>8, <1>9, <1>10, <1>11, <1>12 DEF FeedNext

\* The monitor adds what the filter and the rules chose, and adds it once, whatever
\* requests change feeds, rules and items meanwhile (rss/monitor.rs check_feed): the row of
\* an item is what makes both true, and the exceptions are the ways to lose it.
THEOREM ChosenItemsAreAddedOnce == FeedInit /\ [][FeedNext]_feedVars => []FeedItemsHandled
<1>1. FeedInit => FeedInv
  BY QueueHolds DEF FeedInit, FeedInv, FeedItemsHandled
<1>2. FeedInv => FeedItemsHandled
  BY DEF FeedInv
<1> QED
  BY <1>1, <1>2, FeedStep, PTL

-----------------------------------------------------------------------------
(* The announcements of a connection *)

\* A piece is marked, counted, broadcast in this order; from the moment the bitfield is
\* decided, everything broadcast is told, queued, or claimed by the peer.
WireInv ==
  /\ wire \in Stages /\ haves \in Seq(sent)
  /\ theirs \subseteq claimed /\ sent \subseteq counted /\ counted \subseteq have /\ told \subseteq have
  /\ wire \in {"unchoke", "loop"} /\ upload /\ wireFaults = {} =>
       sent \subseteq told \cup ToSet(haves) \cup claimed

\* Steps that leave the broadcast and the peer's knowledge alone, or only add to it.
LEMMA WireFrame ==
  ASSUME WireInv, UNCHANGED <<upload, sent, haves, wireFaults>>, wire' \in Stages,
         counted \subseteq counted', counted' \subseteq have', have \subseteq have',
         told \subseteq told', told' \subseteq have', claimed \subseteq claimed', theirs' \subseteq claimed',
         wire' \in {"unchoke", "loop"} => wire \in {"unchoke", "loop"}
  PROVE  WireInv'
  BY DEF WireInv

\* Every step of the torrent, the writer and the reader keeps announcements exact.
LEMMA WireStep ==
  ASSUME WireInv, [WireNext]_wireVars
  PROVE  WireInv'
<1>0. <<>> \in Seq({}) /\ ToSet(<<>>) = {} /\ \A S : <<>> \in Seq(S)
  BY QueueHolds
<1>1. CASE UNCHANGED wireVars
  BY <1>1 DEF WireInv, wireVars, torrent, conn
<1>2. ASSUME NEW p \in Piece, MarkPiece(p) \/ CountPiece(p) PROVE WireInv'
  <2>1. UNCHANGED <<upload, sent, haves, wireFaults, wire, told, theirs, claimed>>
    BY <1>2 DEF MarkPiece, CountPiece, conn
  <2>2. counted \subseteq counted' /\ counted' \subseteq have' /\ have \subseteq have'
    BY <1>2 DEF MarkPiece, CountPiece, WireInv
  <2> QED
    BY <2>1, <2>2, WireFrame DEF WireInv
<1>3. ASSUME NEW p \in Piece, TransmitHaves(p) PROVE WireInv'
  <2>1. /\ p \in counted \ sent /\ sent' = sent \cup {p}
        /\ UNCHANGED <<wire, upload, have, counted, told, theirs, claimed>> /\ wireFaults \subseteq wireFaults'
        /\ haves' = IF ~Subscribed THEN haves ELSE Append(IF Len(haves) = HaveCapacity THEN Tail(haves) ELSE haves, p)
        /\ Subscribed /\ wireFaults' = {} => haves' = Append(haves, p)
    BY <1>3 DEF TransmitHaves, conn
  <2>2. haves \in Seq(sent')
    BY <2>1, SeqMonotonic DEF WireInv
  <2>3. haves' \in Seq(sent')
    <3>1. CASE haves = <<>>
      <4>1. Len(haves) # HaveCapacity
        BY <3>1, WireAssumption
      <4> QED
        BY <2>1, <2>2, <4>1, Appended
    <3>2. CASE haves # <<>>
      <4>1. Tail(haves) \in Seq(sent')
        BY <2>2, <3>2, TakenOut
      <4> QED
        BY <2>1, <2>2, <4>1, Appended
    <3> QED
      BY <3>1, <3>2
  <2>4. wire \in {"unchoke", "loop"} /\ wireFaults' = {} => ToSet(haves') = ToSet(haves) \cup {p}
    <3>1. wire \in {"unchoke", "loop"} => Subscribed
      BY DEF Subscribed
    <3>2. ToSet(Append(haves, p)) = ToSet(haves) \cup {p}
      BY <2>1, <2>2, Appended
    <3> QED
      BY <2>1, <3>1, <3>2
  <2> QED
    BY <2>1, <2>3, <2>4 DEF WireInv
<1>4. CASE Start
  BY <1>4 DEF Start, WireInv, torrent, conn, Stages
<1>5. ASSUME NEW incoming \in BOOLEAN, NEW extension \in BOOLEAN, Handshake(incoming, extension) PROVE WireInv'
  BY <1>5 DEF Handshake, WireInv, torrent, conn, Stages
<1>6. CASE SendExtendedHandshake
  BY <1>6 DEF SendExtendedHandshake, WireInv, torrent, conn, Stages
<1>7. CASE DecideBitfield
  BY <1>7 DEF DecideBitfield, WireInv, torrent, conn, Stages
<1>8. CASE SerializeBitfield
  BY <1>8 DEF SerializeBitfield, WireInv, torrent, Stages
<1>9. CASE SendUnchoke
  BY <1>9 DEF SendUnchoke, WireInv, torrent, conn, Stages
<1>10. CASE Close
  BY <1>0, <1>10 DEF Close, Closed, WireInv, torrent, Stages
<1>11. CASE PauseAndResume
  BY <1>0, <1>11 DEF PauseAndResume, Closed, WireInv, Stages
<1>12. CASE ReceiveHave
  <2> DEFINE p == Head(haves)
  <2>1. /\ wire = "loop" /\ haves # <<>> /\ haves' = Tail(haves)
        /\ UNCHANGED <<wire, upload, have, counted, sent, theirs, claimed>>
        /\ told' = IF upload /\ known /\ p \notin theirs THEN told \cup {p} ELSE told
        /\ wireFaults \subseteq wireFaults' /\ (upload /\ wireFaults' = {} => known)
    BY <1>12 DEF ReceiveHave, ShouldTransmit, torrent
  <2>2. p \in sent /\ haves' \in Seq(sent) /\ ToSet(haves) = ToSet(haves') \cup {p}
    BY <2>1, TakenOut DEF WireInv
  <2> HIDE DEF p
  <2> QED
    BY <2>1, <2>2 DEF WireInv
<1>13. ASSUME UNCHANGED <<wire, torrent, haves, told, wireFaults>>, claimed \subseteq claimed', theirs' \subseteq claimed' PROVE WireInv'
  BY <1>13, WireFrame DEF WireInv, torrent
<1>14. CASE SendRequest \/ Upload
  BY <1>13, <1>14 DEF SendRequest, Upload, WireInv
<1>15. ASSUME NEW b \in SUBSET Piece, OnBitfield(b) PROVE WireInv'
  BY <1>13, <1>15 DEF OnBitfield, WireInv
<1>16. ASSUME NEW p \in Piece, OnHave(p) \/ OnDownloadRequest(p) PROVE WireInv'
  BY <1>13, <1>16 DEF OnHave, OnDownloadRequest, WireInv
<1>17. ASSUME NEW i \in 0..MetadataPieces, OnMetadataRequest(i) PROVE WireInv'
  <2>1. CASE wire' = "panicked" /\ Closed
    BY <1>0, <1>17, <2>1 DEF OnMetadataRequest, Closed, WireInv, torrent, Stages
  <2>2. CASE UNCHANGED <<wire, haves, known, theirs, claimed, told, scheduled, wireFaults>>
    BY <1>13, <1>17, <2>2 DEF OnMetadataRequest, WireInv
  <2> QED
    BY <1>17, <2>1, <2>2 DEF OnMetadataRequest
<1>18. ASSUME NEW reply \in {"connect", "notConnected"}, OnRendezvous(reply) PROVE WireInv'
  BY <1>13, <1>18 DEF OnRendezvous, WireInv
<1> QED
  BY <1>1, <1>2, <1>3, <1>4, <1>5, <1>6, <1>7, <1>8, <1>9, <1>10, <1>11, <1>12, <1>14, <1>15, <1>16, <1>17, <1>18
     DEF WireNext, WriterStep, ReaderStep

\* A peer is told exactly the pieces the torrent has: none it does not have, and every one
\* it announced that the peer never claimed, in whichever order a piece is marked, counted and
\* broadcast while the writer decides on a bitfield and serializes it (manage_peer,
\* should_send_bitfield, serialize_bitfield_message_to_buf, should_transmit_have).
THEOREM PeersAreToldExactly == WireInit /\ [][WireNext]_wireVars => []AnnouncesAreExact
<1>1. WireInit => WireInv
  BY QueueHolds DEF WireInit, WireInv, Stages
<1>2. WireInv => AnnouncesAreExact
  BY DEF WireInv, AnnouncesAreExact
<1> QED
  BY <1>1, <1>2, WireStep, PTL

-----------------------------------------------------------------------------
(* Resolving a magnet link *)

\* From a peer that keeps to the protocol a reader receives the pieces in order.
InTurn(a) ==
  /\ Len(owed[a]) <= InfoPieces
  /\ got[a] = 1..(InfoPieces - Len(owed[a]))
  /\ \A i \in 1..Len(owed[a]) : owed[a][i] = InfoPieces - Len(owed[a]) + i

ReaderOk(a) ==
  /\ info[a] = "none" <=> a \notin seen
  /\ info[a] \in {"none", "waiting", "connecting", "failed"} => owed[a] = <<>>
  /\ info[a] = "failed" /\ a \in Honest => a \in lost \cup strays
  /\ info[a] = "reading" => InTurn(a) \/ a \in strays
  /\ info[a] = "ready" => a \in Honest /\ got[a] = AllPieces /\ (owed[a] = <<>> \/ a \in strays)
  /\ info[a] = "again" => a \in Honest /\ a \in strays

MagnetTypes ==
  /\ info \in [Address -> {"none", "waiting", "connecting", "reading", "ready", "again", "failed"}]
  /\ got \in [Address -> SUBSET AllPieces] /\ owed \in [Address -> Seq(AllPieces)]
  /\ seen \subseteq Address

MagnetInv == MagnetTypes /\ (\A a \in Address : ReaderOk(a)) /\ ResolvesUnlessLost

\* The steps of one reader leave the others alone.
LEMMA OneReader ==
  ASSUME MagnetInv, NEW a \in Address, resolve = "busy", resolve' = "busy",
         UNCHANGED <<sources, seen, ended>>, lost \subseteq lost', strays \subseteq strays',
         MagnetTypes', ReaderOk(a)',
         \A b \in Address \ {a} : info'[b] = info[b] /\ got'[b] = got[b] /\ owed'[b] = owed[b]
  PROVE  MagnetInv'
<1>1. ASSUME NEW b \in Address \ {a} PROVE ReaderOk(b)'
  <2>1. ReaderOk(b)
    BY DEF MagnetInv
  <2>3. InTurn(b) => InTurn(b)'
    BY DEF InTurn
  <2> QED
    BY <2>1, <2>3 DEF ReaderOk
<1>2. ResolvesUnlessLost'
  BY DEF ResolvesUnlessLost
<1> QED
  BY <1>1, <1>2 DEF MagnetInv

\* The handshake of a peer, the first one or another.
LEMMA HandshakeStep ==
  ASSUME MagnetInv, NEW a \in Address, OnExtendedHandshake(a)
  PROVE  MagnetInv'
<1> DEFINE n == InfoPieces
           q == owed[a]
           all == [i \in AllPieces |-> i]
<1>0. n \in Nat \ {0} /\ AllPieces = 1..n /\ q \in Seq(AllPieces) /\ Len(q) \in Nat
  BY MagnetAssumption DEF AllPieces, MagnetInv, MagnetTypes
<1>1. /\ resolve = "busy" /\ Connected(a) /\ UNCHANGED <<resolve, sources, seen, ended, lost>>
      /\ info' = [info EXCEPT ![a] = IF info[a] \in {"connecting", "reading"} THEN "reading" ELSE "again"]
      /\ got' = [got EXCEPT ![a] = {}]
      /\ owed' = [owed EXCEPT ![a] = q \o all]
      /\ strays \subseteq strays' /\ (info[a] # "connecting" => a \in strays')
  BY DEF OnExtendedHandshake
<1>2. all \in Seq(AllPieces) /\ Len(all) = n
  BY <1>0
<1>3. /\ q \o all \in Seq(AllPieces) /\ Len(q \o all) = Len(q) + n
      /\ \A i \in 1..Len(q) : (q \o all)[i] = q[i]
      /\ \A i \in 1..n : (q \o all)[Len(q) + i] = i
  <2> HIDE DEF n, q
  <2>1. \A i \in 1..n : all[i] = i
    BY <1>0
  <2> HIDE DEF all
  <2>2. q \o all \in Seq(AllPieces) /\ Len(q \o all) = Len(q) + n
    BY <1>0, <1>2, ConcatProperties
  <2>3. \A i \in 1..Len(q) : (q \o all)[i] = q[i]
    BY <1>0, <1>2, ConcatProperties
  <2>4. ASSUME NEW i \in 1..n PROVE (q \o all)[Len(q) + i] = i
    <3>1. Len(q) + i \in 1..(Len(q) + n) /\ ~(Len(q) + i <= Len(q)) /\ Len(q) + i - Len(q) = i
      BY <1>0
    <3>2. (q \o all)[Len(q) + i] = all[Len(q) + i - Len(q)]
      BY <1>0, <1>2, <3>1, ConcatProperties
    <3> QED
      BY <2>1, <3>1, <3>2
  <2> QED
    BY <2>2, <2>3, <2>4
<1> HIDE DEF n, q, all
<1>4. /\ info'[a] = IF info[a] \in {"connecting", "reading"} THEN "reading" ELSE "again"
      /\ got'[a] = {} /\ owed'[a] = q \o all /\ MagnetTypes'
      /\ \A b \in Address \ {a} : info'[b] = info[b] /\ got'[b] = got[b] /\ owed'[b] = owed[b]
  BY <1>1, <1>3 DEF MagnetInv, MagnetTypes
<1>5. /\ info[a] = "connecting" => q = <<>>
      /\ info[a] \in {"ready", "again"} => a \in Honest
      /\ a \in seen
  BY <1>1 DEF MagnetInv, ReaderOk, Connected, q
<1>8. InTurn(a)' \/ a \in strays'
  <2>1. SUFFICES ASSUME q = <<>> PROVE InTurn(a)'
    BY <1>1, <1>5
  <2>2. Len(q) = 0 /\ Len(owed'[a]) = n /\ \A i \in 1..n : owed'[a][i] = i
    BY <1>0, <1>3, <1>4, <2>1
  <2> QED
    BY <1>0, <1>4, <2>2 DEF InTurn, n
<1>9. ReaderOk(a)'
  BY <1>1, <1>4, <1>5, <1>8 DEF ReaderOk, Connected
<1> QED
  BY <1>1, <1>4, <1>9, OneReader

\* Recording a piece that the peer owed, or that it strayed to send.
LEMMA RecordStep ==
  ASSUME MagnetInv, NEW a \in Address, NEW p \in AllPieces, NEW rest \in Seq(AllPieces),
         resolve = "busy", HasBuffer(a), RecordPiece(a, p, rest), strays \subseteq strays',
         UNCHANGED <<resolve, sources, seen, ended, lost>>,
         \/ a \in strays'
         \/ /\ p \notin got[a] /\ (InTurn(a)' \/ got[a] \cup {p} = AllPieces)
            /\ got[a] \cup {p} = AllPieces => rest = <<>>
  PROVE  MagnetInv'
<1>t. MagnetTypes
  BY DEF MagnetInv
<1>1. ReaderOk(a) /\ a \in seen /\ got[a] \subseteq AllPieces /\ got[a] \cup {p} \subseteq AllPieces
  BY DEF MagnetInv, ReaderOk, MagnetTypes, HasBuffer
<1>2. CASE Fails(a) /\ ~(p \notin got[a] /\ (got[a] \cup {p} = AllPieces => a \in Honest /\ info[a] # "again"))
  <2>1. /\ info'[a] = "failed" /\ got'[a] = {} /\ owed'[a] = <<>> /\ MagnetTypes'
        /\ \A b \in Address \ {a} : info'[b] = info[b] /\ got'[b] = got[b] /\ owed'[b] = owed[b]
    BY <1>t, <1>2, QueueHolds DEF Fails, MagnetTypes
  <2>2. a \in Honest => a \in strays'
    <3>1. info[a] = "again" => a \in strays'
      BY <1>1 DEF ReaderOk
    <3> QED
      BY <1>2, <3>1
  <2>3. ReaderOk(a)'
    BY <1>1, <2>1, <2>2 DEF ReaderOk
  <2> QED
    BY <2>1, <2>3, OneReader
<1>3. CASE /\ p \notin got[a] /\ (got[a] \cup {p} = AllPieces => a \in Honest /\ info[a] # "again")
           /\ got' = [got EXCEPT ![a] = got[a] \cup {p}] /\ owed' = [owed EXCEPT ![a] = rest]
           /\ info' = [info EXCEPT ![a] = IF got[a] \cup {p} = AllPieces THEN "ready" ELSE info[a]]
  <2>1. /\ got'[a] = got[a] \cup {p} /\ owed'[a] = rest
        /\ info'[a] = IF got[a] \cup {p} = AllPieces THEN "ready" ELSE info[a]
        /\ \A b \in Address \ {a} : info'[b] = info[b] /\ got'[b] = got[b] /\ owed'[b] = owed[b]
    BY <1>t, <1>3 DEF MagnetTypes
  <2>2. MagnetTypes'
    BY <1>t, <1>1, <1>3 DEF MagnetTypes
  <2>3. ReaderOk(a)'
    BY <1>1, <1>3, <2>1 DEF ReaderOk, HasBuffer
  <2> QED
    BY <2>1, <2>2, <2>3, OneReader
<1> QED
  BY <1>2, <1>3 DEF RecordPiece

\* The answer to a request: a peer that keeps to the protocol sends the next piece.
LEMMA DataStep ==
  ASSUME MagnetInv, NEW a \in Address, HasBuffer(a), OnData(a)
  PROVE  MagnetInv'
<1> DEFINE n == InfoPieces
           q == owed[a]
           p == Head(q)
<1>0. n \in Nat \ {0} /\ AllPieces = 1..n /\ q \in Seq(AllPieces) /\ Len(q) \in Nat
  BY MagnetAssumption DEF AllPieces, MagnetInv, MagnetTypes
<1>1. /\ resolve = "busy" /\ q # <<>> /\ RecordPiece(a, p, Tail(q))
      /\ UNCHANGED <<resolve, sources, seen, ended, lost, strays>>
  BY DEF OnData
<1>2. /\ p = q[1] /\ p \in AllPieces /\ Tail(q) \in Seq(AllPieces) /\ Len(Tail(q)) = Len(q) - 1 /\ Len(q) >= 1
      /\ \A i \in 1..(Len(q) - 1) : Tail(q)[i] = q[i + 1]
  <2> HIDE DEF q
  <2>1. Tail(q) \in Seq(AllPieces) /\ Len(Tail(q)) = Len(q) - 1 /\ \A i \in 1..(Len(q) - 1) : Tail(q)[i] = q[i + 1]
    BY <1>0, <1>1, HeadTailProperties
  <2>2. p = q[1] /\ p \in AllPieces /\ Len(q) >= 1
    BY <1>0, <1>1
  <2> QED
    BY <2>1, <2>2
<1> HIDE DEF n, p
<1>a. n \in Int /\ Len(q) \in Int /\ n >= 1 /\ Len(q) >= 1 /\ Len(Tail(q)) = Len(q) - 1
  BY <1>0, <1>2
<1>3. ASSUME a \notin strays
      PROVE  /\ p \notin got[a] /\ (InTurn(a)' \/ got[a] \cup {p} = AllPieces)
             /\ got[a] \cup {p} = AllPieces => Tail(q) = <<>>
  <2>1. InTurn(a) /\ info[a] = "reading"
    BY <1>3 DEF MagnetInv, ReaderOk, HasBuffer
  <2>2. Len(q) <= n /\ got[a] = 1..(n - Len(q)) /\ \A i \in 1..Len(q) : q[i] = n - Len(q) + i
    BY <2>1 DEF InTurn, n
  <2>3. p = n - Len(q) + 1
    <3>1. 1 \in 1..Len(q)
      BY <1>a
    <3> QED
      BY <1>2, <2>2, <3>1
  <2>4. p \notin got[a] /\ got[a] \cup {p} = 1..(n - Len(Tail(q)))
    <3> DEFINE m == Len(q)
               k == Len(Tail(q))
    <3>0. m \in Int /\ k = m - 1 /\ m <= n
      BY <1>a, <2>2
    <3> HIDE DEF m, k
    <3>1. n - k = n - m + 1 /\ n - m \in Nat
      BY <1>a, <3>0
    <3>2. 1..(n - m + 1) = 1..(n - m) \cup {n - m + 1} /\ n - m + 1 \notin 1..(n - m)
      BY <3>1
    <3> QED
      BY <2>2, <2>3, <3>1, <3>2 DEF m, k
  <2>5. \A i \in 1..Len(Tail(q)) : Tail(q)[i] = n - Len(Tail(q)) + i
    <3> SUFFICES ASSUME NEW i \in 1..Len(Tail(q)) PROVE Tail(q)[i] = n - Len(Tail(q)) + i
      OBVIOUS
    <3> DEFINE m == Len(q)
               k == Len(Tail(q))
    <3>0. m \in Int /\ k = m - 1 /\ i \in 1..k
      BY <1>a
    <3> HIDE DEF m, k
    <3>1. i \in 1..(m - 1) /\ i + 1 \in 1..m /\ n - m + (i + 1) = n - k + i
      BY <1>a, <3>0
    <3> QED
      BY <1>2, <2>2, <3>1 DEF m, k
  <2>6. ASSUME got[a] \cup {p} # AllPieces PROVE InTurn(a)'
    <3>1. /\ got' = [got EXCEPT ![a] = got[a] \cup {p}] /\ owed' = [owed EXCEPT ![a] = Tail(q)]
      BY <1>1, <2>4, <2>6 DEF RecordPiece
    <3>2. got'[a] = got[a] \cup {p} /\ owed'[a] = Tail(q)
      BY <3>1 DEF MagnetInv, MagnetTypes
    <3>3. Len(Tail(q)) <= n
      BY <1>0, <1>2, <2>2
    <3> QED
      BY <2>4, <2>5, <3>2, <3>3 DEF InTurn, n
  <2>7. ASSUME got[a] \cup {p} = AllPieces PROVE Tail(q) = <<>>
    <3>1. n \in 1..(n - Len(Tail(q)))
      BY <1>0, <2>4, <2>7
    <3>2. Len(Tail(q)) = 0
      <4> DEFINE k == Len(Tail(q))
      <4>1. k \in Int /\ k >= 0 /\ n \in 1..(n - k)
        BY <1>a, <3>1
      <4> HIDE DEF k
      <4>2. k = 0
        BY <1>a, <4>1
      <4> QED
        BY <4>2 DEF k
    <3>3. Tail(q) \in Seq(AllPieces)
      BY <1>2
    <3> QED
      BY <3>2, <3>3, EmptySeq
  <2> QED
    BY <2>4, <2>6, <2>7
<1> QED
  BY <1>1, <1>2, <1>3, RecordStep

\* The other steps of the call and of its readers.
LEMMA MagnetStep ==
  ASSUME MagnetInv, [MagnetNext]_magnetVars
  PROVE  MagnetInv'
<1>t. MagnetTypes /\ \A b \in Address : ReaderOk(b)
  BY DEF MagnetInv
<1>f. ASSUME UNCHANGED <<seen, info, got, owed, lost, strays>>, ResolvesUnlessLost' PROVE MagnetInv'
  <2>1. MagnetTypes'
    BY <1>t, <1>f DEF MagnetTypes
  <2>2. ASSUME NEW b \in Address PROVE ReaderOk(b)'
    BY <1>t, <1>f DEF ReaderOk, InTurn
  <2> QED
    BY <1>f, <2>1, <2>2 DEF MagnetInv
<1>1. CASE UNCHANGED magnetVars
  <2>1. ResolvesUnlessLost'
    BY <1>1 DEF magnetVars, MagnetInv, ResolvesUnlessLost
  <2> QED
    BY <1>1, <1>f, <2>1 DEF magnetVars
<1>2. ASSUME NEW streams, ResolveMagnet(streams) PROVE MagnetInv'
  <2>1. /\ resolve' = "busy" /\ seen' = {} /\ info' = [b \in Address |-> "none"]
        /\ got' = [b \in Address |-> {}] /\ owed' = [b \in Address |-> <<>>]
    BY <1>2 DEF ResolveMagnet
  <2>2. MagnetTypes'
    BY <2>1, QueueHolds DEF MagnetTypes
  <2>3. ASSUME NEW b \in Address PROVE ReaderOk(b)'
    BY <2>1 DEF ReaderOk
  <2>4. ResolvesUnlessLost'
    BY <2>1 DEF ResolvesUnlessLost
  <2> QED
    BY <2>2, <2>3, <2>4 DEF MagnetInv
<1>3. CASE StreamEnds
  <2>1. ResolvesUnlessLost'
    BY <1>3 DEF StreamEnds, ResolvesUnlessLost
  <2> QED
    BY <1>3, <1>f, <2>1 DEF StreamEnds
<1>4. CASE ChannelClosed
  <2>1. /\ resolve' = "closed" /\ InFlight = {} /\ UNCHANGED <<seen, info, got, owed, lost, strays>>
    BY <1>4 DEF ChannelClosed, StreamExhausted
  <2>2. ASSUME NEW b \in seen \cap Honest PROVE b \in lost \cup strays
    <3>1. b \in Address /\ ReaderOk(b) /\ b \notin InFlight
      BY <1>t, <2>1 DEF MagnetTypes
    <3>2. info[b] \in {"none", "failed"}
      BY <3>1 DEF InFlight
    <3> QED
      BY <3>1, <3>2 DEF ReaderOk
  <2> QED
    BY <1>f, <2>1, <2>2 DEF ResolvesUnlessLost
<1>5. ASSUME NEW a \in Address, NextAddress(a) PROVE MagnetInv'
  <2>1. /\ resolve = "busy" /\ a \notin seen /\ seen' = seen \cup {a} /\ info' = [info EXCEPT ![a] = "waiting"]
        /\ UNCHANGED <<resolve, got, owed, lost, strays>>
    BY <1>5 DEF NextAddress
  <2>2. MagnetTypes' /\ info'[a] = "waiting" /\ \A b \in Address \ {a} : info'[b] = info[b]
    BY <1>t, <2>1 DEF MagnetTypes
  <2>3. ReaderOk(a)'
    <3>1. owed[a] = <<>>
      BY <1>t, <2>1 DEF ReaderOk
    <3> QED
      BY <3>1, <2>1, <2>2 DEF ReaderOk
  <2>4. ASSUME NEW b \in Address \ {a} PROVE ReaderOk(b)'
    <3>1. InTurn(b) => InTurn(b)'
      BY <2>1 DEF InTurn
    <3> QED
      BY <1>t, <2>1, <2>2, <3>1 DEF ReaderOk
  <2>5. ResolvesUnlessLost'
    BY <2>1 DEF ResolvesUnlessLost
  <2> QED
    BY <2>2, <2>3, <2>4, <2>5 DEF MagnetInv
<1>6. ASSUME NEW a \in Address, AcquirePermit(a) PROVE MagnetInv'
  <2>1. /\ resolve = "busy" /\ info[a] = "waiting" /\ info' = [info EXCEPT ![a] = "connecting"]
        /\ UNCHANGED <<resolve, sources, seen, ended, got, owed, lost, strays>>
    BY <1>6 DEF AcquirePermit
  <2>2. MagnetTypes' /\ info'[a] = "connecting" /\ \A b \in Address \ {a} : info'[b] = info[b]
    BY <1>t, <2>1 DEF MagnetTypes
  <2>3. ReaderOk(a)'
    BY <1>t, <2>1, <2>2 DEF ReaderOk
  <2> QED
    BY <2>1, <2>2, <2>3, OneReader
<1>7. ASSUME NEW a \in Address, ReaderFails(a) PROVE MagnetInv'
  <2>1. /\ resolve = "busy" /\ Connected(a) /\ Fails(a) /\ lost' = lost \cup {a}
        /\ UNCHANGED <<resolve, sources, seen, ended, strays>>
    BY <1>7 DEF ReaderFails
  <2>2. /\ info'[a] = "failed" /\ got'[a] = {} /\ owed'[a] = <<>> /\ MagnetTypes'
        /\ \A b \in Address \ {a} : info'[b] = info[b] /\ got'[b] = got[b] /\ owed'[b] = owed[b]
    BY <1>t, <2>1, QueueHolds DEF Fails, MagnetTypes
  <2>3. ReaderOk(a)'
    BY <1>t, <2>1, <2>2 DEF ReaderOk, Connected
  <2> QED
    BY <2>1, <2>2, <2>3, OneReader
<1>8. ASSUME NEW a \in Address, Found(a) PROVE MagnetInv'
  <2>1. /\ resolve' = "found" /\ info[a] \in {"ready", "again"} /\ UNCHANGED <<seen, info, got, owed, lost, strays>>
    BY <1>8 DEF Found
  <2>2. a \in seen \cap Honest /\ (got[a] = AllPieces \/ (info[a] = "again" /\ a \in strays))
    BY <1>t, <2>1 DEF ReaderOk
  <2>3. ResolvesUnlessLost'
    BY <2>1, <2>2 DEF ResolvesUnlessLost, AllPieces
  <2> QED
    BY <1>f, <2>1, <2>3
<1>9. ASSUME NEW a \in Address, ~HasBuffer(a), OnData(a) PROVE MagnetInv'
  <2>1. /\ resolve' = "panicked" /\ Connected(a) /\ owed[a] # <<>>
        /\ UNCHANGED <<seen, info, got, owed, lost, strays>>
    BY <1>9 DEF OnData
  <2>2. a \in strays
    BY <1>t, <1>9, <2>1 DEF ReaderOk, Connected, HasBuffer
  <2> QED
    BY <1>f, <2>1, <2>2 DEF ResolvesUnlessLost
<1>10. ASSUME NEW a \in Address, NEW p \in AllPieces, OnStrayData(a, p) PROVE MagnetInv'
  <2>1. /\ resolve = "busy" /\ Connected(a) /\ strays' = strays \cup {a}
        /\ UNCHANGED <<sources, seen, ended, lost>>
    BY <1>10 DEF OnStrayData
  <2>2. CASE HasBuffer(a)
    <3>1. RecordPiece(a, p, owed[a]) /\ UNCHANGED resolve /\ owed[a] \in Seq(AllPieces)
      BY <1>t, <1>10, <2>2 DEF OnStrayData, MagnetTypes
    <3> QED
      BY <2>1, <2>2, <3>1, RecordStep
  <2>3. CASE ~HasBuffer(a)
    <3>1. resolve' = "panicked" /\ UNCHANGED <<info, got, owed>>
      BY <1>10, <2>3 DEF OnStrayData
    <3>2. MagnetTypes' /\ ResolvesUnlessLost'
      BY <1>t, <2>1, <3>1 DEF MagnetTypes, ResolvesUnlessLost
    <3>3. ASSUME NEW b \in Address PROVE ReaderOk(b)'
      <4>1. InTurn(b) => InTurn(b)'
        BY <3>1 DEF InTurn
      <4> QED
        BY <1>t, <2>1, <3>1, <4>1 DEF ReaderOk
    <3> QED
      BY <3>2, <3>3 DEF MagnetInv
  <2> QED
    BY <2>2, <2>3
<1> QED
  BY <1>1, <1>2, <1>3, <1>4, <1>5, <1>6, <1>7, <1>8, <1>9, <1>10, HandshakeStep, DataStep DEF MagnetNext

\* Resolving a magnet link fails only after every peer that could have answered lost its
\* connection, succeeds only with metadata that is complete, and never panics, for any
\* number of peers and pieces of metadata, as far as peers keep to the protocol: each is
\* asked for the pieces in order and never sent for one it has (record_piece of
\* peer_info_reader, read_metainfo_from_peer_receiver). What peers may do that stray from
\* it is part of the model and of the statement.
THEOREM MagnetsResolve == MagnetInit /\ [][MagnetNext]_magnetVars => []ResolvesUnlessLost
<1>1. MagnetInit => MagnetInv
  <2> SUFFICES ASSUME MagnetInit PROVE MagnetInv
    OBVIOUS
  <2>1. MagnetTypes
    BY QueueHolds DEF MagnetInit, MagnetTypes
  <2>2. \A a \in Address : ReaderOk(a)
    BY DEF MagnetInit, ReaderOk
  <2> QED
    BY <2>1, <2>2 DEF MagnetInv, MagnetInit, ResolvesUnlessLost
<1>2. MagnetInv => ResolvesUnlessLost
  BY DEF MagnetInv
<1> QED
  BY <1>1, <1>2, MagnetStep, PTL

-----------------------------------------------------------------------------
(* The categories *)

CategoryMap == [Category -> SavePath \cup {NoPath}]
BeforeStore == {"idle", "create", "edit", "remove"}

CategoryTypes ==
  /\ categories \in CategoryMap
  /\ caller \in [Caller -> BeforeStore \cup {"snapshot", "open", "write", "rename"}]
  /\ name \in [Caller -> Category \cup {NoPath}]
  /\ path \in [Caller -> SavePath \cup {NoPath}]
  /\ copy \in [Caller -> CategoryMap]
  /\ handle \in [Caller -> Inode \cup {NoInode}]
  /\ data \in [Inode -> CategoryMap \cup {Torn}] /\ late \in [Inode -> SUBSET CategoryMap]
  /\ file \in Inode \cup {NoInode} /\ tmp \in Inode \cup {NoInode}
  /\ \A r \in Caller :
       /\ caller[r] \in {"create", "edit", "remove"} => name[r] \in Category
       /\ caller[r] = "write" => handle[r] \in Inode

\* The inode holds the categories, or is empty and they are about to be written to it.
Holds(i) == (late[i] = {} /\ data[i] = categories) \/ (late[i] = {categories} /\ data[i] = Torn)

Stored ==
  \/ LoadCategories(data) = categories /\ (file \in Inode => late[file] = {})
  \/ file \in Inode /\ late[file] = {categories} /\ data[file] = Torn

\* What a request that is alone knows of the disk, at every step of its store.
StoreInOrder ==
  /\ \A q, r \in Caller : caller[q] # "idle" /\ caller[r] # "idle" => q = r
  /\ (\A r \in Caller : caller[r] \in BeforeStore) => Stored
  /\ \A r \in Caller :
       /\ caller[r] \in {"open", "write"} => copy[r] = categories
       /\ caller[r] = "write" => handle[r] = tmp /\ data[tmp] = Torn
       /\ caller[r] = "rename" => tmp \in Inode /\ Holds(tmp)
  /\ tmp \in Inode /\ (\A r \in Caller : caller[r] # "rename") => late[tmp] = {}

CategoryInv == CategoryTypes /\ (categoryFaults = {} => StoreInOrder)

\* A file that was torn is told from every map of categories but the empty one, which
\* is what a torn file is read as.
LEMMA TornIsEmpty ==
  ASSUME NEW m \in CategoryMap, m = Torn
  PROVE  m = NoCategories
<1>1. CASE Category = {}
  BY <1>1 DEF CategoryMap, NoCategories
<1>2. ASSUME NEW c \in Category PROVE FALSE
  <2>1. m[c] \in SavePath \cup {NoPath} /\ m[c] = "torn"
    BY <1>2 DEF CategoryMap, Torn
  <2> QED
    BY <2>1, CategoriesAssumption DEF NoPath
<1> QED
  BY <1>1, <1>2

\* What is on disk is a map or torn, whichever inodes are still there.
LEMMA StillThereType ==
  ASSUME NEW contents \in [Inode -> CategoryMap \cup {Torn}]
  PROVE  /\ StillThere(contents) \in [Inode -> CategoryMap \cup {Torn}]
         /\ \A i \in Inode : i \in {file', tmp'} => StillThere(contents)[i] = contents[i]
<1>1. NoCategories \in CategoryMap
  BY DEF NoCategories, CategoryMap
<1> QED
  BY <1>1 DEF StillThere, InUse

\* Loading returns a map, and it is what the file holds unless that is torn.
LEMMA Loading ==
  ASSUME NEW contents \in [Inode -> CategoryMap \cup {Torn}], file \in Inode \cup {NoInode}
  PROVE  /\ LoadCategories(contents) \in CategoryMap
         /\ \A m \in CategoryMap : file \in Inode /\ contents[file] = m => LoadCategories(contents) = m
<1>1. NoCategories \in CategoryMap
  BY DEF NoCategories, CategoryMap
<1>2. LoadCategories(contents) \in CategoryMap
  BY <1>1 DEF LoadCategories
<1>3. ASSUME NEW m \in CategoryMap, file \in Inode, contents[file] = m PROVE LoadCategories(contents) = m
  BY <1>3, TornIsEmpty, CategoriesAssumption DEF LoadCategories
<1> QED
  BY <1>2, <1>3

\* A session without categories and without a file.
LEMMA CategoryStart == CategoryInit => CategoryInv
<1> SUFFICES ASSUME CategoryInit PROVE CategoryInv
  OBVIOUS
<1>1. NoCategories \in CategoryMap
  BY DEF NoCategories, CategoryMap
<1>2. CategoryTypes
  BY <1>1 DEF CategoryInit, CategoryTypes, BeforeStore
<1>3. StoreInOrder
  BY <1>1, CategoriesAssumption DEF CategoryInit, StoreInOrder, Stored, LoadCategories
<1> QED
  BY <1>2, <1>3 DEF CategoryInv

\* Requests that are admitted, refused or applied, and their snapshots.
LEMMA RequestSteps ==
  ASSUME CategoryInv, NEW r \in Caller,
         \/ \E c \in Category, p \in SavePath \cup {NoPath} : Request(r, c, p)
         \/ Apply(r) \/ Refused(r) \/ TakeSnapshot(r)
  PROVE  CategoryInv'
<1> USE DEF GoOn
<1>0. CategoryTypes /\ NoCategories \in CategoryMap
  BY DEF CategoryInv, NoCategories, CategoryMap
<1>1. ASSUME NEW c \in Category, NEW p \in SavePath \cup {NoPath}, Request(r, c, p) PROVE CategoryInv'
  <2>1. CategoryTypes'
    BY <1>0, <1>1 DEF Request, CategoryTypes, BeforeStore, disk
  <2>2. ASSUME categoryFaults' = {} PROVE StoreInOrder'
    <3>1. categoryFaults = {} /\ \A q \in Caller : caller[q] = "idle"
      BY <1>1, <2>2 DEF Request
    <3>2. StoreInOrder
      BY <3>1 DEF CategoryInv
    <3>3. Stored /\ (tmp \in Inode => late[tmp] = {})
      BY <3>1, <3>2 DEF StoreInOrder, BeforeStore
    <3>4. Stored' /\ (tmp' \in Inode => late'[tmp'] = {})
      BY <1>1, <3>3 DEF Request, Stored, LoadCategories, disk
    <3>5. \A q \in Caller : caller'[q] \in BeforeStore /\ (q # r => caller'[q] = "idle")
      BY <1>0, <1>1, <3>1 DEF Request, CategoryTypes, BeforeStore
    <3> QED
      BY <3>4, <3>5 DEF StoreInOrder, BeforeStore
  <2> QED
    BY <2>1, <2>2 DEF CategoryInv
<1>2. CASE Apply(r)
  <2>1. name[r] \in Category /\ path[r] \in SavePath \cup {NoPath}
    BY <1>0, <1>2 DEF Apply, CategoryTypes
  <2>2. categories' \in CategoryMap
    BY <1>0, <1>2, <2>1 DEF Apply, CategoryTypes, CategoryMap
  <2>3. CategoryTypes'
    BY <1>0, <1>2, <2>2 DEF Apply, CategoryTypes, BeforeStore, disk
  <2>4. ASSUME categoryFaults' = {} PROVE StoreInOrder'
    <3>1. StoreInOrder
      BY <1>2, <2>4 DEF CategoryInv, Apply
    <3>2. \A q \in Caller : q # r => caller'[q] = "idle"
      BY <1>0, <1>2, <3>1 DEF Apply, CategoryTypes, StoreInOrder
    <3>3. caller'[r] = "snapshot" /\ caller[r] # "rename" /\ UNCHANGED <<tmp, late>>
      BY <1>0, <1>2 DEF Apply, CategoryTypes, disk
    <3>4. tmp \in Inode => late[tmp] = {}
      BY <1>2, <3>1, <3>3 DEF StoreInOrder, Apply
    <3> QED
      BY <3>2, <3>3, <3>4 DEF StoreInOrder, BeforeStore
  <2> QED
    BY <2>3, <2>4 DEF CategoryInv
<1>3. CASE Refused(r)
  <2>1. CategoryTypes'
    BY <1>0, <1>3 DEF Refused, Answer, CategoryTypes, BeforeStore, disk
  <2>2. ASSUME categoryFaults' = {} PROVE StoreInOrder'
    <3>1. StoreInOrder
      BY <1>3, <2>2 DEF CategoryInv, Refused
    <3>2. \A q \in Caller : caller'[q] = "idle" /\ caller[q] \in BeforeStore
      BY <1>0, <1>3, <3>1 DEF Refused, Answer, CategoryTypes, StoreInOrder, BeforeStore
    <3>3. Stored /\ (tmp \in Inode => late[tmp] = {})
      BY <3>1, <3>2 DEF StoreInOrder, BeforeStore
    <3>4. Stored' /\ (tmp' \in Inode => late'[tmp'] = {})
      BY <1>3, <3>3 DEF Refused, Stored, LoadCategories, disk
    <3> QED
      BY <3>2, <3>4 DEF StoreInOrder
  <2> QED
    BY <2>1, <2>2 DEF CategoryInv
<1>4. CASE TakeSnapshot(r)
  <2>1. CategoryTypes'
    BY <1>0, <1>4 DEF TakeSnapshot, CategoryTypes, BeforeStore, disk
  <2>2. ASSUME categoryFaults' = {} PROVE StoreInOrder'
    <3>1. StoreInOrder
      BY <1>4, <2>2 DEF CategoryInv, TakeSnapshot
    <3>2. \A q \in Caller : q # r => caller'[q] = "idle"
      BY <1>0, <1>4, <3>1 DEF TakeSnapshot, CategoryTypes, StoreInOrder
    <3>3. caller'[r] = "open" /\ copy'[r] = categories' /\ UNCHANGED <<tmp, late>>
      BY <1>0, <1>4 DEF TakeSnapshot, CategoryTypes, disk
    <3>4. tmp \in Inode => late[tmp] = {}
      BY <1>4, <3>1 DEF StoreInOrder, TakeSnapshot
    <3> QED
      BY <3>2, <3>3, <3>4 DEF StoreInOrder, BeforeStore
  <2> QED
    BY <2>1, <2>2 DEF CategoryInv
<1> QED
  BY <1>1, <1>2, <1>3, <1>4

\* The store of a snapshot, step by step, and its failure.
LEMMA StoreSteps ==
  ASSUME CategoryInv, NEW r \in Caller, OpenTmp(r) \/ WriteTmp(r) \/ RenameTmp(r) \/ StoreFails(r)
  PROVE  CategoryInv'
<1> USE DEF GoOn
<1>0. CategoryTypes /\ NoCategories \in CategoryMap
  BY DEF CategoryInv, NoCategories, CategoryMap
<1>1. CASE OpenTmp(r)
  <2>1. PICK i \in Inode : /\ tmp' = i /\ handle' = [handle EXCEPT ![r] = i] /\ data' = [data EXCEPT ![i] = Torn]
                           /\ i = tmp \/ i \notin InUse
    <3>1. CASE tmp # NoInode
      BY <1>0, <1>1, <3>1 DEF OpenTmp, CategoryTypes
    <3>2. CASE tmp = NoInode
      <4> DEFINE free == CHOOSE k \in Inode : k \notin InUse
      <4>1. \E k \in Inode : k \notin InUse
        BY <1>1, <3>2 DEF OpenTmp
      <4>2. free \in Inode /\ free \notin InUse
        BY <4>1
      <4>3. tmp' = free /\ handle' = [handle EXCEPT ![r] = free] /\ data' = [data EXCEPT ![free] = Torn]
        BY <1>1, <3>2, Zenon DEF OpenTmp
      <4> HIDE DEF free
      <4> QED
        BY <4>2, <4>3
    <3> QED
      BY <3>1, <3>2
  <2>2. i \in Inode
    OBVIOUS
  <2>3. CategoryTypes'
    <3>1. caller' = [caller EXCEPT ![r] = "write"] /\ UNCHANGED <<categories, name, path, copy, late, file>>
      BY <1>1 DEF OpenTmp
    <3>2. \A q \in Caller : q # r => caller'[q] = caller[q] /\ handle'[q] = handle[q] /\ name'[q] = name[q]
      BY <1>0, <2>1, <3>1 DEF CategoryTypes
    <3>3. caller'[r] = "write" /\ handle'[r] \in Inode
      BY <1>0, <2>1, <2>2, <3>1 DEF CategoryTypes
    <3>4. data' \in [Inode -> CategoryMap \cup {Torn}]
      BY <1>0, <2>1 DEF CategoryTypes
    <3>5. /\ handle' \in [Caller -> Inode \cup {NoInode}] /\ tmp' \in Inode
          /\ caller' \in [Caller -> BeforeStore \cup {"snapshot", "open", "write", "rename"}]
      BY <1>0, <2>1, <2>2, <3>1 DEF CategoryTypes
    <3> QED
      BY <1>0, <3>1, <3>2, <3>3, <3>4, <3>5 DEF CategoryTypes
  <2>4. ASSUME categoryFaults' = {} PROVE StoreInOrder'
    <3>1. StoreInOrder
      BY <1>1, <2>4 DEF CategoryInv, OpenTmp
    <3>2. \A q \in Caller : q # r => caller'[q] = "idle" /\ caller[q] = "idle"
      BY <1>0, <1>1, <3>1 DEF OpenTmp, CategoryTypes, StoreInOrder
    <3>3. caller[r] = "open" /\ caller'[r] = "write" /\ copy'[r] = categories'
      BY <1>0, <1>1, <3>1 DEF OpenTmp, CategoryTypes, StoreInOrder
    <3>4. handle'[r] = tmp' /\ data'[tmp'] = Torn
      BY <1>0, <2>1, <2>2 DEF CategoryTypes
    <3>5. late[i] = {} /\ late' = late
      <4>1. CASE i = tmp
        BY <1>1, <3>1, <3>2, <3>3, <4>1 DEF StoreInOrder, OpenTmp
      <4>2. CASE i \notin InUse
        BY <1>1, <4>2 DEF InUse, OpenTmp
      <4> QED
        BY <2>1, <4>1, <4>2
    <3> QED
      BY <2>1, <3>2, <3>3, <3>4, <3>5 DEF StoreInOrder, BeforeStore
  <2> QED
    BY <2>3, <2>4 DEF CategoryInv
<1>2. CASE WriteTmp(r)
  <2>1. /\ caller[r] = "write" /\ caller' = [caller EXCEPT ![r] = "rename"]
        /\ late' = [late EXCEPT ![handle[r]] = late[handle[r]] \cup {copy[r]}]
        /\ copy' = [copy EXCEPT ![r] = NoCategories] /\ handle' = [handle EXCEPT ![r] = NoInode]
        /\ UNCHANGED <<categories, name, path, data, file, tmp, categoryFaults>>
    BY <1>2 DEF WriteTmp
  <2>2. handle[r] \in Inode /\ copy[r] \in CategoryMap
    BY <1>0, <2>1 DEF CategoryTypes
  <2>3. CategoryTypes'
    <3>1. late' \in [Inode -> SUBSET CategoryMap] /\ copy' \in [Caller -> CategoryMap]
      BY <1>0, <2>1, <2>2 DEF CategoryTypes
    <3>2. /\ handle' \in [Caller -> Inode \cup {NoInode}]
          /\ caller' \in [Caller -> BeforeStore \cup {"snapshot", "open", "write", "rename"}]
          /\ caller'[r] = "rename" /\ \A q \in Caller : q # r => caller'[q] = caller[q] /\ handle'[q] = handle[q]
      BY <1>0, <2>1 DEF CategoryTypes
    <3> QED
      BY <1>0, <2>1, <3>1, <3>2 DEF CategoryTypes
  <2>4. ASSUME categoryFaults' = {} PROVE StoreInOrder'
    <3>1. StoreInOrder
      BY <2>1, <2>4 DEF CategoryInv
    <3>2. \A q \in Caller : q # r => caller'[q] = "idle" /\ caller[q] = "idle"
      BY <1>0, <2>1, <3>1 DEF CategoryTypes, StoreInOrder
    <3>3. caller'[r] = "rename"
      BY <1>0, <2>1 DEF CategoryTypes
    <3>4. handle[r] = tmp /\ data[tmp] = Torn /\ copy[r] = categories
      BY <2>1, <3>1 DEF StoreInOrder
    <3>5. late[tmp] = {}
      BY <2>1, <2>2, <3>1, <3>2, <3>4 DEF StoreInOrder
    <3>6. tmp' \in Inode /\ data'[tmp'] = Torn /\ late'[tmp'] = {categories'}
      BY <1>0, <2>1, <2>2, <3>4, <3>5 DEF CategoryTypes
    <3> QED
      BY <3>2, <3>3, <3>6 DEF StoreInOrder, BeforeStore, Holds
  <2> QED
    BY <2>3, <2>4 DEF CategoryInv
<1>3. CASE RenameTmp(r)
  <2>0. data \in [Inode -> CategoryMap \cup {Torn}] /\ data' = StillThere(data) /\ late' = late
    BY <1>0, <1>3 DEF RenameTmp, CategoryTypes
  <2>1. /\ data' \in [Inode -> CategoryMap \cup {Torn}]
        /\ \A i \in Inode : i \in {file', tmp'} => data'[i] = data[i]
    BY <2>0, StillThereType
  <2>2. CategoryTypes'
    BY <1>0, <1>3, <2>1 DEF RenameTmp, Answer, CategoryTypes, BeforeStore
  <2>3. ASSUME categoryFaults' = {} PROVE StoreInOrder'
    <3>1. StoreInOrder
      BY <1>3, <2>3 DEF CategoryInv, RenameTmp
    <3>2. \A q \in Caller : caller'[q] = "idle"
      BY <1>0, <1>3, <3>1 DEF RenameTmp, Answer, CategoryTypes, StoreInOrder
    <3>3. tmp \in Inode /\ Holds(tmp)
      BY <1>3, <3>1 DEF RenameTmp, StoreInOrder
    <3>4. file' = tmp /\ tmp' \notin Inode /\ categories' = categories
      BY <1>3, <3>3, CategoriesAssumption DEF RenameTmp
    <3>5. data'[file'] = data[tmp] /\ late'[file'] = late[tmp] /\ file' \in Inode
      BY <2>0, <2>1, <3>3, <3>4
    <3>6. categories' \in CategoryMap
      BY <2>2 DEF CategoryTypes
    <3>7. Stored'
      <4>1. CASE late[tmp] = {} /\ data[tmp] = categories
        <5>1. LoadCategories(data)' = categories'
          BY <3>4, <3>5, <3>6, <4>1, TornIsEmpty, CategoriesAssumption DEF LoadCategories
        <5> QED
          BY <3>5, <4>1, <5>1 DEF Stored
      <4>2. CASE late[tmp] = {categories} /\ data[tmp] = Torn
        BY <3>4, <3>5, <4>2 DEF Stored
      <4> QED
        BY <3>3, <4>1, <4>2 DEF Holds
    <3> QED
      BY <3>2, <3>4, <3>7 DEF StoreInOrder
  <2> QED
    BY <2>2, <2>3 DEF CategoryInv
<1>4. CASE StoreFails(r)
  <2>1. data' \in [Inode -> CategoryMap \cup {Torn}]
    BY <1>0, <1>4, StillThereType DEF StoreFails, CategoryTypes
  <2>2. CategoryTypes'
    BY <1>0, <1>4, <2>1 DEF StoreFails, Answer, CategoryTypes, BeforeStore
  <2>3. categoryFaults' # {}
    BY <1>4 DEF StoreFails
  <2> QED
    BY <2>2, <2>3 DEF CategoryInv
<1> QED
  BY <1>1, <1>2, <1>3, <1>4

\* The bytes of an answered or unanswered request reach the file, or are lost.
LEMMA ArrivalStep ==
  ASSUME CategoryInv, NEW i \in Inode, NEW bytes \in late[i], NEW ok \in BOOLEAN, WriteArrives(i, bytes, ok)
  PROVE  CategoryInv'
<1>0. CategoryTypes /\ bytes \in CategoryMap
  BY DEF CategoryInv, CategoryTypes
<1>1. /\ late' = [late EXCEPT ![i] = late[i] \ {bytes}]
      /\ UNCHANGED <<categories, caller, name, path, copy, handle, file, tmp>>
      /\ ok => categoryFaults' = categoryFaults
      /\ ~ok => categoryFaults' # {}
  BY DEF WriteArrives, calls
<1>2. PICK there \in IF ok THEN {bytes} \cup ({Torn} \ {data[i]}) ELSE {data[i], Torn} :
        data' = StillThere([data EXCEPT ![i] = there])
  BY DEF WriteArrives
<1>3. PICK contents : contents = [data EXCEPT ![i] = there]
  OBVIOUS
<1>4. contents \in [Inode -> CategoryMap \cup {Torn}] /\ contents[i] = there /\ \A k \in Inode : k # i => contents[k] = data[k]
  BY <1>0, <1>3 DEF CategoryTypes
<1>5. /\ data' \in [Inode -> CategoryMap \cup {Torn}]
      /\ \A k \in Inode : k \in {file', tmp'} => data'[k] = contents[k]
  BY <1>2, <1>3, <1>4, StillThereType
<1>6. /\ late' \in [Inode -> SUBSET CategoryMap] /\ late'[i] = late[i] \ {bytes}
      /\ \A k \in Inode : k # i => late'[k] = late[k]
  BY <1>0, <1>1 DEF CategoryTypes
<1>7. CategoryTypes'
  BY <1>0, <1>1, <1>5, <1>6 DEF CategoryTypes
<1>8. ASSUME categoryFaults' = {} PROVE StoreInOrder'
  <2>1. ok /\ StoreInOrder
    BY <1>1, <1>8 DEF CategoryInv
  <2>2. ASSUME NEW k \in Inode, k \in {file, tmp}, late[k] = {categories}, data[k] = Torn
        PROVE  IF k = i THEN late'[k] = {} /\ data'[k] = categories' ELSE late'[k] = late[k] /\ data'[k] = data[k]
    <3>1. CASE k = i
      <4>1. bytes = categories /\ there = bytes
        BY <1>2, <2>1, <2>2, <3>1
      <4> QED
        BY <1>1, <1>4, <1>5, <1>6, <2>2, <3>1, <4>1
    <3>2. CASE k # i
      BY <1>1, <1>4, <1>5, <1>6, <2>2, <3>2
    <3> QED
      BY <3>1, <3>2
  <2>3. ASSUME NEW k \in Inode, k \in {file, tmp}, late[k] = {} PROVE late'[k] = {} /\ data'[k] = data[k]
    <3>1. k # i
      BY <2>3
    <3> QED
      BY <1>1, <1>4, <1>5, <1>6, <2>3, <3>1
  <2>4. ASSUME NEW k \in Inode, k \in {file, tmp}, Holds(k) PROVE Holds(k)'
    BY <1>1, <2>2, <2>3, <2>4 DEF Holds
  <2>5. ASSUME Stored PROVE Stored'
    <3>1. CASE LoadCategories(data) = categories /\ (file \in Inode => late[file] = {})
      <4>1. file \in Inode => late'[file] = {} /\ data'[file] = data[file]
        BY <2>3, <3>1
      <4>2. LoadCategories(data)' = LoadCategories(data)
        BY <1>0, <1>1, <4>1 DEF LoadCategories, CategoryTypes
      <4> QED
        BY <1>1, <3>1, <4>1, <4>2 DEF Stored
    <3>2. CASE file \in Inode /\ late[file] = {categories} /\ data[file] = Torn
      <4>1. CASE file = i
        <5>1. late'[file] = {} /\ data'[file] = categories'
          BY <2>2, <3>2, <4>1
        <5>2. LoadCategories(data)' = categories'
          BY <1>0, <1>1, <1>7, <3>2, <5>1, TornIsEmpty, CategoriesAssumption DEF LoadCategories, CategoryTypes
        <5> QED
          BY <1>1, <5>1, <5>2 DEF Stored
      <4>2. CASE file # i
        <5>1. late'[file] = late[file] /\ data'[file] = data[file]
          BY <2>2, <3>2, <4>2
        <5> QED
          BY <1>1, <3>2, <5>1 DEF Stored
      <4> QED
        BY <4>1, <4>2
    <3> QED
      BY <2>5, <3>1, <3>2 DEF Stored
  <2>6. ASSUME NEW r \in Caller, caller[r] = "write" PROVE handle'[r] = tmp' /\ data'[tmp'] = Torn
    <3>1. handle[r] = tmp /\ data[tmp] = Torn /\ tmp \in Inode /\ \A q \in Caller : caller[q] # "rename"
      BY <1>0, <2>1, <2>6 DEF StoreInOrder, CategoryTypes
    <3>2. late[tmp] = {}
      BY <2>1, <3>1 DEF StoreInOrder
    <3> QED
      BY <1>1, <2>3, <3>1, <3>2
  <2>7. ASSUME NEW r \in Caller, caller[r] = "rename" PROVE tmp' \in Inode /\ Holds(tmp)'
    <3>1. tmp \in Inode /\ Holds(tmp)
      BY <2>1, <2>7 DEF StoreInOrder
    <3>2. PICK k \in Inode : k = tmp
      BY <3>1
    <3>3. Holds(k)'
      BY <2>4, <3>1, <3>2
    <3> QED
      BY <1>1, <3>1, <3>2, <3>3 DEF Holds
  <2>8. tmp \in Inode /\ (\A r \in Caller : caller[r] # "rename") => late'[tmp] = {}
    BY <2>1, <2>3 DEF StoreInOrder
  <2> QED
    BY <1>1, <2>1, <2>5, <2>6, <2>7, <2>8 DEF StoreInOrder
<1> QED
  BY <1>1, <1>7, <1>8 DEF CategoryInv

\* Every step of the categories.
LEMMA CategoryStep == CategoryInv /\ [CategoryNext]_categoryVars => CategoryInv'
<1> SUFFICES ASSUME CategoryInv, [CategoryNext]_categoryVars PROVE CategoryInv'
  OBVIOUS
<1>1. ASSUME NEW power \in BOOLEAN, RestartSession(power) PROVE CategoryInv'
  <2>0. CategoryTypes /\ NoCategories \in CategoryMap
    BY DEF CategoryInv, NoCategories, CategoryMap
  <2>1. PICK contents : /\ contents = IF power /\ file # NoInode THEN [data EXCEPT ![file] = Torn] ELSE data
                        /\ data' = StillThere(contents)
    BY <1>1 DEF RestartSession
  <2>2. contents \in [Inode -> CategoryMap \cup {Torn}]
    BY <2>0, <2>1 DEF CategoryTypes
  <2>3. data' \in [Inode -> CategoryMap \cup {Torn}]
    BY <2>1, <2>2, StillThereType
  <2>4. LoadCategories(data') \in CategoryMap
    BY <2>0, <2>3, Loading DEF CategoryTypes
  <2>a. late' = [i \in Inode |-> {}] /\ late' \in [Inode -> SUBSET CategoryMap]
    BY <1>1 DEF RestartSession
  <2>5. CategoryTypes'
    BY <1>1, <2>0, <2>3, <2>4, <2>a DEF RestartSession, CategoryTypes, BeforeStore
  <2>6. LoadCategories(data)' = categories'
    BY <1>1 DEF RestartSession, LoadCategories
  <2>7. StoreInOrder'
    BY <1>1, <2>6, <2>a DEF RestartSession, StoreInOrder, Stored
  <2> QED
    BY <2>5, <2>7 DEF CategoryInv
<1>2. CASE UNCHANGED categoryVars
  BY <1>2 DEF categoryVars, calls, disk, CategoryInv, CategoryTypes, StoreInOrder, Stored, Holds, LoadCategories
<1>3. ASSUME NEW i \in Inode, NEW bytes \in late[i], NEW ok \in BOOLEAN, WriteArrives(i, bytes, ok)
      PROVE  CategoryInv'
  BY <1>3, ArrivalStep
<1> QED
  BY <1>1, <1>2, <1>3, RequestSteps, StoreSteps DEF CategoryNext

\* What api_create_or_edit_category and api_remove_category have answered is what
\* load_categories finds, or is with the thread that writes the file (json.rs:385 does not
\* wait for it), wherever an earlier restart or loss of power cut a store off: for any
\* number of callers, categories and paths. A stop before the bytes arrive, or a loss of
\* power, leaves a session with what is in the file, which may be nothing.
THEOREM CategoriesSurvive == CategoryInit /\ [][CategoryNext]_categoryVars => []CategoriesAreStored
<1>1. CategoryInv => CategoriesAreStored
  BY CategoriesAssumption DEF CategoryInv, StoreInOrder, Stored, BeforeStore, CategoriesAreStored
<1> QED
  BY <1>1, CategoryStart, CategoryStep, PTL

-----------------------------------------------------------------------------
(* The read buffer *)

\* The slot of the byte at an offset from the start of what has not been consumed.
SlotAt(from, k) == IF from + k < BufLen THEN from + k ELSE from + k - BufLen

RingTypes ==
  /\ ring \in [0..(BufLen - 1) -> Nat] /\ start \in 0..(BufLen - 1) /\ len \in 0..BufLen
  /\ fetched \in Nat /\ consumed \in Nat /\ message \in Nat /\ whole \in BOOLEAN /\ need \in Nat
  /\ reader \in {"handshake", "short", "parse", "fill", "full"}

RingInv ==
  /\ RingTypes
  /\ reader = "handshake" => start = 0 /\ len = 0 /\ fetched = 0 /\ consumed = 0
  /\ reader # "short" => /\ fetched = consumed + len
                         /\ \A k \in 0..(len - 1) : ring[SlotAt(start, k)] = consumed + k + 1
  /\ reader = "fill" /\ need > 0 => need + len <= message
  /\ reader = "full" => message > BufLen

\* The remainder of a position that has gone round the ring at most once.
LEMMA Wrapped ==
  ASSUME NEW from \in 0..(BufLen - 1), NEW k \in 0..BufLen
  PROVE  (from + k) % BufLen = SlotAt(from, k) /\ SlotAt(from, k) \in 0..(BufLen - 1)
<1>1. BufLen \in Nat \ {0}
  BY RingAssumption
<1>2. ASSUME NEW x \in 0..(BufLen - 1) PROVE x % BufLen = x /\ (x + BufLen) % BufLen = x
  BY <1>1
<1>3. CASE from + k < BufLen
  BY <1>1, <1>2, <1>3 DEF SlotAt
<1>4. CASE ~(from + k < BufLen)
  <2>1. from + k - BufLen \in 0..(BufLen - 1)
    BY <1>1, <1>4
  <2>2. ((from + k - BufLen) + BufLen) % BufLen = from + k - BufLen
    BY <1>2, <2>1
  <2>3. (from + k - BufLen) + BufLen = from + k
    BY <1>1
  <2> QED
    BY <1>4, <2>1, <2>2, <2>3 DEF SlotAt
<1> QED
  BY <1>3, <1>4

\* Two offsets of the ring have different slots.
LEMMA SlotsDiffer ==
  ASSUME NEW from \in 0..(BufLen - 1), NEW k \in 0..(BufLen - 1), NEW m \in 0..(BufLen - 1),
         SlotAt(from, k) = SlotAt(from, m)
  PROVE  k = m
  BY RingAssumption DEF SlotAt

\* as_slice_ranges: the two slices are the bytes in the order of their offsets.
LEMMA Slices ==
  ASSUME RingTypes
  PROVE  /\ First \o Second \in Seq(Nat) /\ Len(First \o Second) = len
         /\ \A i \in 1..len : (First \o Second)[i] = ring[SlotAt(start, i - 1)]
<1>1. /\ BufLen \in Nat \ {0} /\ start \in 0..(BufLen - 1) /\ len \in 0..BufLen
      /\ ring \in [0..(BufLen - 1) -> Nat]
  BY RingAssumption DEF RingTypes
<1>2. /\ FirstLen \in 0..len /\ FirstLen <= BufLen - start
      /\ FirstLen = len \/ FirstLen = BufLen - start
  BY <1>1 DEF FirstLen, LeastOf
<1> HIDE DEF FirstLen
<1>3. First \in Seq(Nat) /\ Len(First) = FirstLen /\ \A i \in 1..FirstLen : First[i] = ring[start + i - 1]
  <2>1. \A i \in 1..FirstLen : start + i - 1 \in 0..(BufLen - 1)
    BY <1>1, <1>2
  <2>2. First \in [1..FirstLen -> Nat]
    BY <1>1, <2>1 DEF First
  <2>3. FirstLen \in Nat
    BY <1>1, <1>2
  <2>4. First \in Seq(Nat) /\ Len(First) = FirstLen
    BY <2>2, <2>3
  <2> QED
    BY <2>4 DEF First
<1>4. Second \in Seq(Nat) /\ Len(Second) = len - FirstLen /\ \A i \in 1..(len - FirstLen) : Second[i] = ring[i - 1]
  <2>1. \A i \in 1..(len - FirstLen) : i - 1 \in 0..(BufLen - 1)
    BY <1>1, <1>2
  <2>2. Second \in [1..(len - FirstLen) -> Nat]
    BY <1>1, <2>1 DEF Second
  <2>3. len - FirstLen \in Nat
    BY <1>1, <1>2
  <2>4. Second \in Seq(Nat) /\ Len(Second) = len - FirstLen
    BY <2>2, <2>3
  <2> QED
    BY <2>4 DEF Second
<1>5. /\ First \o Second \in Seq(Nat) /\ Len(First \o Second) = Len(First) + Len(Second)
      /\ \A i \in 1..(Len(First) + Len(Second)) :
           (First \o Second)[i] = IF i <= Len(First) THEN First[i] ELSE Second[i - Len(First)]
  BY <1>3, <1>4, ConcatProperties
<1>6. Len(First \o Second) = len
  BY <1>1, <1>2, <1>3, <1>4, <1>5
<1>7. ASSUME NEW i \in 1..len PROVE (First \o Second)[i] = ring[SlotAt(start, i - 1)]
  <2>1. CASE i <= FirstLen
    <3>1. (First \o Second)[i] = First[i]
      BY <1>1, <1>2, <1>3, <1>4, <2>1
    <3>2. First[i] = ring[start + i - 1] /\ start + (i - 1) = start + i - 1 /\ start + (i - 1) < BufLen
      BY <1>1, <1>2, <1>3, <2>1
    <3> QED
      BY <3>1, <3>2 DEF SlotAt
  <2>2. CASE ~(i <= FirstLen)
    <3>1. (First \o Second)[i] = Second[i - FirstLen]
      <4>1. i \in 1..(Len(First) + Len(Second))
        BY <1>1, <1>2, <1>3, <1>4
      <4>2. (First \o Second)[i] = IF i <= Len(First) THEN First[i] ELSE Second[i - Len(First)]
        BY <1>5, <4>1
      <4> QED
        BY <1>3, <2>2, <4>2
    <3>2. i - FirstLen \in 1..(len - FirstLen) /\ FirstLen = BufLen - start
      BY <1>1, <1>2, <2>2
    <3>3. Second[i - FirstLen] = ring[(i - FirstLen) - 1]
      BY <1>4, <3>2
    <3>4. (i - FirstLen) - 1 = start + (i - 1) - BufLen /\ ~(start + (i - 1) < BufLen)
      BY <1>1, <1>2, <2>2, <3>2
    <3> QED
      BY <3>1, <3>3, <3>4 DEF SlotAt
  <2> QED
    BY <2>1, <2>2
<1> QED
  BY <1>5, <1>6, <1>7

\* A read puts the next bytes of the stream behind those that are there, which stay.
LEMMA Filling ==
  ASSUME RingTypes, NEW n \in 1..(BufLen - len)
  PROVE  /\ Filled(n) \in [0..(BufLen - 1) -> Nat]
         /\ \A k \in 0..(len - 1) : Filled(n)[SlotAt(start, k)] = ring[SlotAt(start, k)]
         /\ \A j \in 1..n : Filled(n)[SlotAt(start, len + j - 1)] = fetched + j
<1>1. /\ BufLen \in Nat \ {0} /\ start \in 0..(BufLen - 1) /\ len \in 0..BufLen /\ fetched \in Nat
      /\ ring \in [0..(BufLen - 1) -> Nat] /\ DOMAIN ring = 0..(BufLen - 1)
  BY RingAssumption DEF RingTypes
<1>2. ASSUME NEW j \in 1..n
      PROVE  /\ Unfilled[j] = SlotAt(start, len + j - 1) /\ len + j - 1 \in 0..(BufLen - 1)
             /\ SlotAt(start, len + j - 1) \in 0..(BufLen - 1)
  <2>1. j \in 1..(BufLen - len) /\ len + j - 1 \in 0..(BufLen - 1) /\ len + j - 1 \in 0..BufLen
    BY <1>1
  <2>2. Unfilled[j] = (start + len + j - 1) % BufLen
    BY <2>1 DEF Unfilled
  <2>3. start + len + j - 1 = start + (len + j - 1)
    BY <1>1
  <2> QED
    BY <1>1, <2>1, <2>2, <2>3, Wrapped
<1>3. ASSUME NEW i \in 0..(BufLen - 1), NEW j \in 1..n, Unfilled[j] = i
      PROVE  Filled(n)[i] = fetched + j
  <2>1. \A m \in 1..n : Unfilled[m] = i => m = j
    <3> SUFFICES ASSUME NEW m \in 1..n, Unfilled[m] = i PROVE m = j
      OBVIOUS
    <3>1. len + m - 1 = len + j - 1
      BY <1>1, <1>2, <1>3, SlotsDiffer
    <3> QED
      BY <1>1, <3>1
  <2>2. (CHOOSE m \in 1..n : Unfilled[m] = i) = j
    BY <1>3, <2>1
  <2> QED
    BY <1>1, <1>3, <2>2 DEF Filled
<1>4. ASSUME NEW i \in 0..(BufLen - 1), ~ \E j \in 1..n : Unfilled[j] = i
      PROVE  Filled(n)[i] = ring[i]
  BY <1>1, <1>4 DEF Filled
<1>5. Filled(n) \in [0..(BufLen - 1) -> Nat]
  <2>1. Filled(n) = [i \in 0..(BufLen - 1) |-> Filled(n)[i]]
    BY <1>1 DEF Filled
  <2>2. ASSUME NEW i \in 0..(BufLen - 1) PROVE Filled(n)[i] \in Nat
    BY <1>1, <1>3, <1>4
  <2> QED
    BY <2>1, <2>2
<1>6. ASSUME NEW k \in 0..(len - 1) PROVE Filled(n)[SlotAt(start, k)] = ring[SlotAt(start, k)]
  <2>1. k \in 0..(BufLen - 1) /\ k \in 0..BufLen
    BY <1>1
  <2>2. SlotAt(start, k) \in 0..(BufLen - 1)
    BY <1>1, <2>1, Wrapped
  <2>3. ~ \E j \in 1..n : Unfilled[j] = SlotAt(start, k)
    <3> SUFFICES ASSUME NEW j \in 1..n, Unfilled[j] = SlotAt(start, k) PROVE FALSE
      OBVIOUS
    <3>1. len + j - 1 = k
      BY <1>1, <1>2, <2>1, SlotsDiffer
    <3> QED
      BY <1>1, <3>1
  <2> QED
    BY <1>4, <2>2, <2>3
<1>7. ASSUME NEW j \in 1..n PROVE Filled(n)[SlotAt(start, len + j - 1)] = fetched + j
  BY <1>2, <1>3
<1> QED
  BY <1>5, <1>6, <1>7

\* A new connection.
LEMMA RingStart ==
  /\ RingInit => RingInv
  /\ Reconnect => RingInv'
<1>1. /\ Empty \in [0..(BufLen - 1) -> Nat] /\ 0 \in 0..(BufLen - 1) /\ 0 \in 0..BufLen
      /\ 0 \in Nat /\ FALSE \in BOOLEAN
  BY RingAssumption DEF Empty
<1>2. ASSUME RingInit PROVE RingInv
  <2>1. RingTypes
    BY <1>1, <1>2 DEF RingInit, RingTypes
  <2> QED
    BY <1>2, <2>1 DEF RingInit, RingInv
<1>3. ASSUME Reconnect PROVE RingInv'
  <2>1. RingTypes'
    BY <1>1, <1>3 DEF Reconnect, RingTypes
  <2> QED
    BY <1>3, <2>1 DEF Reconnect, RingInv
<1> QED
  BY <1>2, <1>3

\* Reads from the socket.
LEMMA ReadSteps ==
  ASSUME RingInv, NEW n \in 1..BufLen, ReadHandshake(n) \/ Fill(n)
  PROVE  RingInv'
<1>0. /\ RingTypes /\ BufLen \in Nat \ {0} /\ HandshakeLen \in 1..BufLen
      /\ start \in 0..(BufLen - 1) /\ len \in 0..BufLen /\ fetched \in Nat /\ consumed \in Nat
      /\ message \in Nat /\ need \in Nat
  BY RingAssumption DEF RingInv, RingTypes
<1>1. CASE ReadHandshake(n)
  <2>1. start = 0 /\ len = 0 /\ fetched = 0 /\ consumed = 0
    BY <1>1 DEF ReadHandshake, RingInv
  <2>2. /\ ring' \in [0..(BufLen - 1) -> Nat]
        /\ \A j \in 1..n : ring'[SlotAt(0, 0 + j - 1)] = 0 + j
    <3>1. n \in 1..(BufLen - len)
      BY <1>0, <2>1
    <3> QED
      BY <1>0, <1>1, <2>1, <3>1, Filling DEF ReadHandshake
  <2>3. CASE n < HandshakeLen
    <3>1. reader' = "short" /\ len' = n /\ start' = 0 /\ consumed' = 0 /\ fetched' = n
      BY <1>1, <2>1, <2>3 DEF ReadHandshake
    <3> QED
      BY <1>0, <1>1, <2>2, <3>1 DEF ReadHandshake, RingInv, RingTypes
  <2>4. CASE ~(n < HandshakeLen)
    <3>1. /\ reader' = "parse" /\ len' = n - HandshakeLen /\ start' = HandshakeLen % BufLen
          /\ consumed' = HandshakeLen /\ fetched' = n /\ UNCHANGED <<message, whole, need>>
      BY <1>1, <2>4 DEF ReadHandshake
    <3>2. /\ HandshakeLen % BufLen = IF HandshakeLen < BufLen THEN HandshakeLen ELSE 0
          /\ HandshakeLen % BufLen \in 0..(BufLen - 1)
      <4>1. (0 + HandshakeLen) % BufLen = SlotAt(0, HandshakeLen) /\ SlotAt(0, HandshakeLen) \in 0..(BufLen - 1)
        BY <1>0, Wrapped
      <4> QED
        BY <1>0, <4>1 DEF SlotAt
    <3>3. len' \in 0..BufLen /\ fetched' = consumed' + len' /\ fetched' \in Nat /\ consumed' \in Nat
      BY <1>0, <2>4, <3>1
    <3>4. ASSUME NEW k \in 0..(len' - 1) PROVE ring'[SlotAt(start', k)] = consumed' + k + 1
      <4>1. /\ HandshakeLen < BufLen /\ start' = HandshakeLen
            /\ HandshakeLen + k < BufLen /\ HandshakeLen + k + 1 \in 1..n
        BY <1>0, <2>4, <3>1, <3>2
      <4>2. ring'[SlotAt(0, 0 + (HandshakeLen + k + 1) - 1)] = 0 + (HandshakeLen + k + 1)
        BY <2>2, <4>1
      <4>3. 0 + (0 + (HandshakeLen + k + 1) - 1) = HandshakeLen + k
        BY <1>0
      <4>4. SlotAt(start', k) = SlotAt(0, 0 + (HandshakeLen + k + 1) - 1)
        BY <1>0, <4>1, <4>3 DEF SlotAt
      <4> QED
        BY <1>0, <3>1, <4>2, <4>4
    <3>5. RingTypes'
      BY <1>0, <2>2, <3>1, <3>2, <3>3 DEF RingTypes
    <3> QED
      BY <3>1, <3>3, <3>4, <3>5 DEF RingInv
  <2> QED
    BY <2>3, <2>4
<1>2. CASE Fill(n)
  <2>1. /\ reader = "fill" /\ need > 0 /\ n \in 1..(BufLen - len) /\ ring' = Filled(n)
        /\ len' = len + n /\ fetched' = fetched + n /\ need' = IF n >= need THEN 0 ELSE need - n
        /\ UNCHANGED <<start, consumed, message, whole, reader>>
    BY <1>2 DEF Fill
  <2>2. /\ ring' \in [0..(BufLen - 1) -> Nat]
        /\ \A k \in 0..(len - 1) : ring'[SlotAt(start, k)] = ring[SlotAt(start, k)]
        /\ \A j \in 1..n : ring'[SlotAt(start, len + j - 1)] = fetched + j
    BY <1>0, <2>1, Filling
  <2>3. RingTypes'
    BY <1>0, <2>1, <2>2 DEF RingTypes
  <2>4. fetched = consumed + len /\ \A k \in 0..(len - 1) : ring[SlotAt(start, k)] = consumed + k + 1
    BY <2>1 DEF RingInv
  <2>5. fetched' = consumed' + len'
    BY <1>0, <2>1, <2>4
  <2>6. ASSUME NEW k \in 0..(len' - 1) PROVE ring'[SlotAt(start', k)] = consumed' + k + 1
    <3>1. CASE k < len
      <4>1. k \in 0..(len - 1)
        BY <1>0, <3>1
      <4> QED
        BY <2>1, <2>2, <2>4, <4>1
    <3>2. CASE ~(k < len)
      <4>1. k - len + 1 \in 1..n /\ len + (k - len + 1) - 1 = k /\ fetched + (k - len + 1) = consumed + k + 1
        BY <1>0, <2>1, <2>4, <3>2
      <4> QED
        BY <2>1, <2>2, <4>1
    <3> QED
      BY <3>1, <3>2
  <2>7. need' > 0 => need' + len' <= message'
    BY <1>0, <2>1 DEF RingInv
  <2> QED
    BY <2>1, <2>3, <2>5, <2>6, <2>7 DEF RingInv
<1> QED
  BY <1>1, <1>2

\* What the parser does with the bytes.
LEMMA ParseSteps ==
  ASSUME RingInv,
         \/ \E size \in MessageLens, oneSlice \in BOOLEAN : NextMessage(size, oneSlice)
         \/ \E n \in MessageLens : NotEnoughData(n)
         \/ Return \/ FillEnds \/ MakeContiguous
  PROVE  RingInv'
<1>0. /\ RingTypes /\ BufLen \in Nat \ {0} /\ MessageLens \subseteq Nat \ {0}
      /\ start \in 0..(BufLen - 1) /\ len \in 0..BufLen /\ fetched \in Nat /\ consumed \in Nat
      /\ message \in Nat /\ need \in Nat /\ ring \in [0..(BufLen - 1) -> Nat]
  BY RingAssumption DEF RingInv, RingTypes
<1>1. ASSUME NEW size \in MessageLens, NEW oneSlice \in BOOLEAN, NextMessage(size, oneSlice) PROVE RingInv'
  BY <1>0, <1>1 DEF NextMessage, RingInv, RingTypes
<1>2. ASSUME NEW n \in MessageLens, NotEnoughData(n) PROVE RingInv'
  BY <1>0, <1>2 DEF NotEnoughData, RingInv, RingTypes
<1>3. CASE Return
  <2>1. /\ reader = "parse" /\ len >= message /\ len' = len - message /\ start' = (start + message) % BufLen
        /\ consumed' = consumed + message /\ message' = 0 /\ UNCHANGED <<ring, fetched, whole, need, reader>>
    BY <1>3 DEF Return
  <2>2. start' = SlotAt(start, message) /\ start' \in 0..(BufLen - 1)
    <3>1. message \in 0..BufLen
      BY <1>0, <2>1
    <3> QED
      BY <1>0, <2>1, <3>1, Wrapped
  <2>3. fetched = consumed + len /\ \A k \in 0..(len - 1) : ring[SlotAt(start, k)] = consumed + k + 1
    BY <2>1 DEF RingInv
  <2>4. len' \in 0..BufLen /\ consumed' \in Nat /\ fetched' = consumed' + len'
    BY <1>0, <2>1, <2>3
  <2>5. RingTypes'
    BY <1>0, <2>1, <2>2, <2>4 DEF RingTypes
  <2>6. ASSUME NEW k \in 0..(len' - 1) PROVE ring'[SlotAt(start', k)] = consumed' + k + 1
    <3>1. message + k \in 0..(len - 1)
      BY <1>0, <2>1
    <3>2. SlotAt(start', k) = SlotAt(start, message + k)
      <4>1. start' = IF start + message < BufLen THEN start + message ELSE start + message - BufLen
        BY <2>2 DEF SlotAt
      <4> QED
        BY <1>0, <3>1, <4>1 DEF SlotAt
    <3>3. ring[SlotAt(start, message + k)] = consumed + (message + k) + 1
      BY <2>3, <3>1
    <3> QED
      BY <1>0, <2>1, <3>2, <3>3
  <2> QED
    BY <2>1, <2>4, <2>5, <2>6 DEF RingInv
<1>4. CASE FillEnds
  BY <1>0, <1>4 DEF FillEnds, RingInv, RingTypes, IsFull
<1>5. CASE MakeContiguous
  <2>1. ~IsContiguous
    <3>1. start + len > BufLen
      BY <1>0, <1>5 DEF MakeContiguous, Split, LeastOf
    <3>2. (start + len) % BufLen \in 0..(BufLen - 1)
      BY <1>0, Wrapped
    <3> QED
      BY <1>0, <3>1, <3>2 DEF IsContiguous
  <2>2. /\ reader = "parse" /\ start' = 0 /\ UNCHANGED <<len, fetched, consumed, message, whole, need, reader>>
        /\ ring' = [i \in 0..(BufLen - 1) |-> IF i < len THEN (First \o Second)[i + 1] ELSE 0]
    BY <1>0, <1>5, <2>1 DEF MakeContiguous
  <2>3. /\ First \o Second \in Seq(Nat) /\ Len(First \o Second) = len
        /\ \A i \in 1..len : (First \o Second)[i] = ring[SlotAt(start, i - 1)]
    BY <1>0, Slices
  <2>4. ASSUME NEW k \in 0..(len - 1) PROVE ring'[k] = ring[SlotAt(start, k)] /\ k \in 0..(BufLen - 1)
    <3>1. k \in 0..(BufLen - 1) /\ k < len /\ k + 1 \in 1..len /\ (k + 1) - 1 = k
      BY <1>0
    <3>2. (First \o Second)[k + 1] = ring[SlotAt(start, k)]
      BY <2>3, <3>1
    <3> QED
      BY <2>2, <3>1, <3>2
  <2>5. ring' \in [0..(BufLen - 1) -> Nat]
    <3>1. ASSUME NEW i \in 0..(BufLen - 1) PROVE (IF i < len THEN (First \o Second)[i + 1] ELSE 0) \in Nat
      <4>1. CASE i < len
        <5>1. i + 1 \in 1..len
          BY <1>0, <4>1
        <5>2. SlotAt(start, (i + 1) - 1) \in 0..(BufLen - 1)
          <6>1. (i + 1) - 1 \in 0..BufLen
            BY <1>0
          <6> QED
            BY <1>0, <6>1, Wrapped
        <5> QED
          BY <1>0, <2>3, <4>1, <5>1, <5>2
      <4> QED
        BY <4>1
    <3> QED
      BY <2>2, <3>1
  <2>6. ASSUME NEW k \in 0..(len' - 1) PROVE ring'[SlotAt(start', k)] = consumed' + k + 1
    <3>1. ring[SlotAt(start, k)] = consumed + k + 1
      BY <2>2 DEF RingInv
    <3>2. SlotAt(start', k) = k
      BY <1>0, <2>2, <2>4 DEF SlotAt
    <3> QED
      BY <2>2, <2>4, <3>1, <3>2
  <2>7. RingTypes'
    <3>1. start' \in 0..(BufLen - 1)
      BY <1>0, <2>2
    <3> QED
      BY <1>0, <2>2, <2>5, <3>1 DEF RingTypes
  <2>8. fetched' = consumed' + len'
    BY <2>2 DEF RingInv
  <2> QED
    BY <2>2, <2>6, <2>7, <2>8 DEF RingInv
<1> QED
  BY <1>1, <1>2, <1>3, <1>4, <1>5

\* Every step of the reader.
LEMMA RingStep == RingInv /\ [RingNext]_ringVars => RingInv'
<1> SUFFICES ASSUME RingInv, [RingNext]_ringVars PROVE RingInv'
  OBVIOUS
<1>1. CASE UNCHANGED ringVars
  BY <1>1 DEF ringVars, RingInv, RingTypes
<1> QED
  BY <1>1, RingStart, ReadSteps, ParseSteps DEF RingNext

\* The parser of a connection is given the bytes the peer sent next, in order, and gives
\* up on a full buffer only for a message that does not fit: for every length of the
\* buffer of ReadBuf, of the handshake and of the messages, however reads split them.
THEOREM BytesArriveInOrder == RingInit /\ [][RingNext]_ringVars => []BytesInOrder
<1>1. ASSUME RingInv PROVE BytesInOrder
  <2>1. ASSUME reader # "short" PROVE First \o Second = [i \in 1..(fetched - consumed) |-> consumed + i]
    <3>1. /\ RingTypes /\ len \in 0..BufLen /\ BufLen \in Nat /\ fetched \in Nat /\ consumed \in Nat
          /\ fetched = consumed + len
          /\ \A k \in 0..(len - 1) : ring[SlotAt(start, k)] = consumed + k + 1
      BY <1>1, <2>1, RingAssumption DEF RingInv, RingTypes
    <3>2. fetched - consumed = len
      BY <3>1
    <3>3. PICK s : /\ s = First \o Second /\ s \in Seq(Nat) /\ Len(s) = len
                   /\ \A i \in 1..len : s[i] = ring[SlotAt(start, i - 1)]
      BY <3>1, Slices
    <3>4. ASSUME NEW i \in 1..len PROVE s[i] = consumed + i
      <4>1. i - 1 \in 0..(len - 1) /\ consumed + (i - 1) + 1 = consumed + i
        BY <3>1
      <4> QED
        BY <3>1, <3>3, <4>1
    <3>5. s = [i \in 1..len |-> s[i]]
      <4>1. s \in [1..Len(s) -> Nat]
        BY <3>3, LenProperties
      <4> QED
        BY <3>3, <4>1
    <3>6. s = [i \in 1..len |-> consumed + i]
      BY <3>4, <3>5
    <3> QED
      BY <3>2, <3>3, <3>6
  <2> QED
    BY <1>1, <2>1 DEF RingInv, RingTypes, BytesInOrder
<1> QED
  BY <1>1, RingStart, RingStep, PTL

-----------------------------------------------------------------------------
(* The storage *)

Content == {"zero", "good", "bad"}
Writing == {"cache", "file", "guard", "mark"}
Checking == {"check", "passed", "failed"}
Job == [object : Objects, block : Blocks, left : Seq(Nat), good : BOOLEAN, step : Writing \cup Checking]

StorageTypes ==
  /\ capacity \in Nat /\ object \in Objects /\ stopping \in {"paused", "error"}
  /\ life \in {"opening", "error", "paused", "live", "taking cache", "taking"}
  /\ life \in {"taking cache", "taking"} => object + 1 \in Objects
  /\ opened \in [Objects -> SUBSET RealFiles]
  /\ pages \in [Objects -> [Parts -> Content]] /\ ondisk \in [Parts -> Content]
  /\ jobs \subseteq Job
  /\ \A j \in jobs : (j.step \in {"cache", "file", "guard"} <=> j.left # <<>>) /\ (j.step = "cache" => capacity > 0)

\* Nobody writes into the files of a storage that has been taken.
TakenIsLeftAlone ==
  /\ \A j \in jobs : /\ j.object <= object
                     /\ j.step = "guard" => Head(j.left) \in opened[j.object]
                     /\ life \in {"opening", "error", "paused"} => j.object # object
  /\ \A o \in Objects : o < object => opened[o] = {}

\* The chunks of a piece have one writer, and none once the piece is verified.
OneWriter ==
  /\ \A z \in verified : BlocksOf(z) \subseteq written
  /\ life # "live" => \A b \in written : BlocksOf(BlockPiece[b]) \subseteq written
  /\ \A j \in jobs : j.object = object =>
       /\ \A k \in jobs : k.object = object /\ BlockPiece[k.block] = BlockPiece[j.block] => k = j
       /\ BlockPiece[j.block] \notin verified
       /\ j.step \in Writing => ~(BlocksOf(BlockPiece[j.block]) \subseteq written)
       /\ j.step \in Checking /\ life = "live" => BlocksOf(BlockPiece[j.block]) \subseteq written

\* The object whose cache the live torrent reads, or the next one will.
CacheOf == IF life = "taking" THEN object + 1 ELSE object

\* The recorded chunks on which the cache and the files agree: nobody is writing them
\* again, and nobody failed to.
Settled ==
  {b \in written : /\ capacity > 0 /\ BlockPiece[b] \notin halfRewritten
                   /\ ~ \E j \in jobs : j.object = object /\ j.step \in Writing /\ j.block = b}

\* What a call of the live torrent has put into the cache is on disk too, or is the very
\* thing it is about to write; a piece that passed its check is on disk.
JobBehind(j) ==
  /\ \A x \in Parts : x[1] = j.block /\ x[2] \notin ToSet(j.left) /\ pages[object][x] = "good" => ondisk[x] = "good"
  /\ j.step \in {"file", "guard"} =>
       \A x \in Parts : x = <<j.block, Head(j.left)>> /\ pages[object][x] = "good" => j.good
  /\ j.step = "passed" /\ BlockPiece[j.block] \notin halfRewritten =>
       \A x \in PartsOf(BlockPiece[j.block]) : ondisk[x] = "good"

\* A good page of the cache is on disk too, but for the chunks being written.
CacheIsBehind ==
  /\ capacity = 0 => \A o \in Objects, x \in Parts : pages[o][x] = "zero"
  /\ \A x \in Parts : x[1] \in Settled /\ pages[CacheOf][x] = "good" => ondisk[x] = "good"
  /\ \A j \in jobs : StillLive(j) => JobBehind(j)

StorageInv == StorageTypes /\ TakenIsLeftAlone /\ OneWriter /\ CacheIsBehind /\ VerifiedIsOnDisk

\* The chunks the cache and the files agree on stay the same when nothing concerns them.
LEMMA SettledStays ==
  ASSUME UNCHANGED <<capacity, object, written, halfRewritten, jobs>>
  PROVE  Settled' = Settled
  BY DEF Settled

\* A call that ends without having written its chunk leaves no other one settled.
LEMMA SettledEnds ==
  ASSUME StorageInv, NEW j \in jobs, jobs' = jobs \ {j}, UNCHANGED <<capacity, object>>,
         halfRewritten \subseteq halfRewritten', written' \subseteq written,
         capacity > 0 /\ StillLive(j) /\ j.step \in Writing /\ j.block \in written' =>
           BlockPiece[j.block] \in halfRewritten'
  PROVE  Settled' \subseteq Settled
<1>1. OneWriter
  BY DEF StorageInv
<1> SUFFICES ASSUME NEW b \in Settled' PROVE b \in Settled
  OBVIOUS
<1>2. /\ b \in written' /\ b \in written /\ capacity > 0 /\ BlockPiece[b] \notin halfRewritten'
      /\ ~ \E i \in jobs \ {j} : i.object = object /\ i.step \in Writing /\ i.block = b
  BY DEF Settled
<1>3. ~(j.object = object /\ j.step \in Writing /\ j.block = b)
  <2> SUFFICES ASSUME j.object = object, j.step \in Writing, j.block = b PROVE FALSE
    OBVIOUS
  <2>1. ~StillLive(j)
    BY <1>2
  <2>2. life # "live"
    BY <2>1 DEF StillLive
  <2> QED
    BY <1>1, <1>2, <2>2 DEF OneWriter
<1> QED
  BY <1>2, <1>3 DEF Settled

\* A call that goes on leaves no other chunk settled than its own, and that one only
\* when it is done writing.
LEMMA SettledMoves ==
  ASSUME NEW j \in jobs, NEW k, jobs' = (jobs \ {j}) \cup {k}, UNCHANGED <<capacity, object, halfRewritten>>,
         k.object = j.object, k.block = j.block, written' \subseteq written \cup {j.block}
  PROVE  /\ Settled' \subseteq Settled \cup {j.block}
         /\ (k.step \in Writing \/ j.step \notin Writing) /\ written' \subseteq written => Settled' \subseteq Settled
  BY DEF Settled

\* What a part of a chunk is.
LEMMA PartsAre ==
  /\ \A x \in Parts : x[1] \in Blocks /\ x[2] \in ToSet(OnDisk(Span[x[1]])) /\ x = <<x[1], x[2]>>
  /\ \A z, x : x \in PartsOf(z) <=> x \in Parts /\ BlockPiece[x[1]] = z
  /\ \A z, b : b \in BlocksOf(z) <=> b \in Blocks /\ BlockPiece[b] = z
  BY DEF Parts, PartsOf, BlocksOf

\* The objects are numbers.
LEMMA ObjectsAre == \A o \in Objects : o \in Nat /\ o # o + 1
<1>1. MaxObjects \in Nat
  BY StorageAssumption
<1> QED
  BY <1>1 DEF Objects

\* A torrent whose files have not been opened.
LEMMA StorageStart == StorageInit => StorageInv
<1> SUFFICES ASSUME StorageInit PROVE StorageInv
  OBVIOUS
<1>1. MaxObjects \in Nat \ {0} /\ 1 \in Objects
  BY StorageAssumption DEF Objects
<1>2. StorageTypes
  BY <1>1, StorageAssumption DEF StorageInit, StorageTypes, Content
<1>3. TakenIsLeftAlone /\ OneWriter /\ VerifiedIsOnDisk
  BY <1>1 DEF StorageInit, TakenIsLeftAlone, OneWriter, VerifiedIsOnDisk, Objects
<1>4. CacheIsBehind
  BY <1>1 DEF StorageInit, CacheIsBehind, CacheOf, Settled
<1> QED
  BY <1>2, <1>3, <1>4 DEF StorageInv

\* Opening the files, and the torrent becoming live.
LEMMA OpeningSteps ==
  ASSUME StorageInv,
         \/ \E f \in RealFiles : OpenFile(f) \/ OpenFails(f)
         \/ Initialized \/ GoLive \/ CreateAgain
  PROVE  StorageInv'
<1> USE DEF stateVars, tracker, lru, files, faults
<1>0. StorageTypes /\ TakenIsLeftAlone /\ OneWriter /\ CacheIsBehind /\ VerifiedIsOnDisk
  BY DEF StorageInv
<1>1. ASSUME NEW f \in RealFiles, OpenFile(f) PROVE StorageInv'
  <2>1. /\ life = "opening" /\ opened' = [opened EXCEPT ![object] = @ \cup {f}]
        /\ UNCHANGED <<capacity, object, stopping, life, written, verified, pages, ondisk, jobs, halfRewritten>>
    BY <1>1 DEF OpenFile
  <2>2. StorageTypes'
    BY <1>0, <2>1 DEF StorageTypes
  <2>3. TakenIsLeftAlone'
    BY <1>0, <2>1 DEF TakenIsLeftAlone, StorageTypes, Objects
  <2>4. OneWriter' /\ CacheIsBehind' /\ VerifiedIsOnDisk'
    BY <1>0, <2>1, SettledStays DEF OneWriter, CacheIsBehind, JobBehind, VerifiedIsOnDisk, CacheOf, StillLive
  <2> QED
    BY <2>2, <2>3, <2>4 DEF StorageInv
<1>2. ASSUME NEW f \in RealFiles, OpenFails(f) PROVE StorageInv'
  <2>1. /\ life = "opening" /\ life' = "error" /\ opened' = [opened EXCEPT ![object] = {}]
        /\ UNCHANGED <<capacity, object, stopping, written, verified, pages, ondisk, jobs, halfRewritten>>
    BY <1>2 DEF OpenFails
  <2>2. StorageTypes'
    BY <1>0, <2>1 DEF StorageTypes
  <2>3. TakenIsLeftAlone'
    BY <1>0, <2>1 DEF TakenIsLeftAlone, StorageTypes, Objects
  <2>4. OneWriter' /\ CacheIsBehind' /\ VerifiedIsOnDisk'
    BY <1>0, <2>1, SettledStays DEF OneWriter, CacheIsBehind, JobBehind, VerifiedIsOnDisk, CacheOf, StillLive
  <2> QED
    BY <2>2, <2>3, <2>4 DEF StorageInv
<1>3. CASE Initialized
  <2>1. /\ life = "opening" /\ life' = "paused" /\ written' = UNION {BlocksOf(z) : z \in verified'}
        /\ verified' \in {verified, {z \in AllPiecesOf(Blocks) : \A x \in PartsOf(z) : ondisk[x] = "good"}}
        /\ UNCHANGED <<capacity, object, stopping, opened, pages, ondisk, jobs, halfRewritten>>
    BY <1>3 DEF Initialized
  <2>2. StorageTypes'
    BY <1>0, <2>1 DEF StorageTypes
  <2>3. TakenIsLeftAlone'
    BY <1>0, <2>1 DEF TakenIsLeftAlone
  <2>4. VerifiedIsOnDisk'
    <3>1. CASE verified' = verified
      BY <1>0, <2>1, <3>1 DEF VerifiedIsOnDisk
    <3>2. CASE verified' = {z \in AllPiecesOf(Blocks) : \A x \in PartsOf(z) : ondisk[x] = "good"}
      BY <2>1, <3>2 DEF VerifiedIsOnDisk
    <3> QED
      BY <2>1, <3>1, <3>2
  <2>5. OneWriter'
    <3>1. \A z \in verified' : BlocksOf(z) \subseteq written'
      BY <2>1
    <3>2. \A j \in jobs' : j.object # object'
      BY <1>0, <2>1 DEF TakenIsLeftAlone
    <3>3. \A b \in written' : BlocksOf(BlockPiece[b]) \subseteq written'
      BY <2>1, PartsAre
    <3> QED
      BY <3>1, <3>2, <3>3 DEF OneWriter
  <2>6. CacheIsBehind'
    <3>1. ASSUME NEW x \in Parts, x[1] \in Settled' PROVE ondisk'[x] = "good"
      <4>0. x[1] \in written' /\ BlockPiece[x[1]] \notin halfRewritten'
        BY <3>1 DEF Settled
      <4>1. PICK z \in verified' : x[1] \in BlocksOf(z)
        BY <2>1, <4>0
      <4>2. x \in PartsOf(z) /\ z \notin halfRewritten'
        BY <4>0, <4>1, PartsAre
      <4> QED
        BY <2>4, <4>2 DEF VerifiedIsOnDisk
    <3> QED
      BY <1>0, <2>1, <3>1 DEF CacheIsBehind, StillLive
  <2> QED
    BY <2>2, <2>3, <2>4, <2>5, <2>6 DEF StorageInv
<1>4. CASE GoLive \/ CreateAgain
  <2>1. /\ \/ life = "paused" /\ life' = "live"
           \/ life = "error" /\ life' = "opening"
        /\ UNCHANGED <<capacity, object, stopping, opened, written, verified, pages, ondisk, jobs, halfRewritten>>
    BY <1>4 DEF GoLive, CreateAgain
  <2>2. StorageTypes'
    BY <1>0, <2>1 DEF StorageTypes
  <2>3. TakenIsLeftAlone' /\ \A j \in jobs : j.object # object
    BY <1>0, <2>1 DEF TakenIsLeftAlone
  <2>4. OneWriter' /\ VerifiedIsOnDisk'
    BY <1>0, <2>1, <2>3 DEF OneWriter, VerifiedIsOnDisk
  <2>5. CacheIsBehind'
    BY <1>0, <2>1, <2>3, SettledStays DEF CacheIsBehind, CacheOf, StillLive
  <2> QED
    BY <2>2, <2>3, <2>4, <2>5 DEF StorageInv
<1> QED
  BY <1>1, <1>2, <1>3, <1>4

\* Stopping: the cache and the files change hands.
LEMMA StoppingSteps ==
  ASSUME StorageInv, Pause \/ TakeCache \/ Taken \/ \E f \in RealFiles : TakeClone(f)
  PROVE  StorageInv'
<1> USE DEF stateVars, tracker, lru, files, faults
<1>0. StorageTypes /\ TakenIsLeftAlone /\ OneWriter /\ CacheIsBehind /\ VerifiedIsOnDisk
  BY DEF StorageInv
<1>1. CASE Pause
  <2>1. /\ life = "live" /\ object < MaxObjects /\ life' = IF capacity > 0 THEN "taking cache" ELSE "taking"
        /\ stopping' \in {"paused", "error"} /\ written' = KeptBlocks
        /\ UNCHANGED <<capacity, object, opened, verified, pages, ondisk, jobs, halfRewritten>>
    BY <1>1 DEF Pause
  <2>2. object + 1 \in Objects
    <3>1. object \in 1..MaxObjects /\ MaxObjects \in Nat
      BY <1>0, StorageAssumption DEF StorageTypes, Objects
    <3>2. object < MaxObjects
      BY <2>1
    <3> QED
      BY <3>1, <3>2 DEF Objects
  <2>3. StorageTypes'
    BY <1>0, <2>1, <2>2 DEF StorageTypes
  <2>4. TakenIsLeftAlone' /\ VerifiedIsOnDisk'
    BY <1>0, <2>1 DEF TakenIsLeftAlone, VerifiedIsOnDisk
  <2>5. written' \subseteq written /\ Settled' \subseteq Settled
    BY <2>1 DEF KeptBlocks, Settled
  <2>6. OneWriter'
    <3>1. ASSUME NEW z \in verified' PROVE BlocksOf(z) \subseteq written'
      <4>1. BlocksOf(z) \subseteq written
        BY <1>0, <2>1, <3>1 DEF OneWriter
      <4> QED
        BY <2>1, <4>1, PartsAre DEF KeptBlocks
    <3>2. life' # "live"
      BY <2>1
    <3>3. \A b \in written' : BlocksOf(BlockPiece[b]) \subseteq written'
      BY <2>1, PartsAre DEF KeptBlocks
    <3> QED
      BY <1>0, <2>1, <2>5, <3>1, <3>2, <3>3 DEF OneWriter
  <2>7. CacheIsBehind'
    <3>1. ASSUME NEW x \in Parts, x[1] \in Settled', pages'[CacheOf'][x] = "good" PROVE ondisk'[x] = "good"
      <4>1. CASE capacity > 0
        <5>1. CacheOf' = object /\ CacheOf = object
          BY <2>1, <4>1 DEF CacheOf
        <5> QED
          BY <1>0, <2>1, <2>5, <3>1, <5>1 DEF CacheIsBehind
      <4>2. CASE ~(capacity > 0)
        <5>1. capacity = 0 /\ CacheOf' = object + 1
          BY <1>0, <2>1, <4>2 DEF CacheOf, StorageTypes
        <5>2. pages'[CacheOf'][x] = "zero"
          BY <1>0, <2>1, <2>2, <5>1 DEF CacheIsBehind
        <5> QED
          BY <3>1, <5>2
      <4> QED
        BY <4>1, <4>2
    <3> QED
      BY <1>0, <2>1, <3>1 DEF CacheIsBehind, StillLive
  <2> QED
    BY <2>3, <2>4, <2>6, <2>7 DEF StorageInv
<1>2. CASE TakeCache
  <2>1. /\ life = "taking cache" /\ life' = "taking"
        /\ pages' = [pages EXCEPT ![object + 1] = pages[object], ![object] = [x \in Parts |-> "zero"]]
        /\ UNCHANGED <<capacity, object, stopping, opened, written, verified, ondisk, jobs, halfRewritten>>
    BY <1>2 DEF TakeCache
  <2>2. object + 1 \in Objects /\ object \in Objects /\ object # object + 1
    <3>1. object \in 1..MaxObjects /\ object + 1 \in Objects
      BY <1>0, <2>1 DEF StorageTypes, Objects
    <3> QED
      BY <3>1, StorageAssumption DEF Objects
  <2>3. StorageTypes'
    BY <1>0, <2>1, <2>2 DEF StorageTypes, Content
  <2>4. TakenIsLeftAlone' /\ VerifiedIsOnDisk'
    BY <1>0, <2>1 DEF TakenIsLeftAlone, VerifiedIsOnDisk
  <2>5. OneWriter'
    BY <1>0, <2>1 DEF OneWriter
  <2>6. pages'[object + 1] = pages[object] /\ CacheOf' = object + 1 /\ CacheOf = object
    BY <1>0, <2>1, <2>2 DEF StorageTypes, CacheOf
  <2>7. capacity = 0 => \A o \in Objects, x \in Parts : pages'[o][x] = "zero"
    BY <1>0, <2>1, <2>2 DEF StorageTypes, CacheIsBehind
  <2>8. \A x \in Parts : x[1] \in Settled' /\ pages'[CacheOf'][x] = "good" => ondisk'[x] = "good"
    BY <1>0, <2>1, <2>6, SettledStays DEF CacheIsBehind
  <2>9. CacheIsBehind'
    BY <2>1, <2>7, <2>8 DEF CacheIsBehind, StillLive
  <2> QED
    BY <2>3, <2>4, <2>5, <2>9 DEF StorageInv
<1>3. CASE Taken
  <2>1. /\ life = "taking" /\ opened[object] = {} /\ life' = stopping /\ stopping' = "paused" /\ object' = object + 1
        /\ \/ UNCHANGED <<opened, pages>>
           \/ /\ opened' = [opened EXCEPT ![object + 1] = {}]
              /\ pages' = [pages EXCEPT ![object + 1] = [x \in Parts |-> "zero"]]
        /\ UNCHANGED <<capacity, written, verified, ondisk, jobs, halfRewritten>>
    BY <1>3 DEF Taken
  <2>2. object + 1 \in Objects /\ object \in Nat /\ life' \in {"paused", "error"}
    BY <1>0, <2>1 DEF StorageTypes, Objects
  <2>3. StorageTypes'
    <3>1. opened' \in [Objects -> SUBSET RealFiles]
      BY <1>0, <2>1, <2>2 DEF StorageTypes
    <3>2. pages' \in [Objects -> [Parts -> Content]]
      BY <1>0, <2>1, <2>2 DEF StorageTypes, Content
    <3> QED
      BY <1>0, <2>1, <2>2, <3>1, <3>2 DEF StorageTypes
  <2>4. \A j \in jobs : j.object # object' /\ j.object <= object' /\ j.object \in Objects
    BY <1>0, <2>1, <2>2 DEF TakenIsLeftAlone, StorageTypes, Job, Objects
  <2>5. \A o \in Objects : o < object' => o # object + 1 /\ opened'[o] = opened[o] /\ opened[o] = {}
    <3> SUFFICES ASSUME NEW o \in Objects, o < object'
                 PROVE  o # object + 1 /\ opened'[o] = opened[o] /\ opened[o] = {}
      OBVIOUS
    <3>1. o # object + 1 /\ (o = object \/ o < object)
      BY <2>1, <2>2 DEF Objects
    <3>2. opened'[o] = opened[o]
      BY <1>0, <2>1, <3>1 DEF StorageTypes
    <3> QED
      BY <1>0, <2>1, <3>1, <3>2 DEF TakenIsLeftAlone
  <2>6. TakenIsLeftAlone'
    BY <1>0, <2>1, <2>4, <2>5 DEF TakenIsLeftAlone, StorageTypes
  <2>7. OneWriter' /\ VerifiedIsOnDisk'
    BY <1>0, <2>1, <2>4 DEF OneWriter, VerifiedIsOnDisk
  <2>8. CacheOf = object + 1 /\ CacheOf' = object + 1
    BY <2>1, <2>2 DEF CacheOf
  <2>9. \A o \in Objects, x \in Parts : pages'[o][x] \in {pages[o][x], "zero"}
    BY <1>0, <2>1 DEF StorageTypes
  <2>a. Settled' \subseteq Settled
    <3> SUFFICES ASSUME NEW b \in written, NEW j \in jobs, j.object = object, j.step \in Writing, j.block = b
                 PROVE  FALSE
      BY <2>1 DEF Settled
    <3> QED
      BY <1>0, <2>1 DEF OneWriter
  <2>10. CacheIsBehind'
    BY <1>0, <2>1, <2>2, <2>8, <2>9, <2>a DEF CacheIsBehind, StillLive
  <2> QED
    BY <2>3, <2>6, <2>7, <2>10 DEF StorageInv
<1>4. ASSUME NEW f \in RealFiles, TakeClone(f) PROVE StorageInv'
  <2>1. /\ life = "taking" /\ f \in opened[object]
        /\ ~ \E j \in jobs : j.object = object /\ j.step = "guard" /\ Head(j.left) = f
        /\ opened' = [opened EXCEPT ![object] = @ \ {f}, ![object + 1] = @ \cup {f}]
        /\ UNCHANGED <<capacity, object, life, stopping, written, verified, pages, ondisk, jobs, halfRewritten>>
    BY <1>4 DEF TakeClone, Taking
  <2>2. object + 1 \in Objects /\ object \in Objects /\ object # object + 1 /\ ~(object + 1 < object)
    BY <1>0, <2>1 DEF StorageTypes, Objects
  <2>3. StorageTypes'
    BY <1>0, <2>1, <2>2 DEF StorageTypes
  <2>4. /\ opened'[object] = opened[object] \ {f}
        /\ \A o \in Objects : o # object => opened[o] \subseteq opened'[o] /\ (o # object + 1 => opened'[o] = opened[o])
    BY <1>0, <2>1, <2>2 DEF StorageTypes
  <2>5. TakenIsLeftAlone'
    <3>1. \A o \in Objects : o < object => o # object /\ o # object + 1
      BY <2>2 DEF Objects
    <3>2. \A j \in jobs : j.object \in Objects
      BY <1>0 DEF StorageTypes, Job
    <3> QED
      BY <1>0, <2>1, <2>4, <3>1, <3>2 DEF TakenIsLeftAlone
  <2>6. OneWriter' /\ VerifiedIsOnDisk'
    BY <1>0, <2>1 DEF OneWriter, VerifiedIsOnDisk
  <2>7. CacheIsBehind'
    BY <1>0, <2>1, SettledStays DEF CacheIsBehind, JobBehind, CacheOf, StillLive
  <2> QED
    BY <2>3, <2>5, <2>6, <2>7 DEF StorageInv
<1> QED
  BY <1>1, <1>2, <1>3, <1>4

\* A new call of write_to_disk.
LEMMA WriteChunkStep ==
  ASSUME StorageInv, NEW b \in Blocks, NEW good \in BOOLEAN, WriteChunk(b, good)
  PROVE  StorageInv'
<1> USE DEF stateVars, tracker, lru, files, faults
<1>0. StorageTypes /\ TakenIsLeftAlone /\ OneWriter /\ CacheIsBehind /\ VerifiedIsOnDisk
  BY DEF StorageInv
<1>1. PICK new : /\ new = [object |-> object, block |-> b, left |-> OnDisk(Span[b]), good |-> good,
                           step |-> IF OnDisk(Span[b]) = <<>> THEN "mark" ELSE FirstStep]
                 /\ jobs' = jobs \cup {new}
  BY DEF WriteChunk
<1>2. /\ life = "live" /\ ~(BlocksOf(BlockPiece[b]) \subseteq written)
      /\ ~ \E j \in jobs : j.object = object /\ BlockPiece[j.block] = BlockPiece[b]
      /\ UNCHANGED <<capacity, object, life, stopping, opened, written, verified, pages, ondisk, halfRewritten>>
  BY DEF WriteChunk
<1>3. /\ new.object = object /\ new.block = b /\ new.left = OnDisk(Span[b])
      /\ new.step \in {"mark", "cache", "file"} /\ new.step # "guard" /\ new.step # "passed"
      /\ new.step \in Writing /\ new.step \notin Checking
      /\ new.step # "mark" <=> new.left # <<>>
      /\ new.step = "cache" => capacity > 0
      /\ new.step = "file" => ~(capacity > 0)
  BY <1>1 DEF FirstStep, Writing, Checking
<1>4. new \in Job
  BY <1>0, <1>1, StorageAssumption DEF Job, StorageTypes, Writing, FirstStep
<1>5. StorageTypes'
  BY <1>0, <1>1, <1>2, <1>3, <1>4 DEF StorageTypes
<1>6. TakenIsLeftAlone'
  BY <1>0, <1>1, <1>2, <1>3 DEF TakenIsLeftAlone, StorageTypes, Objects
<1>7. BlockPiece[b] \notin verified
  BY <1>0, <1>2, PartsAre DEF OneWriter
<1>8. OneWriter'
  BY <1>0, <1>1, <1>2, <1>3, <1>7 DEF OneWriter
<1>9. VerifiedIsOnDisk'
  BY <1>0, <1>2 DEF VerifiedIsOnDisk
<1>10. CacheIsBehind'
  <2>1. \A x \in Parts : x[1] = b => x[2] \in ToSet(new.left)
    BY <1>3, PartsAre
  <2>2. ASSUME new.step \in {"file", "guard"} PROVE \A x \in Parts : pages[object][x] = "zero"
    <3>1. capacity \in Nat /\ object \in Objects
      BY <1>0 DEF StorageTypes
    <3>2. ~(capacity > 0)
      BY <1>3, <2>2
    <3>3. capacity = 0
      BY <3>1, <3>2
    <3> QED
      BY <1>0, <3>1, <3>3 DEF CacheIsBehind
  <2>3. CacheOf' = CacheOf
    BY <1>2 DEF CacheOf
  <2>4. ASSUME NEW j \in jobs', StillLive(j)'
        PROVE  JobBehind(j)'
    <3>1. CASE j = new
      BY <1>2, <1>3, <2>1, <2>2, <3>1 DEF JobBehind
    <3>2. CASE j \in jobs
      BY <1>0, <1>2, <2>4, <3>2 DEF CacheIsBehind, StillLive, JobBehind
    <3> QED
      BY <1>1, <3>1, <3>2
  <2>5. Settled' \subseteq Settled
    BY <1>1, <1>2 DEF Settled
  <2> QED
    BY <1>0, <1>2, <2>3, <2>4, <2>5 DEF CacheIsBehind
<1> QED
  BY <1>5, <1>6, <1>8, <1>9, <1>10 DEF StorageInv

\* A call that goes on or ends, and with its failure may take back the chunks of its
\* piece, leaves everything in order but what it puts into the cache and the files.
LEMMA JobMoves ==
  ASSUME StorageInv, NEW j \in jobs, NEW k \in Job, k.object = j.object, k.block = j.block,
         jobs' \subseteq (jobs \ {j}) \cup {k},
         k.step \in Writing => j.step \in Writing, k.step \in Checking => j.step \in Checking,
         k.step \in {"cache", "file", "guard"} <=> k.left # <<>>,
         k.step = "cache" => capacity > 0,
         k.step = "guard" => Head(k.left) \in opened[k.object],
         UNCHANGED <<capacity, object, life, stopping, opened, verified>>,
         pages' \in [Objects -> [Parts -> Content]], ondisk' \in [Parts -> Content],
         written' \subseteq written,
         \A b \in written \ written' : BlockPiece[b] = BlockPiece[j.block],
         written' # written => j.object = object /\ life = "live" /\ jobs' \subseteq jobs \ {j}
  PROVE  StorageTypes' /\ TakenIsLeftAlone' /\ OneWriter'
<1>0. StorageTypes /\ TakenIsLeftAlone /\ OneWriter
  BY DEF StorageInv
<1>1. StorageTypes'
  BY <1>0 DEF StorageTypes
<1>2. TakenIsLeftAlone'
  BY <1>0 DEF TakenIsLeftAlone
<1>3. ASSUME NEW z \in verified' PROVE BlocksOf(z) \subseteq written'
  <2>1. BlocksOf(z) \subseteq written
    BY <1>0, <1>3 DEF OneWriter
  <2>2. CASE written' = written
    BY <2>1, <2>2
  <2>3. CASE written' # written
    <3>1. BlockPiece[j.block] # z
      BY <1>0, <1>3, <2>3 DEF OneWriter
    <3> QED
      BY <2>1, <3>1, PartsAre
  <2> QED
    BY <2>2, <2>3
<1>4. ASSUME NEW i \in jobs', i.object = object'
      PROVE  /\ BlockPiece[i.block] \notin verified'
             /\ i.step \in Writing => ~(BlocksOf(BlockPiece[i.block]) \subseteq written')
             /\ i.step \in Checking /\ life' = "live" => BlocksOf(BlockPiece[i.block]) \subseteq written'
             /\ \A m \in jobs' : m.object = object' /\ BlockPiece[m.block] = BlockPiece[i.block] => m = i
  <2>1. CASE i = k
    <3>1. j.object = object /\ BlockPiece[i.block] = BlockPiece[j.block]
      BY <1>4, <2>1
    <3>2. written' = written \/ i \in jobs \ {j}
      BY <1>4
    <3>3. ASSUME NEW m \in jobs', m.object = object', BlockPiece[m.block] = BlockPiece[i.block] PROVE m = i
      <4>1. m \in jobs => m = j
        BY <1>0, <3>1, <3>3 DEF OneWriter
      <4> QED
        BY <2>1, <4>1
    <3>4. i \in jobs => i = j
      BY <1>0, <1>4, <3>1 DEF OneWriter
    <3> QED
      BY <1>0, <1>4, <2>1, <3>1, <3>2, <3>3, <3>4 DEF OneWriter
  <2>2. CASE i # k
    <3>1. i \in jobs /\ i # j
      BY <1>4, <2>2
    <3>2. j.object = object => BlockPiece[j.block] # BlockPiece[i.block]
      BY <1>0, <1>4, <3>1 DEF OneWriter
    <3>3. ASSUME NEW m \in jobs', m.object = object', BlockPiece[m.block] = BlockPiece[i.block] PROVE m = i
      <4>1. m # k
        BY <3>2, <3>3
      <4> QED
        BY <1>0, <1>4, <3>1, <3>3, <4>1 DEF OneWriter
    <3>4. i.step \in Checking /\ life' = "live" => BlocksOf(BlockPiece[i.block]) \subseteq written'
      <4>1. i.step \in Checking /\ life' = "live" => BlocksOf(BlockPiece[i.block]) \subseteq written
        BY <1>0, <1>4, <3>1 DEF OneWriter
      <4> QED
        BY <3>2, <4>1, PartsAre
    <3> QED
      BY <1>0, <1>4, <3>1, <3>3, <3>4 DEF OneWriter
  <2> QED
    BY <2>1, <2>2
<1>5. OneWriter'
  BY <1>0, <1>3, <1>4 DEF OneWriter
<1> QED
  BY <1>1, <1>2, <1>5

\* A call that holds the lock of a file is one of the storage in use, and its chunk is
\* not settled and not part of a verified piece.
LEMMA OnlyWriter ==
  ASSUME StorageInv, NEW j \in jobs, j.step = "guard"
  PROVE  /\ j.object = object /\ j.block \notin Settled /\ BlockPiece[j.block] \notin verified
         /\ \A i \in jobs : i.object = object /\ BlockPiece[i.block] = BlockPiece[j.block] => i = j
<1>1. j.object \in Objects /\ object \in Objects /\ j.object <= object /\ opened[j.object] # {}
  BY DEF StorageInv, TakenIsLeftAlone, StorageTypes, Job
<1>2. ~(j.object < object)
  BY <1>1 DEF StorageInv, TakenIsLeftAlone
<1>3. j.object = object
  BY <1>1, <1>2 DEF Objects
<1> QED
  BY <1>3 DEF StorageInv, OneWriter, Writing, Settled

\* A write that succeeds, falls short or fails half way.
LEMMA DiskStep ==
  ASSUME StorageInv, NEW j \in jobs, NEW k \in Job, j.step = "guard", k.block = j.block,
         jobs' \subseteq (jobs \ {j}) \cup {k},
         UNCHANGED <<capacity, object, life, verified, pages>>, Settled' \subseteq Settled,
         halfRewritten \subseteq halfRewritten',
         \A x \in Parts : x # <<j.block, Head(j.left)>> => ondisk'[x] = ondisk[x],
         k \in jobs' => /\ ToSet(j.left) \subseteq ToSet(k.left) \cup {Head(j.left)}
                        /\ capacity = 0 \/ \A x \in Parts : x = <<j.block, Head(j.left)>> => ondisk'[x] = Value(j)
                        /\ k.step # "guard" /\ k.step # "passed" /\ (k.step = "file" => capacity = 0)
  PROVE  CacheIsBehind' /\ VerifiedIsOnDisk'
<1>0. CacheIsBehind /\ VerifiedIsOnDisk /\ object \in Objects
  BY DEF StorageInv, StorageTypes
<1>1. /\ j.object = object /\ j.block \notin Settled /\ BlockPiece[j.block] \notin verified
      /\ \A i \in jobs : i.object = object /\ BlockPiece[i.block] = BlockPiece[j.block] => i = j
  BY OnlyWriter
<1>2. \A x \in Parts : x[1] # j.block => ondisk'[x] = ondisk[x]
  BY PartsAre
<1>3. VerifiedIsOnDisk'
  BY <1>0, <1>1, <1>2, PartsAre DEF VerifiedIsOnDisk
<1>4. \A x \in Parts : x[1] \in Settled' /\ pages'[CacheOf'][x] = "good" => ondisk'[x] = "good"
  BY <1>0, <1>1, <1>2 DEF CacheIsBehind, CacheOf
<1>5. ASSUME NEW i \in jobs', StillLive(i)' PROVE JobBehind(i)'
  <2>1. CASE i \in jobs /\ i # j
    <3>1. JobBehind(i) /\ BlockPiece[i.block] # BlockPiece[j.block]
      BY <1>0, <1>1, <1>5, <2>1 DEF CacheIsBehind, StillLive
    <3>2. i.block # j.block
      BY <3>1
    <3> QED
      BY <1>2, <3>1, <3>2, PartsAre DEF JobBehind
  <2>2. CASE i = k
    <3>1. StillLive(j)
      BY <1>1, <1>5 DEF StillLive
    <3>2. JobBehind(j)
      BY <1>0, <3>1 DEF CacheIsBehind
    <3>3. CASE capacity = 0
      <4>1. \A x \in Parts : pages'[object'][x] = "zero"
        BY <1>0, <3>3 DEF CacheIsBehind
      <4> QED
        BY <1>5, <2>2, <4>1 DEF JobBehind
    <3>4. CASE capacity # 0
      <4>1. ASSUME NEW x \in Parts, x[1] = k.block, x[2] \notin ToSet(k.left), pages[object][x] = "good"
            PROVE  ondisk'[x] = "good"
        <5>1. CASE x[2] = Head(j.left)
          <6>1. x = <<j.block, Head(j.left)>>
            BY <4>1, <5>1, PartsAre
          <6>2. j.good
            BY <3>2, <4>1, <6>1 DEF JobBehind
          <6>3. ondisk'[x] = Value(j)
            BY <1>5, <2>2, <3>4, <6>1
          <6> QED
            BY <6>2, <6>3 DEF Value
        <5>2. CASE x[2] # Head(j.left)
          <6>1. x[2] \notin ToSet(j.left)
            BY <1>5, <2>2, <4>1, <5>2
          <6>2. ondisk[x] = "good"
            BY <3>2, <4>1, <6>1 DEF JobBehind
          <6>3. x # <<j.block, Head(j.left)>>
            BY <5>2
          <6> QED
            BY <6>2, <6>3
        <5> QED
          BY <5>1, <5>2
      <4>2. k.step \notin {"file", "guard"} /\ k.step # "passed"
        BY <1>5, <2>2, <3>4
      <4> QED
        BY <2>2, <4>1, <4>2 DEF JobBehind
    <3> QED
      BY <3>3, <3>4
  <2> QED
    BY <2>1, <2>2
<1> QED
  BY <1>0, <1>3, <1>4, <1>5 DEF CacheIsBehind

\* A call that ends without a trace.
LEMMA JobEnds ==
  ASSUME StorageInv, NEW j \in jobs, jobs' = jobs \ {j},
         UNCHANGED <<capacity, object, life, stopping, opened, written, verified, pages, ondisk>>,
         halfRewritten \subseteq halfRewritten',
         capacity > 0 /\ StillLive(j) /\ j.step \in Writing /\ j.block \in written =>
           BlockPiece[j.block] \in halfRewritten'
  PROVE  StorageInv'
<1>0. StorageTypes /\ TakenIsLeftAlone /\ OneWriter /\ CacheIsBehind /\ VerifiedIsOnDisk
  BY DEF StorageInv
<1>1. StorageTypes'
  BY <1>0 DEF StorageTypes
<1>2. TakenIsLeftAlone'
  BY <1>0 DEF TakenIsLeftAlone
<1>3. OneWriter'
  BY <1>0 DEF OneWriter
<1>4. CacheIsBehind'
  <2>1. Settled' \subseteq Settled
    BY SettledEnds
  <2> QED
    BY <1>0, <2>1 DEF CacheIsBehind, CacheOf, JobBehind, StillLive
<1>5. VerifiedIsOnDisk'
  BY <1>0 DEF VerifiedIsOnDisk
<1> QED
  BY <1>1, <1>2, <1>3, <1>4, <1>5 DEF StorageInv

\* The steps of a call up to the end of a write.
LEMMA WritingSteps ==
  ASSUME StorageInv, NEW j \in jobs,
         CachePut(j) \/ LockFile(j) \/ FileIsNone(j) \/ PWrite(j) \/ ShortWrite(j) \/ WriteFails(j)
  PROVE  StorageInv'
<1> USE DEF stateVars, tracker, lru, files, faults
<1>0. /\ StorageTypes /\ TakenIsLeftAlone /\ OneWriter /\ CacheIsBehind /\ VerifiedIsOnDisk
      /\ j \in Job /\ object \in Objects /\ j.object \in Objects /\ capacity \in Nat
      /\ pages \in [Objects -> [Parts -> Content]] /\ ondisk \in [Parts -> Content]
  BY DEF StorageInv, StorageTypes, Job
<1>a. Value(j) \in Content /\ "zero" \in Content /\ "bad" \in Content
  BY DEF Value, Content
<1>1. CASE CachePut(j)
  <2>1. PICK k : k = [j EXCEPT !.step = "file"] /\ jobs' = (jobs \ {j}) \cup {k}
    BY <1>1 DEF CachePut, CachePutting, Replace
  <2>2. /\ j.step = "cache" /\ UNCHANGED <<capacity, object, life, stopping, opened, written, verified, ondisk, halfRewritten>>
        /\ \E now, kept : pages' = [pages EXCEPT ![j.object] =
             [x \in Parts |->
               IF x = <<j.block, Head(j.left)>> THEN Value(j)
               ELSE IF BlockPiece[x[1]] \in ToSet(now) /\ (kept \/ BlockPiece[x[1]] # BlockPiece[j.block])
                    THEN pages[j.object][x] ELSE "zero"]]
    BY <1>1 DEF CachePut, CachePutting
  <2>3. /\ pages' \in [Objects -> [Parts -> Content]]
        /\ \A o \in Objects : o # j.object => pages'[o] = pages[o]
        /\ \A x \in Parts : pages'[j.object][x] =
              IF x = <<j.block, Head(j.left)>> THEN Value(j) ELSE pages'[j.object][x]
        /\ \A x \in Parts : x # <<j.block, Head(j.left)>> => pages'[j.object][x] \in {pages[j.object][x], "zero"}
    BY <1>0, <1>a, <2>2
  <2>4. /\ k \in Job /\ k.object = j.object /\ k.block = j.block /\ k.left = j.left /\ k.good = j.good
        /\ k.step = "file"
    BY <1>0, <2>1 DEF Job, Writing
  <2>5. j.left # <<>> /\ capacity > 0
    BY <1>0, <2>2 DEF StorageTypes
  <2>6. StorageTypes' /\ TakenIsLeftAlone' /\ OneWriter'
    BY <1>0, <2>1, <2>2, <2>3, <2>4, <2>5, JobMoves DEF Writing, Checking
  <2>7. VerifiedIsOnDisk'
    BY <1>0, <2>2 DEF VerifiedIsOnDisk
  <2>8. Head(j.left) \in ToSet(j.left)
    BY <1>0, <2>5, TakenOut DEF Job
  <2>a. Settled' \subseteq Settled
    BY <2>1, <2>2, <2>4, SettledMoves DEF Writing
  <2>9. ASSUME NEW x \in Parts, x[1] \in Settled', pages'[CacheOf'][x] = "good" PROVE ondisk'[x] = "good"
    <3>1. CacheOf' = CacheOf /\ CacheOf \in Objects
      BY <1>0, <2>2 DEF CacheOf, StorageTypes
    <3>2. CASE j.object # CacheOf
      BY <1>0, <2>2, <2>3, <2>9, <2>a, <3>1, <3>2 DEF CacheIsBehind
    <3>3. CASE j.object = CacheOf
      <4>1. j.object <= object /\ (CacheOf = object \/ CacheOf = object + 1)
        BY <1>0 DEF TakenIsLeftAlone, CacheOf
      <4>2. j.object = object
        BY <1>0, <3>3, <4>1 DEF Objects
      <4>3. x[1] # j.block
        BY <2>2, <2>9, <2>a, <4>2 DEF Settled, Writing
      <4>4. x # <<j.block, Head(j.left)>>
        BY <4>3
      <4>5. pages[CacheOf][x] = "good"
        BY <2>3, <2>9, <3>1, <3>3, <4>4
      <4> QED
        BY <1>0, <2>2, <2>9, <2>a, <4>5 DEF CacheIsBehind
    <3> QED
      BY <3>2, <3>3
  <2>10. ASSUME NEW i \in jobs', StillLive(i)' PROVE JobBehind(i)'
    <3>1. i.object = object /\ life = "live"
      BY <2>2, <2>10 DEF StillLive
    <3>2. CASE i = k
      <4>1. JobBehind(j) /\ j.object = object
        BY <1>0, <2>4, <3>1, <3>2 DEF CacheIsBehind, StillLive
      <4>2. ASSUME NEW x \in Parts, x[1] = k.block, x[2] \notin ToSet(k.left), pages'[object][x] = "good"
            PROVE  ondisk'[x] = "good"
        <5>1. x # <<j.block, Head(j.left)>>
          BY <2>4, <2>8, <4>2
        <5>2. pages[object][x] = "good"
          BY <2>3, <4>1, <4>2, <5>1
        <5> QED
          BY <2>2, <2>4, <4>1, <4>2, <5>2 DEF JobBehind
      <4>3. ASSUME NEW x \in Parts, x = <<k.block, Head(k.left)>>, pages'[object][x] = "good" PROVE k.good
        BY <2>3, <2>4, <4>1, <4>3 DEF Value
      <4> QED
        BY <2>2, <2>4, <3>2, <4>2, <4>3 DEF JobBehind
    <3>3. CASE i # k
      <4>1. i \in jobs /\ i # j /\ JobBehind(i)
        BY <1>0, <2>1, <2>10, <3>1, <3>3 DEF CacheIsBehind, StillLive
      <4>2. j.object = object => BlockPiece[i.block] # BlockPiece[j.block]
        BY <1>0, <3>1, <4>1 DEF OneWriter
      <4>3. \A x \in Parts : x[1] = i.block /\ pages'[object][x] = "good" => pages[object][x] = "good"
        BY <1>0, <2>3, <4>2, PartsAre
      <4> QED
        BY <2>2, <4>1, <4>3 DEF JobBehind
    <3> QED
      BY <3>2, <3>3
  <2>11. CacheIsBehind'
    BY <2>2, <2>5, <2>9, <2>10 DEF CacheIsBehind
  <2> QED
    BY <2>6, <2>7, <2>11 DEF StorageInv
<1>2. CASE LockFile(j)
  <2>1. PICK k : k = [j EXCEPT !.step = "guard"] /\ jobs' = (jobs \ {j}) \cup {k}
    BY <1>2 DEF LockFile, Replace
  <2>2. /\ j.step = "file" /\ Head(j.left) \in opened[j.object]
        /\ UNCHANGED <<capacity, object, life, stopping, opened, written, verified, pages, ondisk, halfRewritten>>
    BY <1>2 DEF LockFile
  <2>3. /\ k \in Job /\ k.object = j.object /\ k.block = j.block /\ k.left = j.left /\ k.good = j.good
        /\ k.step = "guard"
    BY <1>0, <2>1 DEF Job, Writing
  <2>4. j.left # <<>>
    BY <1>0, <2>2 DEF StorageTypes
  <2>5. StorageTypes' /\ TakenIsLeftAlone' /\ OneWriter'
    BY <1>0, <2>1, <2>2, <2>3, <2>4, JobMoves DEF Writing, Checking
  <2>6. VerifiedIsOnDisk'
    BY <1>0, <2>2 DEF VerifiedIsOnDisk
  <2>7. ASSUME NEW i \in jobs', StillLive(i)' PROVE JobBehind(i)'
    <3>1. CASE i = k
      <4>1. JobBehind(j)
        BY <1>0, <2>2, <2>3, <2>7, <3>1 DEF CacheIsBehind, StillLive
      <4> QED
        BY <2>2, <2>3, <3>1, <4>1 DEF JobBehind
    <3>2. CASE i # k
      <4>1. JobBehind(i)
        BY <1>0, <2>1, <2>2, <2>7, <3>2 DEF CacheIsBehind, StillLive
      <4> QED
        BY <2>2, <4>1 DEF JobBehind
    <3> QED
      BY <3>1, <3>2
  <2>8. CacheIsBehind'
    <3>1. Settled' \subseteq Settled
      BY <2>1, <2>2, <2>3, SettledMoves DEF Writing
    <3> QED
      BY <1>0, <2>2, <2>7, <3>1 DEF CacheIsBehind, CacheOf
  <2> QED
    BY <2>5, <2>6, <2>8 DEF StorageInv
<1>3. CASE FileIsNone(j)
  <2>1. /\ jobs' = jobs \ {j}
        /\ UNCHANGED <<capacity, object, life, stopping, opened, written, verified, pages, ondisk>>
        /\ halfRewritten \subseteq halfRewritten'
        /\ capacity > 0 /\ StillLive(j) /\ j.block \in written => BlockPiece[j.block] \in halfRewritten'
    BY <1>3 DEF FileIsNone, Finish, NotWritten
  <2> QED
    BY <2>1, JobEnds
<1>4. CASE PWrite(j) \/ ShortWrite(j)
  <2>1. PICK k : /\ jobs' = (jobs \ {j}) \cup {k}
                 /\ k = IF Len(j.left) = 1 THEN [j EXCEPT !.left = <<>>, !.step = "mark", !.good = TRUE]
                        ELSE [j EXCEPT !.left = Tail(@), !.step = FirstStep]
    BY <1>4 DEF PWrite, ShortWrite, Advance, Replace
  <2>2. /\ j.step = "guard" /\ UNCHANGED <<capacity, object, life, stopping, opened, written, verified, pages, halfRewritten>>
    BY <1>4 DEF PWrite, ShortWrite
  <2>3. /\ ondisk' \in [Parts -> Content]
        /\ \A x \in Parts : x # <<j.block, Head(j.left)>> => ondisk'[x] = ondisk[x]
        /\ capacity = 0 \/ \A x \in Parts : x = <<j.block, Head(j.left)>> => ondisk'[x] = Value(j)
    BY <1>0, <1>4, <1>a DEF PWrite, ShortWrite
  <2>4. j.left \in Seq(Nat) /\ j.left # <<>>
    BY <1>0, <2>2 DEF StorageTypes, Job
  <2>5. /\ Tail(j.left) \in Seq(Nat) /\ ToSet(j.left) = ToSet(Tail(j.left)) \cup {Head(j.left)}
        /\ Len(Tail(j.left)) = Len(j.left) - 1
    BY <2>4, TakenOut
  <2>6. Len(j.left) = 1 <=> Tail(j.left) = <<>>
    <3>1. Len(Tail(j.left)) = 0 <=> Tail(j.left) = <<>>
      BY <2>5, EmptySeq
    <3>2. Len(j.left) \in Nat
      BY <2>4
    <3> QED
      BY <2>5, <3>1, <3>2
  <2>7. /\ k \in Job /\ k.object = j.object /\ k.block = j.block /\ k.left = Tail(j.left)
        /\ k.step = IF Len(j.left) = 1 THEN "mark" ELSE FirstStep
    BY <1>0, <2>1, <2>5, <2>6 DEF Job, FirstStep, Writing
  <2>8. /\ k.step \in Writing /\ k.step \notin Checking /\ k.step # "guard" /\ k.step # "passed"
        /\ k.step \in {"cache", "file", "guard"} <=> k.left # <<>>
        /\ k.step = "cache" => capacity > 0
        /\ k.step = "file" => capacity = 0
    BY <1>0, <2>6, <2>7 DEF FirstStep, Writing, Checking
  <2>9. StorageTypes' /\ TakenIsLeftAlone' /\ OneWriter'
    BY <1>0, <2>1, <2>2, <2>3, <2>7, <2>8, JobMoves DEF Writing
  <2>10. Settled' \subseteq Settled
    BY <2>1, <2>2, <2>7, <2>8, SettledMoves
  <2>11. CacheIsBehind' /\ VerifiedIsOnDisk'
    BY <2>1, <2>2, <2>3, <2>5, <2>7, <2>8, <2>10, DiskStep
  <2> QED
    BY <2>9, <2>11 DEF StorageInv
<1>5. CASE WriteFails(j)
  <2>1. /\ j.step = "guard" /\ jobs' = jobs \ {j}
        /\ UNCHANGED <<capacity, object, life, stopping, opened, verified, pages>>
        /\ written' \in {written, IF StillLive(j) THEN written \ BlocksOf(BlockPiece[j.block]) ELSE written}
        /\ halfRewritten \subseteq halfRewritten'
        /\ capacity > 0 /\ StillLive(j) /\ j.block \in written' => BlockPiece[j.block] \in halfRewritten'
    BY <1>5 DEF WriteFails, Finish, NotWritten
  <2>2. /\ ondisk' \in [Parts -> Content]
        /\ \A x \in Parts : x # <<j.block, Head(j.left)>> => ondisk'[x] = ondisk[x]
    BY <1>0, <1>a, <1>5 DEF WriteFails
  <2>3. /\ written' \subseteq written /\ j.object = object
        /\ \A b \in written \ written' : BlockPiece[b] = BlockPiece[j.block]
        /\ written' # written => life = "live"
    BY <2>1, OnlyWriter, PartsAre DEF StillLive
  <2>4. /\ j.step \in {"cache", "file", "guard"} <=> j.left # <<>>
        /\ j.step = "guard" => Head(j.left) \in opened[j.object]
    BY <1>0 DEF StorageTypes, TakenIsLeftAlone
  <2>5. StorageTypes' /\ TakenIsLeftAlone' /\ OneWriter'
    BY <1>0, <2>1, <2>2, <2>3, <2>4, JobMoves DEF Checking
  <2>6. Settled' \subseteq Settled
    BY <2>1, <2>3, SettledEnds
  <2>7. CacheIsBehind' /\ VerifiedIsOnDisk'
    BY <1>0, <2>1, <2>2, <2>6, DiskStep
  <2> QED
    BY <2>5, <2>7 DEF StorageInv
<1> QED
  BY <1>1, <1>2, <1>3, <1>4, <1>5

\* The bookkeeping after a write.
LEMMA MarkingSteps ==
  ASSUME StorageInv, NEW j \in jobs, MarkChunk(j) \/ CheckPiece(j) \/ MarkVerdict(j) \/ Abandon(j)
  PROVE  StorageInv'
<1> USE DEF stateVars, tracker, lru, files, faults
<1>0. /\ StorageTypes /\ TakenIsLeftAlone /\ OneWriter /\ CacheIsBehind /\ VerifiedIsOnDisk
      /\ j \in Job /\ object \in Objects /\ j.object \in Objects
      /\ pages \in [Objects -> [Parts -> Content]] /\ ondisk \in [Parts -> Content]
  BY DEF StorageInv, StorageTypes, Job
<1>1. CASE MarkChunk(j)
  <2>1. /\ j.step = "mark" /\ j.object = object /\ life = "live" /\ StillLive(j) /\ written' = written \cup {j.block}
        /\ UNCHANGED <<capacity, object, life, stopping, opened, verified, pages, ondisk, halfRewritten>>
    BY <1>1 DEF MarkChunk, StillLive
  <2>2. PICK k : k = [j EXCEPT !.step = "check"]
    OBVIOUS
  <2>3. /\ jobs' \subseteq (jobs \ {j}) \cup {k} /\ jobs \subseteq jobs' \cup {j}
        /\ k \in jobs' => k \in jobs \/ BlocksOf(BlockPiece[j.block]) \subseteq written'
    BY <1>1, <2>2 DEF MarkChunk, Replace, Finish
  <2>4. /\ k \in Job /\ k.object = j.object /\ k.block = j.block /\ k.left = j.left /\ k.step = "check"
    BY <1>0, <2>2 DEF Job, Checking
  <2>5. j.left = <<>> /\ ToSet(j.left) = {}
    BY <1>0, <2>1, QueueHolds DEF StorageTypes
  <2>6. StorageTypes'
    BY <1>0, <2>1, <2>3, <2>4, <2>5 DEF StorageTypes
  <2>7. TakenIsLeftAlone'
    BY <1>0, <2>1, <2>3, <2>4 DEF TakenIsLeftAlone
  <2>8. ASSUME NEW i \in jobs', i.object = object'
        PROVE  /\ BlockPiece[i.block] \notin verified'
               /\ i.step \in Writing => ~(BlocksOf(BlockPiece[i.block]) \subseteq written')
               /\ i.step \in Checking /\ life' = "live" => BlocksOf(BlockPiece[i.block]) \subseteq written'
               /\ \A m \in jobs' : m.object = object' /\ BlockPiece[m.block] = BlockPiece[i.block] => m = i
    <3>0. k \notin jobs
      <4>1. k # j
        BY <2>1, <2>4
      <4> QED
        BY <1>0, <2>1, <2>4, <4>1 DEF OneWriter
    <3>1. CASE i = k
      <4>1. i.step \notin Writing /\ BlocksOf(BlockPiece[i.block]) \subseteq written'
        BY <2>3, <2>4, <2>8, <3>0, <3>1 DEF Writing
      <4>2. \A m \in jobs' : m.object = object' /\ BlockPiece[m.block] = BlockPiece[i.block] => m = i
        BY <1>0, <2>1, <2>3, <2>4, <3>1 DEF OneWriter
      <4> QED
        BY <1>0, <2>1, <2>4, <3>1, <4>1, <4>2 DEF OneWriter
    <3>2. CASE i # k
      <4>1. i \in jobs /\ i # j
        BY <2>3, <2>8, <3>2
      <4>2. BlockPiece[i.block] # BlockPiece[j.block]
        BY <1>0, <2>1, <2>8, <4>1 DEF OneWriter
      <4>3. i.block # j.block
        BY <4>2
      <4>4. \A m \in jobs' : m.object = object' /\ BlockPiece[m.block] = BlockPiece[i.block] => m = i
        BY <1>0, <2>1, <2>3, <2>4, <2>8, <4>1, <4>2 DEF OneWriter
      <4> QED
        BY <1>0, <2>1, <2>8, <4>1, <4>2, <4>3, <4>4, PartsAre DEF OneWriter
    <3> QED
      BY <3>1, <3>2
  <2>9. OneWriter'
    BY <1>0, <2>1, <2>8 DEF OneWriter
  <2>10. JobBehind(j)
    BY <1>0, <2>1 DEF CacheIsBehind
  <2>a. Settled' \subseteq Settled \cup {j.block}
    BY <2>1, <2>3 DEF Settled
  <2>11. \A x \in Parts : x[1] \in Settled' /\ pages'[CacheOf'][x] = "good" => ondisk'[x] = "good"
    BY <1>0, <2>1, <2>5, <2>10, <2>a DEF CacheIsBehind, CacheOf, JobBehind
  <2>12. ASSUME NEW i \in jobs', StillLive(i)' PROVE JobBehind(i)'
    <3>1. CASE i = k
      BY <2>1, <2>4, <2>10, <3>1 DEF JobBehind
    <3>2. CASE i # k
      <4>1. JobBehind(i)
        BY <1>0, <2>1, <2>3, <2>12, <3>2 DEF CacheIsBehind, StillLive
      <4> QED
        BY <2>1, <4>1 DEF JobBehind
    <3> QED
      BY <3>1, <3>2
  <2>13. CacheIsBehind' /\ VerifiedIsOnDisk'
    BY <1>0, <2>1, <2>11, <2>12 DEF CacheIsBehind, VerifiedIsOnDisk
  <2> QED
    BY <2>6, <2>7, <2>9, <2>13 DEF StorageInv
<1>2. CASE CheckPiece(j)
  <2> DEFINE z == BlockPiece[j.block]
             found == \A x \in PartsOf(z) : Read(j.object, x) = "good"
  <2>1. /\ j.step = "check"
        /\ UNCHANGED <<capacity, object, life, stopping, opened, written, verified, pages, ondisk, halfRewritten>>
    BY <1>2 DEF CheckPiece
  <2>2. PICK k : k = [j EXCEPT !.step = IF found THEN "passed" ELSE "failed"]
    OBVIOUS
  <2>3. jobs' \subseteq (jobs \ {j}) \cup {k} /\ jobs \subseteq jobs' \cup {j}
    BY <1>2, <2>2 DEF CheckPiece, Replace, Finish
  <2>4. /\ k \in Job /\ k.object = j.object /\ k.block = j.block /\ k.left = j.left
        /\ k.step = IF found THEN "passed" ELSE "failed"
    BY <1>0, <2>2 DEF Job, Checking
  <2>5. j.left = <<>>
    BY <1>0, <2>1 DEF StorageTypes
  <2>6. k.step \in {"passed", "failed"}
    BY <2>4
  <2>7. StorageTypes' /\ TakenIsLeftAlone' /\ OneWriter'
    BY <1>0, <2>1, <2>3, <2>4, <2>5, <2>6, JobMoves DEF Writing, Checking
  <2>8. ASSUME StillLive(j), k.step = "passed", z \notin halfRewritten, NEW x \in PartsOf(z) PROVE ondisk[x] = "good"
    <3>1. Read(object, x) = "good" /\ life = "live" /\ j.object = object /\ CacheOf = object
      BY <2>4, <2>8 DEF StillLive, CacheOf
    <3>2. x \in Parts /\ x[1] \in BlocksOf(z)
      BY <2>8, PartsAre
    <3>3. x[1] \in written
      BY <1>0, <2>1, <3>1, <3>2 DEF OneWriter, Checking
    <3>4. CASE capacity > 0
      <4>1. BlockPiece[x[1]] = z
        BY <3>2, PartsAre
      <4>2. \A i \in jobs : i.object = object /\ i.block = x[1] => i.step \notin Writing
        BY <1>0, <2>1, <3>1, <4>1 DEF OneWriter, Writing
      <4>3. x[1] \in Settled
        BY <2>8, <3>3, <3>4, <4>1, <4>2 DEF Settled
      <4> QED
        BY <1>0, <3>1, <3>2, <4>3 DEF Read, CacheIsBehind
    <3>5. CASE ~(capacity > 0)
      <4>a. capacity \in Nat
        BY <1>0 DEF StorageTypes
      <4>b. capacity = 0
        BY <3>5, <4>a
      <4>1. pages[object][x] = "zero"
        BY <1>0, <3>2, <4>b DEF CacheIsBehind
      <4> QED
        BY <3>1, <4>1 DEF Read
    <3> QED
      BY <3>4, <3>5
  <2>9. ASSUME NEW i \in jobs', StillLive(i)' PROVE JobBehind(i)'
    <3>1. CASE i = k
      <4>1. StillLive(j)
        BY <2>1, <2>4, <2>9, <3>1 DEF StillLive
      <4>2. JobBehind(j)
        BY <1>0, <4>1 DEF CacheIsBehind
      <4>3. k.step \notin {"file", "guard"}
        BY <2>6
      <4> QED
        BY <2>1, <2>4, <2>8, <3>1, <4>1, <4>2, <4>3 DEF JobBehind
    <3>2. CASE i # k
      <4>1. JobBehind(i)
        BY <1>0, <2>1, <2>3, <2>9, <3>2 DEF CacheIsBehind, StillLive
      <4> QED
        BY <2>1, <4>1 DEF JobBehind
    <3> QED
      BY <3>1, <3>2
  <2>a. Settled' \subseteq Settled
    BY <2>1, <2>3, <2>4 DEF Settled, Writing
  <2>10. CacheIsBehind' /\ VerifiedIsOnDisk'
    BY <1>0, <2>1, <2>9, <2>a DEF CacheIsBehind, CacheOf, VerifiedIsOnDisk
  <2> QED
    BY <2>7, <2>10 DEF StorageInv
<1>3. CASE MarkVerdict(j)
  <2>1. /\ j.step \in {"passed", "failed"} /\ j.object = object /\ life = "live" /\ StillLive(j) /\ jobs' = jobs \ {j}
        /\ UNCHANGED <<capacity, object, life, stopping, opened, pages, ondisk, halfRewritten>>
    BY <1>3 DEF MarkVerdict, StillLive, Finish
  <2>2. JobBehind(j) /\ BlocksOf(BlockPiece[j.block]) \subseteq written
    BY <1>0, <2>1 DEF CacheIsBehind, OneWriter, Checking
  <2>3. \A i \in jobs' : i.object = object => BlockPiece[i.block] # BlockPiece[j.block]
    BY <1>0, <2>1 DEF OneWriter
  <2>4. StorageTypes' /\ TakenIsLeftAlone'
    BY <1>0, <2>1 DEF StorageTypes, TakenIsLeftAlone
  <2>a. written' \subseteq written => Settled' \subseteq Settled
    BY <2>1 DEF Settled, Writing
  <2>5. CASE j.step = "passed"
    <3>1. verified' = verified \cup {BlockPiece[j.block]} /\ written' = written
      BY <1>3, <2>5 DEF MarkVerdict
    <3>2. OneWriter'
      BY <1>0, <2>1, <2>2, <2>3, <3>1 DEF OneWriter
    <3>3. VerifiedIsOnDisk'
      BY <1>0, <2>1, <2>2, <2>5, <3>1 DEF VerifiedIsOnDisk, JobBehind
    <3>4. CacheIsBehind'
      BY <1>0, <2>1, <2>a, <3>1 DEF CacheIsBehind, CacheOf, JobBehind, StillLive
    <3> QED
      BY <2>4, <3>2, <3>3, <3>4 DEF StorageInv
  <2>6. CASE j.step = "failed"
    <3>1. verified' = verified /\ written' = written \ BlocksOf(BlockPiece[j.block])
      BY <1>3, <2>6 DEF MarkVerdict
    <3>2. OneWriter'
      <4>1. ASSUME NEW y \in verified PROVE BlocksOf(y) \subseteq written'
        BY <1>0, <2>1, <3>1, <4>1, PartsAre DEF OneWriter
      <4>2. ASSUME NEW i \in jobs', i.object = object, i.step \in Checking
            PROVE  BlocksOf(BlockPiece[i.block]) \subseteq written'
        BY <1>0, <2>1, <2>3, <3>1, <4>2, PartsAre DEF OneWriter
      <4>3. ASSUME NEW i \in jobs', i.object = object, i.step \in Writing
            PROVE  ~(BlocksOf(BlockPiece[i.block]) \subseteq written')
        BY <1>0, <2>1, <3>1, <4>3 DEF OneWriter
      <4> QED
        BY <1>0, <2>1, <3>1, <4>1, <4>2, <4>3 DEF OneWriter
    <3>3. VerifiedIsOnDisk'
      BY <1>0, <2>1, <3>1 DEF VerifiedIsOnDisk
    <3>4. CacheIsBehind'
      BY <1>0, <2>1, <2>a, <3>1 DEF CacheIsBehind, CacheOf, JobBehind, StillLive
    <3> QED
      BY <2>4, <3>2, <3>3, <3>4 DEF StorageInv
  <2> QED
    BY <2>1, <2>5, <2>6
<1>4. CASE Abandon(j)
  <2>1. /\ jobs' = jobs \ {j}
        /\ UNCHANGED <<capacity, object, life, stopping, opened, written, verified, pages, ondisk, halfRewritten>>
    BY <1>4 DEF Abandon, Finish
  <2>a. j.object \in Nat /\ object \in Nat /\ (j.object < object \/ life # "live")
    BY <1>0, <1>4, ObjectsAre DEF Abandon, Stale
  <2>b. ~StillLive(j)
    BY <2>a DEF StillLive
  <2> QED
    BY <2>1, <2>b, JobEnds
<1> QED
  BY <1>1, <1>2, <1>3, <1>4

\* Every step of the storage.
LEMMA StorageStep == StorageInv /\ [StorageNext]_storageVars => StorageInv'
<1> SUFFICES ASSUME StorageInv, [StorageNext]_storageVars PROVE StorageInv'
  OBVIOUS
<1>1. CASE UNCHANGED storageVars
  <2>1. UNCHANGED <<capacity, object, life, stopping, opened, written, verified, pages, ondisk, jobs, halfRewritten>>
    BY <1>1 DEF storageVars, stateVars, tracker, lru, files, faults
  <2>2. StorageTypes'
    BY <2>1 DEF StorageInv, StorageTypes
  <2>3. TakenIsLeftAlone' /\ OneWriter' /\ VerifiedIsOnDisk'
    BY <2>1 DEF StorageInv, TakenIsLeftAlone, OneWriter, VerifiedIsOnDisk
  <2>4. CacheIsBehind'
    BY <2>1, SettledStays DEF StorageInv, CacheIsBehind, CacheOf, JobBehind, StillLive
  <2> QED
    BY <2>2, <2>3, <2>4 DEF StorageInv
<1>2. ASSUME NEW j \in jobs, JobStep(j) PROVE StorageInv'
  BY <1>2, WritingSteps, MarkingSteps DEF JobStep
<1> QED
  BY <1>1, <1>2, OpeningSteps, StoppingSteps, WriteChunkStep DEF StorageNext

\* A piece the chunk tracker records as downloaded is on disk, although check_piece may
\* have read it from the write-through cache and writers of a storage taken by a pause
\* may still be at work: for any chunks, files, cache size and number of pauses, but for the
\* stolen pieces of which a recorded chunk was cached again and could not be written again.
THEOREM VerifiedPiecesAreOnDisk == StorageInit /\ [][StorageNext]_storageVars => []VerifiedIsOnDisk
<1>1. StorageInv => VerifiedIsOnDisk
  BY DEF StorageInv
<1> QED
  BY <1>1, StorageStart, StorageStep, PTL

\* A piece that a cache holds, and the pages of it.
Fresh(o, x) == BlockPiece[x[1]] \in ToSet(cached[o]) /\ (ondisk[x] = "good" => pages[o][x] = "good")

\* Every unverified piece of which a chunk has been written, and is not being written
\* again, is in the cache, and what is good on disk is good there.
CacheIsFresh ==
  life \notin {"opening", "error"} =>
    \A x \in Parts : x[1] \in Settled /\ BlockPiece[x[1]] \notin verified => Fresh(CacheOf, x)

\* The same holds of what a call has written so far; and what it is about to write is
\* already in the cache.
JobAhead(j) ==
  /\ \A x \in Parts : x[1] = j.block /\ x[2] \notin ToSet(j.left) => Fresh(object, x)
  /\ j.step \in {"file", "guard"} =>
       /\ BlockPiece[j.block] \in ToSet(cached[object])
       /\ \A x \in Parts : x = <<j.block, Head(j.left)>> => pages[object][x] = Value(j)

CacheHolds ==
  /\ cached \in [Objects -> Seq(AllPiecesOf(Blocks))]
  /\ capacity = 0 => \A o \in Objects : cached[o] = <<>>
  /\ Len(cached[CacheOf]) <= capacity

AheadInv ==
  /\ CacheHolds
  /\ capacity > 0 /\ "evicted" \notin storageFaults => CacheIsFresh /\ \A j \in jobs : StillLive(j) => JobAhead(j)
  /\ GoodDataPasses

\* A set of numbers that is not empty has a least one.
LEMMA LeastOne ==
  ASSUME NEW S \in SUBSET Nat, S # {}
  PROVE  Min(S) \in S
<1>1. PICK x \in S : \A y \in S : ~(<<y, x>> \in OpToRel(<, Nat))
  BY NatLessThanWellFounded, WFMin
<1>2. ASSUME NEW y \in S PROVE x <= y
  <2>1. <<y, x>> \notin {p \in Nat \X Nat : p[1] < p[2]}
    BY <1>1, Zenon DEF OpToRel
  <2> QED
    BY <2>1
<1> QED
  BY <1>2 DEF Min

\* What is left of a sequence after an element was taken out of it.
LEMMA Without ==
  ASSUME NEW S, NEW s \in Seq(S), NEW z
  PROVE  /\ RemoveFirst(s, z) \in Seq(S)
         /\ ToSet(s) \subseteq ToSet(RemoveFirst(s, z)) \cup {z}
         /\ Len(RemoveFirst(s, z)) = IF z \in ToSet(s) THEN Len(s) - 1 ELSE Len(s)
<1>1. CASE z \notin ToSet(s)
  <2>1. RemoveFirst(s, z) = s
    BY <1>1 DEF RemoveFirst, ToSet
  <2> QED
    BY <1>1, <2>1
<1>2. CASE z \in ToSet(s)
  <2>1. PICK I : I = {i \in 1..Len(s) : s[i] = z}
    OBVIOUS
  <2>2. I # {} /\ I \in SUBSET Nat
    BY <1>2, <2>1 DEF ToSet
  <2>3. PICK i : i = Min(I)
    OBVIOUS
  <2>4. i \in 1..Len(s) /\ s[i] = z
    BY <2>1, <2>2, <2>3, LeastOne
  <2>5. RemoveFirst(s, z) = RemoveAt(s, i)
    <3>1. SelectInSeq(s, LAMBDA v : v = z) = i
      BY <2>1, <2>2, <2>3 DEF SelectInSeq
    <3> QED
      BY <1>2, <2>4, <3>1 DEF RemoveFirst
  <2>6. PICK t : t = SubSeq(s, 1, i - 1)
    OBVIOUS
  <2>7. t \in Seq(S) /\ Len(t) = i - 1 /\ \A j \in 1..(i - 1) : t[j] = s[j]
    BY <2>4, <2>6
  <2>8. PICK u : u = SubSeq(s, i + 1, Len(s))
    OBVIOUS
  <2>9. u \in Seq(S) /\ Len(u) = Len(s) - i /\ \A j \in 1..(Len(s) - i) : u[j] = s[i + j]
    BY <2>4, <2>8
  <2>10. RemoveAt(s, i) = t \o u
    BY <2>6, <2>8 DEF RemoveAt
  <2>11. t \o u \in Seq(S) /\ Len(t \o u) = Len(s) - 1
    BY <2>4, <2>7, <2>9
  <2>12. /\ \A j \in 1..(i - 1) : (t \o u)[j] = s[j]
         /\ \A j \in (i + 1)..Len(s) : (t \o u)[j - 1] = s[j]
    <3>1. \A j \in 1..(Len(t) + Len(u)) : (t \o u)[j] = IF j <= Len(t) THEN t[j] ELSE u[j - Len(t)]
      BY <2>7, <2>9, ConcatProperties
    <3>2. ASSUME NEW j \in 1..(i - 1) PROVE (t \o u)[j] = s[j]
      BY <2>4, <2>7, <2>9, <3>1
    <3>3. ASSUME NEW j \in (i + 1)..Len(s) PROVE (t \o u)[j - 1] = s[j]
      <4>1. j - 1 \in 1..(Len(t) + Len(u)) /\ ~(j - 1 <= Len(t)) /\ j - 1 - Len(t) = j - i /\ j - i \in 1..(Len(s) - i)
        BY <2>4, <2>7, <2>9
      <4>2. (t \o u)[j - 1] = u[j - i]
        BY <3>1, <4>1
      <4>3. i + (j - i) = j
        BY <2>4
      <4> QED
        BY <2>9, <4>1, <4>2, <4>3
    <3> QED
      BY <3>2, <3>3
  <2>13. ASSUME NEW j \in 1..Len(s), j # i PROVE s[j] \in ToSet(t \o u)
    <3>1. DOMAIN (t \o u) = 1..(Len(s) - 1)
      BY <2>11
    <3>2. CASE j < i
      <4>1. j \in 1..(i - 1) /\ j \in 1..(Len(s) - 1)
        BY <2>4, <3>2
      <4> QED
        BY <2>12, <3>1, <4>1 DEF ToSet
    <3>3. CASE j > i
      <4>1. j \in (i + 1)..Len(s) /\ j - 1 \in 1..(Len(s) - 1)
        BY <2>4, <3>3
      <4> QED
        BY <2>12, <3>1, <4>1 DEF ToSet
    <3> QED
      BY <2>4, <2>13, <3>2, <3>3
  <2>14. ToSet(s) \subseteq ToSet(t \o u) \cup {z}
    BY <2>4, <2>13 DEF ToSet
  <2> QED
    BY <1>2, <2>5, <2>10, <2>11, <2>14
<1> QED
  BY <1>1, <1>2

\* A piece that was touched is in the cache; no other one leaves when it was there before.
LEMMA TouchedHolds ==
  ASSUME NEW S, NEW o, cached[o] \in Seq(S), NEW z \in S, Capacity(o) \in Nat \ {0}
  PROVE  /\ Touched(o, z) \in Seq(S) /\ z \in ToSet(Touched(o, z)) /\ Len(Touched(o, z)) <= Capacity(o)
         /\ z \in ToSet(cached[o]) /\ Len(cached[o]) <= Capacity(o) => ToSet(cached[o]) \subseteq ToSet(Touched(o, z))
<1>1. PICK s, n : s = RemoveFirst(cached[o], z) /\ n = Capacity(o) - 1
  OBVIOUS
<1>2. /\ s \in Seq(S) /\ n \in Nat /\ n + 1 = Capacity(o) /\ ToSet(cached[o]) \subseteq ToSet(s) \cup {z}
      /\ z \in ToSet(cached[o]) => Len(s) = Len(cached[o]) - 1
  BY <1>1, Without
<1>3. PICK t : t = IF Len(s) > n THEN SubSeq(s, Len(s) - n + 1, Len(s)) ELSE s
  OBVIOUS
<1>4. t \in Seq(S) /\ Len(t) <= n /\ (Len(s) <= n => t = s)
  <2>1. CASE Len(s) > n
    BY <1>2, <1>3, <2>1
  <2>2. CASE ~(Len(s) > n)
    BY <1>2, <1>3, <2>2
  <2> QED
    BY <2>1, <2>2
<1>5. Touched(o, z) = t \o <<z>>
  BY <1>1, <1>3 DEF Touched
<1>6. t \o <<z>> = Append(t, z)
  BY <1>4
<1>7. Touched(o, z) \in Seq(S) /\ Len(Touched(o, z)) = Len(t) + 1 /\ ToSet(Touched(o, z)) = ToSet(t) \cup {z}
  <2>1. Append(t, z) \in Seq(S) /\ Len(Append(t, z)) = Len(t) + 1 /\ ToSet(Append(t, z)) = ToSet(t) \cup {z}
    BY <1>4, Appended
  <2> QED
    BY <1>5, <1>6, <2>1, Zenon
<1>8. ASSUME z \in ToSet(cached[o]), Len(cached[o]) <= Capacity(o) PROVE t = s
  <2>1. Len(s) <= n
    BY <1>2, <1>8
  <2> QED
    BY <1>4, <2>1
<1> QED
  BY <1>2, <1>4, <1>7, <1>8

\* A step of a call: what is to be shown is what it does to its own chunk.
LEMMA AheadMoves ==
  ASSUME StorageInv, AheadInv, NEW j \in jobs, NEW k, jobs' \subseteq (jobs \ {j}) \cup {k},
         UNCHANGED <<capacity, object, life>>, storageFaults \subseteq storageFaults', verified \subseteq verified',
         Settled' \subseteq Settled \cup {j.block}, halfRewritten \subseteq halfRewritten', CacheHolds',
         \A x \in Parts : ondisk'[x] # ondisk[x] => j.object = object /\ x[1] = j.block,
         \A i \in jobs \ {j} : StillLive(i) /\ i.step \in {"file", "guard"} =>
           cached'[object] = cached[object] /\ pages'[object] = pages[object],
         capacity > 0 /\ "evicted" \notin storageFaults' =>
           /\ \A x \in Parts : /\ BlockPiece[x[1]] \notin verified /\ Fresh(CacheOf, x)
                               /\ j.object = object /\ x[1] = j.block => j.block \in Settled
                               => Fresh(CacheOf, x)'
           /\ j.block \in Settled' \ Settled => \A x \in Parts : x[1] = j.block => Fresh(CacheOf, x)'
           /\ k \in jobs' /\ StillLive(k)' => JobAhead(k)',
         k \in jobs' /\ k.step = "failed" /\ StillLive(k)' /\ "evicted" \notin storageFaults'
           /\ BlockPiece[k.block] \notin halfRewritten' =>
           \E x \in PartsOf(BlockPiece[k.block]) : ondisk'[x] # "good"
  PROVE  AheadInv'
<1>0. OneWriter /\ CacheHolds /\ GoodDataPasses
  BY DEF StorageInv, AheadInv
<1>1. ASSUME NEW i \in jobs', i # k, StillLive(i)'
      PROVE  /\ i \in jobs \ {j} /\ StillLive(i) /\ CacheOf = object /\ CacheOf' = object /\ BlockPiece[i.block] \notin verified
             /\ j.object = object => BlockPiece[i.block] # BlockPiece[j.block] /\ i.block # j.block
  <2>1. i \in jobs \ {j} /\ StillLive(i) /\ CacheOf = object /\ CacheOf' = object /\ i.object = object
    BY <1>1 DEF StillLive, CacheOf
  <2>2. BlockPiece[i.block] \notin verified /\ (j.object = object => BlockPiece[i.block] # BlockPiece[j.block])
    BY <1>0, <2>1 DEF OneWriter
  <2> QED
    BY <2>1, <2>2
<1>2. ASSUME capacity > 0, "evicted" \notin storageFaults'
      PROVE  CacheIsFresh' /\ \A i \in jobs' : StillLive(i)' => JobAhead(i)'
  <2>1. "evicted" \notin storageFaults /\ CacheIsFresh /\ \A i \in jobs : StillLive(i) => JobAhead(i)
    BY <1>2 DEF AheadInv
  <2>2. CacheIsFresh'
    <3> SUFFICES ASSUME life \notin {"opening", "error"}, NEW x \in Parts, x[1] \in Settled', BlockPiece[x[1]] \notin verified'
                 PROVE  Fresh(CacheOf, x)'
      BY DEF CacheIsFresh
    <3>1. CASE x[1] \in Settled
      <4>1. Fresh(CacheOf, x) /\ BlockPiece[x[1]] \notin verified
        BY <2>1, <3>1 DEF CacheIsFresh
      <4> QED
        BY <1>2, <3>1, <4>1
    <3>2. CASE x[1] \notin Settled
      BY <1>2, <3>2
    <3> QED
      BY <3>1, <3>2
  <2>3. ASSUME NEW i \in jobs', StillLive(i)', i # k PROVE JobAhead(i)'
    <3>1. /\ i \in jobs \ {j} /\ StillLive(i) /\ CacheOf = object /\ CacheOf' = object /\ BlockPiece[i.block] \notin verified
          /\ j.object = object => i.block # j.block
      BY <1>1, <2>3
    <3>2. JobAhead(i)
      BY <2>1, <3>1
    <3>3. ASSUME NEW x \in Parts, x[1] = i.block, x[2] \notin ToSet(i.left) PROVE Fresh(object, x)'
      <4>1. Fresh(CacheOf, x)
        BY <3>1, <3>2, <3>3 DEF JobAhead
      <4>2. Fresh(CacheOf, x)'
        BY <1>2, <3>1, <3>3, <4>1
      <4> QED
        BY <3>1, <4>2 DEF Fresh
    <3>4. i.step \in {"file", "guard"} =>
            /\ BlockPiece[i.block] \in ToSet(cached'[object])
            /\ \A x \in Parts : x = <<i.block, Head(i.left)>> => pages'[object][x] = Value(i)
      BY <3>1, <3>2 DEF JobAhead
    <3> QED
      BY <3>3, <3>4 DEF JobAhead, Value
  <2> QED
    BY <1>2, <2>2, <2>3
<1>3. GoodDataPasses'
  <2> SUFFICES ASSUME NEW i \in jobs', i.step = "failed", StillLive(i)', "evicted" \notin storageFaults',
                      BlockPiece[i.block] \notin halfRewritten', i # k
               PROVE  \E x \in PartsOf(BlockPiece[i.block]) : ondisk'[x] # "good"
    BY DEF GoodDataPasses
  <2>1. i \in jobs \ {j} /\ StillLive(i) /\ (j.object = object => BlockPiece[i.block] # BlockPiece[j.block])
    BY <1>1
  <2>2. PICK x \in PartsOf(BlockPiece[i.block]) : ondisk[x] # "good"
    BY <1>0, <2>1 DEF GoodDataPasses
  <2>3. x \in Parts /\ BlockPiece[x[1]] = BlockPiece[i.block]
    BY <2>2, PartsAre
  <2>4. ondisk'[x] = ondisk[x]
    BY <2>1, <2>3
  <2> QED
    BY <2>2, <2>4
<1> QED
  BY <1>2, <1>3 DEF AheadInv

\* Opening the files, and the torrent becoming live.
LEMMA AheadOpening ==
  ASSUME StorageInv, AheadInv,
         \/ \E f \in RealFiles : OpenFile(f) \/ OpenFails(f)
         \/ Initialized \/ GoLive \/ CreateAgain
  PROVE  AheadInv'
<1> USE DEF stateVars, tracker, lru, files, faults
<1>0. CacheHolds
  BY DEF AheadInv
<1>1. /\ UNCHANGED <<capacity, object, cached, pages, ondisk, jobs, storageFaults, halfRewritten>>
      /\ life \in {"opening", "error", "paused"}
      /\ \/ life' \in {"opening", "error"}
         \/ life' = "paused" /\ written' = UNION {BlocksOf(z) : z \in verified'}
         \/ life = "paused" /\ life' = "live" /\ UNCHANGED <<written, verified>>
  BY DEF OpenFile, OpenFails, Initialized, GoLive, CreateAgain
<1>2. CacheOf = object /\ CacheOf' = object
  BY <1>1 DEF CacheOf
<1>3. \A j \in jobs : ~StillLive(j)'
  BY <1>1 DEF StorageInv, TakenIsLeftAlone, StillLive
<1>4. CacheHolds'
  BY <1>0, <1>1, <1>2 DEF CacheHolds
<1>5. GoodDataPasses'
  BY <1>1, <1>3 DEF GoodDataPasses
<1>6. ASSUME capacity > 0, "evicted" \notin storageFaults PROVE CacheIsFresh'
  <2>1. CASE life' \in {"opening", "error"}
    BY <2>1 DEF CacheIsFresh
  <2>2. CASE life' = "paused" /\ written' = UNION {BlocksOf(z) : z \in verified'}
    <3>1. \A x \in Parts : x[1] \in Settled' => BlockPiece[x[1]] \in verified'
      BY <2>2, PartsAre DEF Settled
    <3> QED
      BY <3>1 DEF CacheIsFresh
  <2>3. CASE life = "paused" /\ life' = "live" /\ UNCHANGED <<written, verified>>
    <3>1. CacheIsFresh
      BY <1>6 DEF AheadInv
    <3> QED
      BY <1>1, <1>2, <2>3, <3>1, SettledStays DEF CacheIsFresh, Fresh
  <2> QED
    BY <1>1, <2>1, <2>2, <2>3
<1> QED
  BY <1>1, <1>3, <1>4, <1>5, <1>6 DEF AheadInv

\* Stopping: the pages go with the cache.
LEMMA AheadStopping ==
  ASSUME StorageInv, AheadInv, Pause \/ TakeCache \/ Taken \/ \E f \in RealFiles : TakeClone(f)
  PROVE  AheadInv'
<1> USE DEF stateVars, tracker, lru, files, faults
<1>0. /\ CacheHolds /\ object \in Objects /\ object \in Nat /\ capacity \in Nat /\ stopping \in {"paused", "error"}
      /\ life \in {"taking cache", "taking"} => object + 1 \in Objects
      /\ cached \in [Objects -> Seq(AllPiecesOf(Blocks))] /\ <<>> \in Seq(AllPiecesOf(Blocks)) /\ Len(<<>>) = 0
  <2>1. StorageTypes /\ CacheHolds
    BY DEF AheadInv, StorageInv
  <2>2. object \in Objects /\ capacity \in Nat /\ stopping \in {"paused", "error"}
        /\ (life \in {"taking cache", "taking"} => object + 1 \in Objects) /\ pages \in [Objects -> [Parts -> Content]]
    BY <2>1 DEF StorageTypes
  <2>3. object \in Nat
    BY <2>2, ObjectsAre
  <2>4. cached \in [Objects -> Seq(AllPiecesOf(Blocks))]
    BY <2>1 DEF CacheHolds
  <2> QED
    BY <2>1, <2>2, <2>3, <2>4, QueueHolds
<1>p. pages \in [Objects -> [Parts -> Content]]
  BY DEF StorageInv, StorageTypes
<1>1. ASSUME CacheHolds', life' # "live", UNCHANGED <<capacity, storageFaults>>,
             capacity > 0 /\ CacheIsFresh => CacheIsFresh'
      PROVE  AheadInv'
  <2>1. \A j \in jobs' : ~StillLive(j)'
    BY <1>1 DEF StillLive
  <2>2. GoodDataPasses'
    BY <2>1 DEF GoodDataPasses
  <2> QED
    BY <1>1, <2>1, <2>2 DEF AheadInv
<1>2. CASE Pause
  <2>1. /\ life = "live" /\ life' = (IF capacity > 0 THEN "taking cache" ELSE "taking") /\ object < MaxObjects
        /\ Settled' \subseteq Settled /\ UNCHANGED <<capacity, object, verified, cached, pages, ondisk, storageFaults>>
    BY <1>2 DEF Pause, KeptBlocks, Settled
  <2>2. CacheOf = object /\ (capacity > 0 => CacheOf' = object) /\ (~(capacity > 0) => CacheOf' = object + 1)
    BY <2>1 DEF CacheOf
  <2>3. CacheHolds'
    <3>1. CASE capacity > 0
      BY <1>0, <2>1, <2>2, <3>1 DEF CacheHolds
    <3>2. CASE ~(capacity > 0)
      <4>1. object + 1 \in Objects /\ capacity = 0
        BY <1>0, <2>1, <3>2, StorageAssumption DEF Objects
      <4>2. Len(cached[object + 1]) = 0
        BY <1>0, <4>1, QueueHolds DEF CacheHolds
      <4> QED
        BY <1>0, <2>1, <2>2, <3>2, <4>1, <4>2 DEF CacheHolds
    <3> QED
      BY <3>1, <3>2
  <2>4. capacity > 0 /\ CacheIsFresh => CacheIsFresh'
    BY <2>1, <2>2 DEF CacheIsFresh, Fresh
  <2> QED
    BY <1>1, <2>1, <2>3, <2>4
<1>3. CASE TakeCache
  <2>1. /\ life = "taking cache" /\ life' = "taking"
        /\ cached' = [cached EXCEPT ![object + 1] = cached[object], ![object] = <<>>]
        /\ pages' = [pages EXCEPT ![object + 1] = pages[object], ![object] = [x \in Parts |-> "zero"]]
        /\ UNCHANGED <<capacity, object, written, verified, ondisk, storageFaults, jobs, halfRewritten>>
    BY <1>3 DEF TakeCache
  <2>b. object # object + 1
    BY <1>0, ObjectsAre
  <2>2. object + 1 \in Objects /\ object # object + 1 /\ CacheOf = object /\ CacheOf' = object + 1
    BY <1>0, <2>1, <2>b DEF CacheOf
  <2>3. cached'[object + 1] = cached[object] /\ pages'[object + 1] = pages[object]
    BY <1>0, <1>p, <2>1, <2>2
  <2>a. cached[object] \in Seq(AllPiecesOf(Blocks))
    BY <1>0
  <2>4. /\ cached' \in [Objects -> Seq(AllPiecesOf(Blocks))]
        /\ \A o \in Objects : cached'[o] \in {cached[o], cached[object], <<>>}
    BY <1>0, <2>1, <2>2, <2>a
  <2>5. CacheHolds'
    BY <1>0, <2>1, <2>2, <2>3, <2>4 DEF CacheHolds
  <2>6. CacheIsFresh => CacheIsFresh'
    BY <2>1, <2>2, <2>3, SettledStays DEF CacheIsFresh, Fresh
  <2> QED
    BY <1>1, <2>1, <2>5, <2>6
<1>4. CASE Taken
  <2>1. /\ life = "taking" /\ life' = stopping /\ object' = object + 1
        /\ IF stopping = "paused" THEN UNCHANGED <<cached, pages>>
           ELSE cached' = [cached EXCEPT ![object + 1] = <<>>]
        /\ UNCHANGED <<capacity, written, verified, ondisk, storageFaults, jobs, halfRewritten>>
    BY <1>4 DEF Taken
  <2>a. Settled' \subseteq Settled
    <3> SUFFICES ASSUME NEW b \in written, NEW j \in jobs, j.object = object, j.step \in Writing, j.block = b
                 PROVE  FALSE
      BY <2>1 DEF Settled
    <3> QED
      BY <2>1 DEF StorageInv, OneWriter
  <2>2. object + 1 \in Objects /\ CacheOf = object + 1 /\ CacheOf' = object + 1 /\ life' \in {"paused", "error"}
    BY <1>0, <2>1 DEF CacheOf
  <2>3. CASE stopping = "paused"
    <3>1. CacheHolds'
      BY <1>0, <2>1, <2>2, <2>3 DEF CacheHolds
    <3>2. CacheIsFresh => CacheIsFresh'
      BY <2>1, <2>2, <2>3, <2>a DEF CacheIsFresh, Fresh
    <3> QED
      BY <1>1, <2>1, <2>2, <3>1, <3>2
  <2>4. CASE stopping # "paused"
    <3>1. /\ cached' \in [Objects -> Seq(AllPiecesOf(Blocks))] /\ Len(cached'[object + 1]) = 0
          /\ \A o \in Objects : cached'[o] \in {cached[o], <<>>}
      <4>1. cached' = [cached EXCEPT ![object + 1] = <<>>]
        BY <2>1, <2>4
      <4>2. cached' \in [Objects -> Seq(AllPiecesOf(Blocks))] /\ cached'[object + 1] = <<>>
            /\ \A o \in Objects : cached'[o] \in {cached[o], <<>>}
        BY <1>0, <2>2, <4>1
      <4> QED
        BY <1>0, <4>2
    <3>2. CacheHolds'
      BY <1>0, <2>1, <2>2, <3>1 DEF CacheHolds
    <3>3. CacheIsFresh'
      BY <1>0, <2>1, <2>4 DEF CacheIsFresh
    <3> QED
      BY <1>1, <2>1, <2>2, <3>2, <3>3
  <2> QED
    BY <2>3, <2>4
<1>5. ASSUME NEW f \in RealFiles, TakeClone(f) PROVE AheadInv'
  <2>1. /\ life = "taking"
        /\ UNCHANGED <<capacity, object, life, written, verified, cached, pages, ondisk, storageFaults, jobs, halfRewritten>>
    BY <1>5 DEF TakeClone, Taking
  <2>2. CacheHolds' /\ (CacheIsFresh => CacheIsFresh')
    BY <1>0, <2>1, SettledStays DEF CacheHolds, CacheOf, CacheIsFresh, Fresh
  <2> QED
    BY <1>1, <2>1, <2>2
<1> QED
  BY <1>2, <1>3, <1>4, <1>5


\* A new call of write_to_disk has written nothing yet.
LEMMA AheadWriteChunk ==
  ASSUME StorageInv, AheadInv, NEW b \in Blocks, NEW good \in BOOLEAN, WriteChunk(b, good)
  PROVE  AheadInv'
<1> USE DEF stateVars, tracker, lru, files, faults
<1>1. PICK new : /\ new = [object |-> object, block |-> b, left |-> OnDisk(Span[b]), good |-> good,
                           step |-> IF OnDisk(Span[b]) = <<>> THEN "mark" ELSE FirstStep]
                 /\ jobs' = jobs \cup {new}
  BY DEF WriteChunk
<1>2. UNCHANGED <<capacity, object, life, written, verified, cached, pages, ondisk, storageFaults, halfRewritten>>
  BY DEF WriteChunk
<1>3. /\ new.block = b /\ new.left = OnDisk(Span[b]) /\ new.step \in {"mark", "cache", "file"}
      /\ capacity > 0 => new.step # "file"
  BY <1>1 DEF FirstStep
<1>4. CacheHolds' /\ CacheOf' = CacheOf
  BY <1>2 DEF AheadInv, CacheHolds, CacheOf
<1>5. GoodDataPasses'
  BY <1>1, <1>2, <1>3 DEF AheadInv, GoodDataPasses, StillLive
<1>6. ASSUME capacity > 0, "evicted" \notin storageFaults
      PROVE  CacheIsFresh' /\ \A i \in jobs' : StillLive(i)' => JobAhead(i)'
  <2>1. CacheIsFresh /\ \A i \in jobs : StillLive(i) => JobAhead(i)
    BY <1>6 DEF AheadInv
  <2>2. CacheIsFresh'
    <3>1. Settled' \subseteq Settled
      BY <1>1, <1>2 DEF Settled
    <3> QED
      BY <1>2, <1>4, <2>1, <3>1 DEF CacheIsFresh, Fresh
  <2>3. ASSUME NEW i \in jobs, StillLive(i)' PROVE JobAhead(i)'
    <3>1. JobAhead(i)
      BY <1>2, <2>1, <2>3 DEF StillLive
    <3> QED
      BY <1>2, <3>1 DEF JobAhead, Fresh, Value
  <2>4. JobAhead(new)'
    <3>1. \A x \in Parts : x[1] = b => x[2] \in ToSet(new.left)
      BY <1>3, PartsAre
    <3> QED
      BY <1>3, <1>6, <3>1 DEF JobAhead
  <2> QED
    BY <1>1, <2>2, <2>3, <2>4
<1> QED
  BY <1>2, <1>4, <1>5, <1>6 DEF AheadInv

\* What the steps of a call have in common.
LEMMA AheadFacts ==
  ASSUME StorageInv, AheadInv, NEW j \in jobs
  PROVE  /\ j \in Job /\ object \in Objects /\ j.object \in Objects /\ j.block \in Blocks /\ capacity \in Nat
         /\ BlockPiece[j.block] \in AllPiecesOf(Blocks)
         /\ pages \in [Objects -> [Parts -> Content]] /\ ondisk \in [Parts -> Content]
         /\ cached \in [Objects -> Seq(AllPiecesOf(Blocks))] /\ CacheOf \in Objects
         /\ j.object = CacheOf => j.object = object /\ life # "taking" /\ Capacity(j.object) = capacity
         /\ capacity > 0 => Capacity(j.object) \in Nat \ {0}
         /\ StillLive(j) => j.object = object /\ CacheOf = object /\ life = "live"
<1>1. StorageTypes /\ TakenIsLeftAlone /\ CacheHolds
  BY DEF StorageInv, AheadInv
<1>2. j \in Job /\ object \in Objects /\ capacity \in Nat
  BY <1>1 DEF StorageTypes
<1>3. j.object \in Objects /\ j.block \in Blocks /\ j.object <= object
  BY <1>1, <1>2 DEF Job, TakenIsLeftAlone
<1>4. BlockPiece[j.block] \in AllPiecesOf(Blocks)
  BY <1>3 DEF AllPiecesOf
<1>5. pages \in [Objects -> [Parts -> Content]] /\ ondisk \in [Parts -> Content] /\ CacheOf \in Objects
  BY <1>1 DEF StorageTypes, CacheOf
<1>6. cached \in [Objects -> Seq(AllPiecesOf(Blocks))]
  BY <1>1 DEF CacheHolds
<1>7. j.object # object + 1
  <2>1. object \in Nat /\ j.object \in Nat
    BY <1>2, <1>3, ObjectsAre
  <2> QED
    BY <1>3, <2>1
<1>8. j.object = CacheOf => j.object = object /\ life # "taking" /\ Capacity(j.object) = capacity
  BY <1>7 DEF CacheOf, Capacity
<1>9. capacity > 0 => Capacity(j.object) \in Nat \ {0}
  BY <1>2 DEF Capacity
<1>10. StillLive(j) => j.object = object /\ CacheOf = object /\ life = "live"
  BY DEF StillLive, CacheOf
<1> QED
  BY <1>2, <1>3, <1>4, <1>5, <1>6, <1>8, <1>9, <1>10

\* A call that ends, whatever became of its chunk.
LEMMA AheadEnds ==
  ASSUME StorageInv, AheadInv, NEW j \in jobs, jobs' = jobs \ {j}, verified \subseteq verified',
         Settled' \subseteq Settled, halfRewritten \subseteq halfRewritten',
         UNCHANGED <<capacity, object, life, cached, pages, storageFaults>>,
         \A x \in Parts : ondisk'[x] # ondisk[x] => j.object = object /\ x[1] = j.block /\ j.block \notin Settled
  PROVE  AheadInv'
<1>1. CacheHolds' /\ CacheOf' = CacheOf
  BY DEF AheadInv, CacheHolds, CacheOf
<1>2. j \notin jobs'
  OBVIOUS
<1>3. ASSUME NEW x \in Parts, Fresh(CacheOf, x), j.object = object /\ x[1] = j.block => j.block \in Settled
      PROVE  Fresh(CacheOf, x)'
  BY <1>1, <1>3 DEF Fresh
<1> QED
  BY <1>1, <1>2, <1>3, AheadMoves


\* The chunk is put into the cache.
LEMMA AheadCachePut ==
  ASSUME StorageInv, AheadInv, NEW j \in jobs, CachePut(j)
  PROVE  AheadInv'
<1> USE DEF stateVars, tracker, lru, files, faults
<1>0. /\ j \in Job /\ object \in Objects /\ j.object \in Objects /\ j.block \in Blocks /\ capacity \in Nat
      /\ BlockPiece[j.block] \in AllPiecesOf(Blocks)
      /\ pages \in [Objects -> [Parts -> Content]]
      /\ cached \in [Objects -> Seq(AllPiecesOf(Blocks))] /\ CacheOf \in Objects
      /\ j.object = CacheOf => j.object = object /\ life # "taking" /\ Capacity(j.object) = capacity
      /\ capacity > 0 => Capacity(j.object) \in Nat \ {0}
      /\ StillLive(j) => j.object = object /\ CacheOf = object /\ life = "live"
  BY AheadFacts
<1>1. StorageTypes /\ OneWriter /\ CacheHolds
  BY DEF StorageInv, AheadInv
<1>2. PICK k : k = [j EXCEPT !.step = "file"] /\ jobs' = (jobs \ {j}) \cup {k}
  BY DEF CachePut, CachePutting, Replace
<1>3. PICK now : now = Touched(j.object, BlockPiece[j.block])
  OBVIOUS
<1>4. /\ j.step = "cache" /\ CacheFree(j.object)
      /\ UNCHANGED <<capacity, object, life, written, verified, ondisk, halfRewritten>>
      /\ storageFaults \subseteq storageFaults'
      /\ "evicted" \notin storageFaults' => (ToSet(cached[j.object]) \ ToSet(now)) \ verified = {}
  BY <1>3 DEF CachePut, CachePutting
<1>5. /\ cached' = [cached EXCEPT ![j.object] = now]
      /\ pages' = [pages EXCEPT ![j.object] =
             [x \in Parts |->
               IF x = <<j.block, Head(j.left)>> THEN Value(j)
               ELSE IF BlockPiece[x[1]] \in ToSet(now) THEN pages[j.object][x] ELSE "zero"]]
  BY <1>3 DEF CachePut, CachePutting
<1>6. /\ k.object = j.object /\ k.block = j.block /\ k.left = j.left /\ k.good = j.good /\ k.step = "file"
  BY <1>0, <1>2 DEF Job
<1>7. j.left # <<>> /\ capacity > 0 /\ Head(j.left) \in ToSet(j.left) /\ (j.object = object => j.block \notin Settled)
  <2>1. j.left # <<>> /\ capacity > 0
    BY <1>1, <1>4 DEF StorageTypes
  <2>2. Head(j.left) \in ToSet(j.left)
    BY <1>0, <2>1, TakenOut DEF Job
  <2>3. j.object = object => j.block \notin Settled
    BY <1>4 DEF Settled, Writing
  <2> QED
    BY <2>1, <2>2, <2>3
<1>8. now \in Seq(AllPiecesOf(Blocks)) /\ BlockPiece[j.block] \in ToSet(now) /\ Len(now) <= Capacity(j.object)
  <2>1. cached[j.object] \in Seq(AllPiecesOf(Blocks)) /\ Capacity(j.object) \in Nat \ {0}
    BY <1>0, <1>7
  <2> QED
    BY <1>0, <1>3, <2>1, TouchedHolds
<1>9. /\ cached' \in [Objects -> Seq(AllPiecesOf(Blocks))] /\ cached'[j.object] = now
      /\ \A o \in Objects : o # j.object => cached'[o] = cached[o]
  BY <1>0, <1>5, <1>8
<1>10. /\ \A o \in Objects : o # j.object => pages'[o] = pages[o]
       /\ \A x \in Parts : x # <<j.block, Head(j.left)>> /\ BlockPiece[x[1]] \in ToSet(now) => pages'[j.object][x] = pages[j.object][x]
       /\ \A x \in Parts : x = <<j.block, Head(j.left)>> => pages'[j.object][x] = Value(j)
  BY <1>0, <1>5
<1>11. CacheOf' = CacheOf
  BY <1>4 DEF CacheOf
<1>12. CacheHolds'
  <2>1. Len(cached'[CacheOf]) <= capacity
    <3>1. CASE j.object = CacheOf
      BY <1>0, <1>8, <1>9, <3>1
    <3>2. CASE j.object # CacheOf
      BY <1>0, <1>1, <1>9, <3>2 DEF CacheHolds
    <3> QED
      BY <3>1, <3>2
  <2> QED
    BY <1>0, <1>4, <1>7, <1>9, <1>11, <2>1 DEF CacheHolds
<1>13. ASSUME NEW i \in jobs \ {j}, StillLive(i), i.step \in {"file", "guard"}
       PROVE  cached'[object] = cached[object] /\ pages'[object] = pages[object]
  <2>1. j.object # object
    BY <1>0, <1>4, <1>7, <1>13 DEF CacheFree, StillLive
  <2> QED
    BY <1>0, <1>9, <1>10, <2>1
<1>14. ASSUME "evicted" \notin storageFaults', NEW x \in Parts, BlockPiece[x[1]] \notin verified, Fresh(CacheOf, x),
              j.object = object /\ x[1] = j.block => j.block \in Settled
       PROVE  Fresh(CacheOf, x)'
  <2>1. CASE j.object = CacheOf
    <3>1. x # <<j.block, Head(j.left)>>
      <4>1. j.object = object
        BY <1>0, <2>1
      <4>2. x[1] # j.block
        BY <1>7, <1>14, <4>1
      <4> QED
        BY <4>2
    <3>2. BlockPiece[x[1]] \in ToSet(now)
      BY <1>4, <1>14, <2>1 DEF Fresh
    <3>3. pages'[CacheOf][x] = pages[CacheOf][x] /\ cached'[CacheOf] = now
      BY <1>9, <1>10, <2>1, <3>1, <3>2
    <3> QED
      BY <1>4, <1>11, <1>14, <3>2, <3>3 DEF Fresh
  <2>2. CASE j.object # CacheOf
    <3>1. pages'[CacheOf] = pages[CacheOf] /\ cached'[CacheOf] = cached[CacheOf]
      BY <1>0, <1>9, <1>10, <2>2
    <3> QED
      BY <1>4, <1>11, <1>14, <3>1 DEF Fresh
  <2> QED
    BY <2>1, <2>2
<1>15. ASSUME "evicted" \notin storageFaults', StillLive(k)' PROVE JobAhead(k)'
  <2>1. StillLive(j) /\ j.object = object
    BY <1>4, <1>6, <1>15 DEF StillLive
  <2>2. JobAhead(j)
    BY <1>4, <1>7, <1>15, <2>1 DEF AheadInv
  <2>3. ASSUME NEW x \in Parts, x[1] = k.block, x[2] \notin ToSet(k.left) PROVE Fresh(object, x)'
    <3>1. Fresh(object, x)
      BY <1>6, <2>2, <2>3 DEF JobAhead
    <3>2. x # <<j.block, Head(j.left)>> /\ BlockPiece[x[1]] \in ToSet(now)
      BY <1>6, <1>7, <1>8, <2>3
    <3>3. pages'[object][x] = pages[object][x] /\ cached'[object] = now
      BY <1>9, <1>10, <2>1, <3>2
    <3> QED
      BY <1>4, <3>1, <3>2, <3>3 DEF Fresh
  <2>4. BlockPiece[k.block] \in ToSet(cached'[object])
    BY <1>6, <1>8, <1>9, <2>1
  <2>5. \A x \in Parts : x = <<k.block, Head(k.left)>> => pages'[object][x] = Value(k)
    <3>1. Value(k) = Value(j)
      BY <1>6 DEF Value
    <3> QED
      BY <1>6, <1>10, <2>1, <3>1
  <2>6. /\ \A x \in Parts : x = <<k.block, Head(k.left)>> => pages'[object'][x] = Value(k)
        /\ BlockPiece[k.block] \in ToSet(cached'[object'])
        /\ \A x \in Parts : x[1] = k.block /\ x[2] \notin ToSet(k.left) => Fresh(object, x)'
    BY <1>4, <2>3, <2>4, <2>5
  <2> QED
    BY <2>6 DEF JobAhead, Value
<1>16. /\ Settled' \subseteq Settled /\ verified \subseteq verified' /\ k.step # "failed"
       /\ \A x \in Parts : ondisk'[x] = ondisk[x]
       /\ j.block \notin Settled' \ Settled /\ halfRewritten' = halfRewritten
  BY <1>2, <1>4, <1>6, SettledMoves DEF Writing
<1>17. /\ jobs' \subseteq (jobs \ {j}) \cup {k} /\ UNCHANGED <<capacity, object, life>>
       /\ storageFaults \subseteq storageFaults'
       /\ \A x \in Parts : ondisk'[x] # ondisk[x] => j.object = object /\ x[1] = j.block
  BY <1>2, <1>4, <1>16
<1>18. \A i \in jobs \ {j} : StillLive(i) /\ i.step \in {"file", "guard"} =>
           cached'[object] = cached[object] /\ pages'[object] = pages[object]
  BY <1>13
<1>19. capacity > 0 /\ "evicted" \notin storageFaults' =>
           /\ \A x \in Parts : /\ BlockPiece[x[1]] \notin verified /\ Fresh(CacheOf, x)
                               /\ j.object = object /\ x[1] = j.block => j.block \in Settled
                               => Fresh(CacheOf, x)'
           /\ j.block \in Settled' \ Settled => \A x \in Parts : x[1] = j.block => Fresh(CacheOf, x)'
           /\ k \in jobs' /\ StillLive(k)' => JobAhead(k)'
  BY <1>14, <1>15, <1>16
<1> QED
  BY <1>12, <1>16, <1>17, <1>18, <1>19, AheadMoves

\* The file is locked and written.
LEMMA AheadFile ==
  ASSUME StorageInv, AheadInv, NEW j \in jobs,
         LockFile(j) \/ FileIsNone(j) \/ PWrite(j) \/ ShortWrite(j) \/ WriteFails(j)
  PROVE  AheadInv'
<1> USE DEF stateVars, tracker, lru, files, faults
<1>0. /\ j \in Job /\ object \in Objects /\ j.object \in Objects /\ j.block \in Blocks /\ capacity \in Nat
      /\ ondisk \in [Parts -> Content] /\ CacheOf \in Objects
      /\ StillLive(j) => j.object = object /\ CacheOf = object /\ life = "live"
  BY AheadFacts
<1>1. StorageTypes /\ OneWriter /\ CacheHolds
  BY DEF StorageInv, AheadInv
<1>2. CASE FileIsNone(j)
  <2>1. /\ jobs' = jobs \ {j}
        /\ UNCHANGED <<capacity, object, life, written, verified, cached, pages, ondisk, storageFaults>>
        /\ halfRewritten \subseteq halfRewritten'
        /\ capacity > 0 /\ StillLive(j) /\ j.block \in written => BlockPiece[j.block] \in halfRewritten'
    BY <1>2 DEF FileIsNone, Finish, NotWritten
  <2>2. Settled' \subseteq Settled
    BY <2>1, SettledEnds
  <2> QED
    BY <2>1, <2>2, AheadEnds
<1>3. ASSUME j.step = "guard"
      PROVE  j.object = object /\ j.block \notin Settled /\ j.left # <<>> /\ j.left \in Seq(Nat)
  BY <1>0, <1>1, <1>3, OnlyWriter DEF StorageTypes, Job
<1>4. CASE WriteFails(j)
  <2>1. /\ j.step = "guard" /\ jobs' = jobs \ {j} /\ written' \subseteq written
        /\ UNCHANGED <<capacity, object, life, verified, cached, pages, storageFaults>>
        /\ halfRewritten \subseteq halfRewritten'
        /\ capacity > 0 /\ StillLive(j) /\ j.block \in written' => BlockPiece[j.block] \in halfRewritten'
    BY <1>4 DEF WriteFails, Finish, NotWritten
  <2>2. \A x \in Parts : x # <<j.block, Head(j.left)>> => ondisk'[x] = ondisk[x]
    BY <1>0, <1>4 DEF WriteFails
  <2>3. \A x \in Parts : ondisk'[x] # ondisk[x] => j.object = object /\ x[1] = j.block /\ j.block \notin Settled
    BY <1>3, <2>1, <2>2
  <2>4. Settled' \subseteq Settled
    BY <2>1, SettledEnds
  <2> QED
    BY <2>1, <2>3, <2>4, AheadEnds
<1>5. CASE LockFile(j)
  <2>1. PICK k : k = [j EXCEPT !.step = "guard"] /\ jobs' = (jobs \ {j}) \cup {k}
    BY <1>5 DEF LockFile, Replace
  <2>2. /\ j.step = "file"
        /\ UNCHANGED <<capacity, object, life, written, verified, cached, pages, ondisk, storageFaults, halfRewritten>>
    BY <1>5 DEF LockFile
  <2>3. k.object = j.object /\ k.block = j.block /\ k.left = j.left /\ k.good = j.good /\ k.step = "guard"
    BY <1>0, <2>1 DEF Job
  <2>4. CacheHolds' /\ CacheOf' = CacheOf
    BY <1>1, <2>2 DEF CacheHolds, CacheOf
  <2>5. \A x \in Parts : Fresh(CacheOf, x) => Fresh(CacheOf, x)'
    BY <2>2, <2>4 DEF Fresh
  <2>6. ASSUME capacity > 0, "evicted" \notin storageFaults, StillLive(k)' PROVE JobAhead(k)'
    <3>1. JobAhead(j)
      BY <2>2, <2>3, <2>6 DEF AheadInv, StillLive
    <3> QED
      BY <2>2, <2>3, <3>1 DEF JobAhead, Fresh, Value
  <2>7. Settled' \subseteq Settled
    BY <2>1, <2>2, <2>3, SettledMoves DEF Writing
  <2> QED
    BY <2>1, <2>2, <2>3, <2>4, <2>5, <2>6, <2>7, AheadMoves
<1>6. CASE PWrite(j) \/ ShortWrite(j)
  <2>1. PICK k : /\ jobs' = (jobs \ {j}) \cup {k}
                 /\ k = IF Len(j.left) = 1 THEN [j EXCEPT !.left = <<>>, !.step = "mark", !.good = TRUE]
                        ELSE [j EXCEPT !.left = Tail(@), !.step = FirstStep]
    BY <1>6 DEF PWrite, ShortWrite, Advance, Replace
  <2>2. /\ j.step = "guard"
        /\ UNCHANGED <<capacity, object, life, written, verified, cached, pages, storageFaults, halfRewritten>>
    BY <1>6 DEF PWrite, ShortWrite
  <2>3. /\ \A x \in Parts : x # <<j.block, Head(j.left)>> => ondisk'[x] = ondisk[x]
        /\ capacity = 0 \/ \A x \in Parts : x = <<j.block, Head(j.left)>> => ondisk'[x] = Value(j)
    BY <1>0, <1>6 DEF PWrite, ShortWrite
  <2>4. /\ Tail(j.left) \in Seq(Nat) /\ ToSet(j.left) = ToSet(Tail(j.left)) \cup {Head(j.left)}
        /\ Len(Tail(j.left)) = Len(j.left) - 1
    BY <1>3, <2>2, TakenOut
  <2>5. /\ k.object = j.object /\ k.block = j.block /\ k.step \in {"mark", FirstStep}
        /\ ToSet(j.left) = ToSet(k.left) \cup {Head(j.left)}
    <3>1. CASE Len(j.left) = 1
      <4>0. Len(Tail(j.left)) = 0
        BY <2>4, <3>1
      <4>1. Tail(j.left) = <<>>
        BY <2>4, <4>0, EmptySeq
      <4>2. k.object = j.object /\ k.block = j.block /\ k.step = "mark" /\ k.left = <<>>
        BY <1>0, <2>1, <3>1 DEF Job
      <4> QED
        BY <2>4, <4>1, <4>2
    <3>2. CASE Len(j.left) # 1
      <4>1. k.object = j.object /\ k.block = j.block /\ k.step = FirstStep /\ k.left = Tail(j.left)
        BY <1>0, <2>1, <3>2 DEF Job
      <4> QED
        BY <2>4, <4>1
    <3> QED
      BY <3>1, <3>2
  <2>6. k.step # "failed" /\ (capacity > 0 => k.step \in {"mark", "cache"})
    BY <2>5 DEF FirstStep
  <2>7. CacheHolds' /\ CacheOf' = CacheOf
    BY <1>1, <2>2 DEF CacheHolds, CacheOf
  <2>8. \A x \in Parts : ondisk'[x] # ondisk[x] => j.object = object /\ x[1] = j.block
    BY <1>3, <2>2, <2>3
  <2>9. ASSUME NEW x \in Parts, Fresh(CacheOf, x), j.object = object /\ x[1] = j.block => j.block \in Settled
        PROVE  Fresh(CacheOf, x)'
    <3>1. ondisk'[x] = ondisk[x]
      BY <1>3, <2>2, <2>8, <2>9
    <3> QED
      BY <2>2, <2>7, <2>9, <3>1 DEF Fresh
  <2>10. ASSUME capacity > 0, "evicted" \notin storageFaults, StillLive(k)' PROVE JobAhead(k)'
    <3>1. JobAhead(j)
      BY <2>2, <2>5, <2>10 DEF AheadInv, StillLive
    <3>2. ASSUME NEW x \in Parts, x[1] = k.block, x[2] \notin ToSet(k.left) PROVE Fresh(object, x)'
      <4>1. CASE x = <<j.block, Head(j.left)>>
        <5>1. ondisk'[x] = Value(j)
          BY <1>0, <2>3, <2>10, <4>1
        <5>2. BlockPiece[j.block] \in ToSet(cached[object]) /\ pages[object][x] = Value(j)
          BY <2>2, <3>1, <4>1 DEF JobAhead
        <5> QED
          BY <2>2, <2>5, <3>2, <5>1, <5>2 DEF Fresh
      <4>2. CASE x # <<j.block, Head(j.left)>>
        <5>1. x = <<x[1], x[2]>>
          BY <3>2, PartsAre
        <5>2. x[2] # Head(j.left)
          BY <2>5, <3>2, <4>2, <5>1
        <5>3. Fresh(object, x)
          BY <2>5, <3>1, <3>2, <5>2 DEF JobAhead
        <5> QED
          BY <2>2, <2>3, <4>2, <5>3 DEF Fresh
      <4> QED
        BY <4>1, <4>2
    <3>3. k.step \notin {"file", "guard"}
      BY <2>6, <2>10
    <3> QED
      BY <2>2, <3>2, <3>3 DEF JobAhead
  <2>11. Settled' \subseteq Settled
    BY <2>1, <2>2, <2>5, SettledMoves DEF FirstStep, Writing
  <2> QED
    BY <2>1, <2>2, <2>6, <2>7, <2>8, <2>9, <2>10, <2>11, AheadMoves
<1> QED
  BY <1>2, <1>4, <1>5, <1>6


\* The bookkeeping after a write: a piece that is found is found whole.
LEMMA AheadMarking ==
  ASSUME StorageInv, AheadInv, NEW j \in jobs, MarkChunk(j) \/ CheckPiece(j) \/ MarkVerdict(j) \/ Abandon(j)
  PROVE  AheadInv'
<1> USE DEF stateVars, tracker, lru, files, faults
<1>0. /\ j \in Job /\ object \in Objects /\ j.object \in Objects /\ j.block \in Blocks /\ capacity \in Nat
      /\ BlockPiece[j.block] \in AllPiecesOf(Blocks)
      /\ cached \in [Objects -> Seq(AllPiecesOf(Blocks))] /\ CacheOf \in Objects
      /\ j.object = CacheOf => j.object = object /\ life # "taking" /\ Capacity(j.object) = capacity
      /\ capacity > 0 => Capacity(j.object) \in Nat \ {0}
      /\ StillLive(j) => j.object = object /\ CacheOf = object /\ life = "live"
  BY AheadFacts
<1>1. StorageTypes /\ OneWriter /\ CacheHolds
  BY DEF StorageInv, AheadInv
<1>2. CASE Abandon(j)
  <2>1. /\ jobs' = jobs \ {j}
        /\ UNCHANGED <<capacity, object, life, written, verified, cached, pages, ondisk, storageFaults, halfRewritten>>
    BY <1>2 DEF Abandon, Finish
  <2>a. j.object \in Nat /\ object \in Nat /\ (j.object < object \/ life # "live")
    BY <1>0, <1>2, ObjectsAre DEF Abandon, Stale
  <2>b. ~StillLive(j)
    BY <2>a DEF StillLive
  <2>2. Settled' \subseteq Settled
    BY <2>1, <2>b, SettledEnds
  <2> QED
    BY <2>1, <2>2, AheadEnds
<1>3. CASE MarkVerdict(j)
  <2>1. /\ jobs' = jobs \ {j} /\ UNCHANGED <<capacity, object, life, cached, pages, ondisk, storageFaults, halfRewritten>>
        /\ written' \subseteq written /\ verified \subseteq verified' /\ j.step \notin Writing
    BY <1>3 DEF MarkVerdict, Finish, Writing
  <2>2. Settled' \subseteq Settled
    BY <2>1, SettledEnds
  <2> QED
    BY <2>1, <2>2, AheadEnds
<1>4. CASE MarkChunk(j)
  <2>1. /\ j.step = "mark" /\ StillLive(j) /\ written' = written \cup {j.block}
        /\ UNCHANGED <<capacity, object, life, verified, cached, pages, ondisk, storageFaults, halfRewritten>>
    BY <1>4 DEF MarkChunk
  <2>2. PICK k : k = [j EXCEPT !.step = "check"]
    OBVIOUS
  <2>3. jobs' \subseteq (jobs \ {j}) \cup {k} /\ jobs \subseteq jobs' \cup {j}
    BY <1>4, <2>2 DEF MarkChunk, Replace, Finish
  <2>4. k.object = j.object /\ k.block = j.block /\ k.left = j.left /\ k.step = "check"
    BY <1>0, <2>2 DEF Job
  <2>5. j.left = <<>> /\ ToSet(j.left) = {}
    BY <1>1, <2>1, QueueHolds DEF StorageTypes
  <2>6. CacheHolds' /\ CacheOf' = CacheOf
    BY <1>1, <2>1 DEF CacheHolds, CacheOf
  <2>7. \A x \in Parts : Fresh(CacheOf, x) => Fresh(CacheOf, x)'
    BY <2>1, <2>6 DEF Fresh
  <2>8. ASSUME capacity > 0, "evicted" \notin storageFaults
        PROVE  \A x \in Parts : x[1] = j.block => Fresh(CacheOf, x)'
    <3>1. JobAhead(j)
      BY <2>1, <2>8 DEF AheadInv
    <3> QED
      BY <1>0, <2>1, <2>5, <2>7, <3>1 DEF JobAhead
  <2>9. ASSUME capacity > 0, "evicted" \notin storageFaults PROVE JobAhead(k)'
    <3>1. CacheOf' = object'
      BY <1>0, <2>1, <2>6
    <3> QED
      BY <2>4, <2>8, <2>9, <3>1 DEF JobAhead, Fresh
  <2>10. Settled' \subseteq Settled \cup {j.block}
    BY <2>1, <2>3 DEF Settled
  <2> QED
    BY <2>1, <2>3, <2>4, <2>6, <2>7, <2>8, <2>9, <2>10, AheadMoves
<1>5. CASE CheckPiece(j)
  <2> DEFINE z == BlockPiece[j.block]
             hit == z \in ToSet(cached[j.object])
             found == \A x \in PartsOf(z) : Read(j.object, x) = "good"
  <2>1. /\ j.step = "check" /\ CacheFree(j.object)
        /\ UNCHANGED <<capacity, object, life, written, verified, pages, ondisk, storageFaults, halfRewritten>>
        /\ cached' = IF hit THEN [cached EXCEPT ![j.object] = Touched(j.object, z)] ELSE cached
    BY <1>5 DEF CheckPiece
  <2>2. PICK k : k = [j EXCEPT !.step = IF found THEN "passed" ELSE "failed"]
    OBVIOUS
  <2>3. jobs' \subseteq (jobs \ {j}) \cup {k} /\ jobs \subseteq jobs' \cup {j}
    BY <1>5, <2>2 DEF CheckPiece, Replace, Finish
  <2>4. /\ k.object = j.object /\ k.block = j.block /\ k.left = j.left
        /\ k.step = IF found THEN "passed" ELSE "failed"
    BY <1>0, <2>2 DEF Job
  <2>5. /\ cached' \in [Objects -> Seq(AllPiecesOf(Blocks))]
        /\ \A o \in Objects : o # j.object \/ ~hit => cached'[o] = cached[o]
        /\ hit => capacity > 0
        /\ hit /\ j.object = CacheOf => Len(cached'[CacheOf]) <= capacity /\ ToSet(cached[CacheOf]) \subseteq ToSet(cached'[CacheOf])
    <3>1. CASE ~hit
      BY <1>0, <2>1, <3>1
    <3>2. CASE hit
      <4>1. capacity > 0
        <5>1. cached[j.object] # <<>>
          BY <3>2, QueueHolds
        <5>2. capacity # 0
          BY <1>0, <1>1, <5>1 DEF CacheHolds
        <5> QED
          BY <1>0, <5>2
      <4>2. cached[j.object] \in Seq(AllPiecesOf(Blocks)) /\ Capacity(j.object) \in Nat \ {0} /\ z \in AllPiecesOf(Blocks)
        BY <1>0, <4>1
      <4>3. PICK now : now = Touched(j.object, z)
        OBVIOUS
      <4>4. /\ now \in Seq(AllPiecesOf(Blocks)) /\ Len(now) <= Capacity(j.object)
            /\ hit /\ Len(cached[j.object]) <= Capacity(j.object) => ToSet(cached[j.object]) \subseteq ToSet(now)
        BY <4>2, <4>3, TouchedHolds
      <4>5. cached' = [cached EXCEPT ![j.object] = now]
        BY <2>1, <3>2, <4>3
      <4> HIDE DEF z, hit
      <4>6. /\ cached' \in [Objects -> Seq(AllPiecesOf(Blocks))] /\ cached'[j.object] = now
            /\ \A o \in Objects : o # j.object => cached'[o] = cached[o]
        BY <1>0, <4>4, <4>5
      <4>7. j.object = CacheOf => Len(cached[j.object]) <= Capacity(j.object) /\ Capacity(j.object) = capacity
        BY <1>0, <1>1 DEF CacheHolds
      <4> QED
        BY <3>2, <4>1, <4>4, <4>6, <4>7
    <3> QED
      BY <3>1, <3>2
  <2>6. CacheOf' = CacheOf
    BY <2>1 DEF CacheOf
  <2> HIDE DEF z, hit, found
  <2>7. CacheHolds'
    <3>1. capacity = 0 => \A o \in Objects : cached'[o] = <<>>
      BY <1>0, <1>1, <2>5 DEF CacheHolds
    <3>2. Len(cached'[CacheOf]) <= capacity
      BY <1>0, <1>1, <2>5 DEF CacheHolds
    <3> QED
      BY <2>1, <2>5, <2>6, <3>1, <3>2 DEF CacheHolds
  <2>8. \A x \in Parts : Fresh(CacheOf, x) => Fresh(CacheOf, x)'
    <3>1. ToSet(cached[CacheOf]) \subseteq ToSet(cached'[CacheOf])
      BY <1>0, <2>5
    <3> QED
      BY <2>1, <2>6, <3>1 DEF Fresh
  <2>9. ASSUME NEW i \in jobs \ {j}, StillLive(i), i.step \in {"file", "guard"}
        PROVE  cached'[object] = cached[object] /\ pages'[object] = pages[object]
    <3>1. capacity = 0 \/ j.object # object
      BY <2>1, <2>9 DEF CacheFree, StillLive
    <3>2. capacity = 0 => ~hit
      BY <2>5
    <3> QED
      BY <1>0, <2>1, <2>5, <3>1, <3>2
  <2>10. j.left = <<>> /\ ToSet(j.left) = {}
    BY <1>1, <2>1, QueueHolds DEF StorageTypes
  <2>11. ASSUME capacity > 0, "evicted" \notin storageFaults, StillLive(k)' PROVE JobAhead(k)'
    <3>1. StillLive(j)
      BY <2>1, <2>4, <2>11 DEF StillLive
    <3>2. JobAhead(j) /\ CacheOf = object /\ CacheOf' = object'
      BY <1>0, <2>1, <2>6, <2>11, <3>1 DEF AheadInv
    <3>3. \A x \in Parts : x[1] = k.block => Fresh(object, x)'
      BY <2>4, <2>8, <2>10, <3>2 DEF JobAhead, Fresh
    <3>4. k.step \notin {"file", "guard"}
      BY <2>4
    <3> QED
      BY <3>3, <3>4 DEF JobAhead
  <2>12. ASSUME k.step = "failed", StillLive(k)', "evicted" \notin storageFaults, BlockPiece[k.block] \notin halfRewritten
         PROVE  \E x \in PartsOf(BlockPiece[k.block]) : ondisk'[x] # "good"
    <3>1. StillLive(j) /\ j.object = object /\ CacheOf = object /\ life = "live"
      BY <1>0, <2>1, <2>4, <2>12 DEF StillLive
    <3>2. PICK x \in PartsOf(z) : Read(object, x) # "good"
      BY <2>4, <2>12, <3>1 DEF found
    <3>3. x \in Parts /\ BlockPiece[x[1]] = z /\ x[1] \in BlocksOf(z)
      BY <3>2, PartsAre
    <3>4. x[1] \in written /\ z \notin verified
      BY <1>1, <2>1, <3>1, <3>3 DEF OneWriter, Checking, z
    <3>5. ondisk[x] # "good"
      <4>1. CASE capacity > 0
        <5>1. CacheIsFresh
          BY <2>12, <4>1 DEF AheadInv
        <5>a. \A i \in jobs : i.object = object /\ i.block = x[1] => i.step \notin Writing
          BY <1>1, <2>1, <3>1, <3>3 DEF OneWriter, Writing, z
        <5>b. x[1] \in Settled
          BY <2>4, <2>12, <3>3, <3>4, <4>1, <5>a DEF Settled, z
        <5>2. Fresh(object, x)
          BY <3>1, <3>3, <3>4, <5>1, <5>b DEF CacheIsFresh
        <5> QED
          BY <3>2, <5>2 DEF Fresh, Read
      <4>2. CASE capacity = 0
        <5>1. ToSet(cached[object]) = {}
          BY <1>0, <1>1, <4>2, QueueHolds DEF CacheHolds
        <5> QED
          BY <3>2, <5>1 DEF Read
      <4> QED
        BY <1>0, <4>1, <4>2
    <3> QED
      BY <2>1, <2>4, <3>2, <3>5 DEF z
  <2>a. Settled' \subseteq Settled
    BY <2>1, <2>3, <2>4 DEF Settled, Writing
  <2>13. /\ UNCHANGED <<capacity, object, life>> /\ storageFaults' = storageFaults /\ verified' = verified
         /\ halfRewritten' = halfRewritten /\ \A x \in Parts : ondisk'[x] = ondisk[x]
    BY <2>1
  <2> QED
    BY <2>3, <2>7, <2>8, <2>9, <2>11, <2>12, <2>13, <2>a, AheadMoves
<1> QED
  BY <1>2, <1>3, <1>4, <1>5

\* A torrent whose files have not been opened.
LEMMA AheadStart == StorageInit => AheadInv
<1> SUFFICES ASSUME StorageInit PROVE AheadInv
  OBVIOUS
<1>1. 1 \in Objects /\ CacheOf = 1 /\ capacity \in Nat
  BY StorageAssumption DEF Objects, StorageInit, CacheOf
<1>2. /\ cached = [o \in Objects |-> <<>>] /\ <<>> \in Seq(AllPiecesOf(Blocks)) /\ Len(<<>>) = 0
  BY QueueHolds DEF StorageInit
<1>3. cached \in [Objects -> Seq(AllPiecesOf(Blocks))] /\ cached[1] = <<>> /\ \A o \in Objects : cached[o] = <<>>
  BY <1>1, <1>2
<1>4. CacheHolds
  BY <1>1, <1>2, <1>3 DEF CacheHolds
<1> QED
  BY <1>4 DEF AheadInv, StorageInit, CacheIsFresh, GoodDataPasses, Settled

\* Every step of the storage.
LEMMA AheadStep == StorageInv /\ AheadInv /\ [StorageNext]_storageVars => AheadInv'
<1> SUFFICES ASSUME StorageInv, AheadInv, [StorageNext]_storageVars PROVE AheadInv'
  OBVIOUS
<1>1. CASE UNCHANGED storageVars
  <2>1. UNCHANGED <<capacity, object, life, written, verified, cached, pages, ondisk, jobs, storageFaults, halfRewritten>>
    BY <1>1 DEF storageVars, stateVars, tracker, lru, files, faults
  <2>2. CacheHolds' /\ GoodDataPasses'
    BY <2>1 DEF AheadInv, CacheHolds, CacheOf, GoodDataPasses, StillLive
  <2>3. CacheIsFresh => CacheIsFresh'
    BY <2>1, SettledStays DEF CacheIsFresh, CacheOf, Fresh
  <2>4. ASSUME NEW j \in jobs, StillLive(j) => JobAhead(j) PROVE StillLive(j)' => JobAhead(j)'
    BY <2>1, <2>4 DEF StillLive, JobAhead, Fresh, Value
  <2> QED
    BY <2>1, <2>2, <2>3, <2>4 DEF AheadInv
<1>2. ASSUME NEW j \in jobs, JobStep(j) PROVE AheadInv'
  BY <1>2, AheadCachePut, AheadFile, AheadMarking DEF JobStep
<1> QED
  BY <1>1, <1>2, AheadOpening, AheadStopping, AheadWriteChunk DEF StorageNext

\* A piece fails its check in a live torrent only if something wrong is on disk, as long as
\* no unverified piece was evicted (write_through_cache.rs, file_ops.rs check_piece) and
\* none of its recorded chunks was cached again without being written again:
\* what a cache returns is never worse than the files. For any chunks, files, cache size,
\* order of the writers and number of pauses.
THEOREM GoodPiecesPass == StorageInit /\ [][StorageNext]_storageVars => []GoodDataPasses
<1>1. StorageInv /\ AheadInv /\ [StorageNext]_storageVars => (StorageInv /\ AheadInv)'
  BY StorageStep, AheadStep
<1>2. AheadInv => GoodDataPasses
  BY DEF AheadInv
<1> QED
  BY <1>1, <1>2, StorageStart, AheadStart, PTL
=============================================================================
