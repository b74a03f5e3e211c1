------------------------------- MODULE Feeds -------------------------------
(***************************************************************************)
(* The RSS monitor and the requests that share its database. A round takes *)
(* the feeds from the database, fetches each enabled one, takes the rules, *)
(* and goes through the entries: an entry that is not stored is stored,    *)
(* and added to the session when the filter and a rule (or auto_download)  *)
(* say so. Feeds, rules and items change under it.                         *)
(***************************************************************************)
EXTENDS Naturals, Sequences, FiniteSets, SequencesExt

CONSTANTS
  Feed, Item, Rule,
  FeedConfig,    \* per feed, the configurations it may have:
                 \* [enabled, auto, filtered : BOOLEAN, passes : SUBSET Item]
  RuleConfig,    \* [enabled : BOOLEAN, feeds : SUBSET Feed, matches : SUBSET Item]
  NoConfig,      \* no feed or rule of that name
  Linked,        \* the items with something to download
  HistoryLimit,  \* rss_history_limit
  RequestBound   \* bound on requests under way

ASSUME FeedsAssumption == Linked \subseteq Item /\ HistoryLimit \in Nat /\ RequestBound \in Nat

VARIABLES
  feeds, rules,   \* the configurations in the database
  stored,         \* ids of the stored items, by first_seen_at
  downloaded,     \* the ones marked as downloaded
  monitor,        \* where the monitor is
  round,          \* the feeds of this round that are still to be checked
  current,        \* the feed being checked: its name, configuration, rules, entries
  adding,         \* the item the monitor is adding
  request,        \* items whose download a request has begun
  due,            \* items an enabled feed listed that were to be downloaded
  autoAdded,      \* items the monitor has added
  repeated,       \* the monitor added an item again
  feedFaults

config == <<feeds, rules>>
history == <<due, autoAdded, repeated, feedFaults>>
position == <<monitor, round, current, adding>>
feedVars == <<config, stored, downloaded, position, request, history>>

Nothing == [name |-> NoConfig]

FeedInit ==
  /\ feeds = [f \in Feed |-> NoConfig] /\ rules = [r \in Rule |-> NoConfig]
  /\ stored = <<>> /\ downloaded = {}
  /\ monitor = "sleep" /\ round = [f \in Feed |-> NoConfig] /\ current = Nothing
  /\ adding = {} /\ request = {}
  /\ due = {} /\ autoAdded = {} /\ repeated = FALSE /\ feedFaults = {}

-----------------------------------------------------------------------------
(* The database *)

FeedUpsert(f, c) == [feeds EXCEPT ![f] = c]
RuleUpsert(r, c) == [rules EXCEPT ![r] = c]
RssItemExists(i) == i \in ToSet(stored)
RssItemGet(i) == {j \in ToSet(stored) : j = i}

\* An item that was pruned meanwhile is not there to be marked, and an error of the
\* update is ignored.
MarkDownloaded(items) == {downloaded, downloaded \cup (items \cap ToSet(stored))}

\* rss_items_prune: the items seen last are kept.
Kept == SubSeq(stored, IF Len(stored) > HistoryLimit THEN Len(stored) - HistoryLimit + 1 ELSE 1,
               Len(stored))

\* Mutant: the item is stored only when it has nothing to download.
RssItemUpsertUnlinked(i) == IF RssItemExists(i) \/ i \in Linked THEN stored ELSE Append(stored, i)

\* INSERT OR IGNORE
RssItemUpsert(i) == IF RssItemExists(i) THEN stored ELSE Append(stored, i)

-----------------------------------------------------------------------------
(* Requests *)

\* h_rss_feed_add, h_rss_feed_update, h_rss_feed_delete
SetFeed(f, c) ==
  /\ feeds[f] # c
  /\ feeds' = FeedUpsert(f, c)
  /\ UNCHANGED <<rules, stored, downloaded, position, request, history>>

\* h_rss_rule_add, h_rss_rule_update, h_rss_rule_delete
SetRule(r, c) ==
  /\ rules[r] # c
  /\ rules' = RuleUpsert(r, c)
  /\ UNCHANGED <<feeds, stored, downloaded, position, request, history>>

\* extract_torrent_url: a magnet link, a .torrent link, or any link at all.
HasTorrentUrl(i) == i \in Linked

\* h_rss_item_download up to the call of add_torrent
RequestDownload(i) ==
  /\ RssItemGet(i) # {} /\ HasTorrentUrl(i) /\ i \notin request
  /\ Cardinality(request) < RequestBound
  /\ request' = request \cup {i}
  /\ UNCHANGED <<config, stored, downloaded, position, history>>

RequestEnds(i, ok) ==
  /\ i \in request
  /\ request' = request \ {i}
  /\ downloaded' \in IF ok THEN MarkDownloaded({i}) ELSE {downloaded}
  /\ UNCHANGED <<config, stored, position, history>>

-----------------------------------------------------------------------------
(* The monitor *)

\* Without feeds, or when the list of them cannot be read, the monitor sleeps on.
StartRound ==
  /\ monitor = "sleep" /\ \E f \in Feed : feeds[f] # NoConfig
  /\ round' = feeds /\ monitor' = "feeds"
  /\ UNCHANGED <<config, stored, downloaded, current, adding, request, history>>

Pending == {f \in Feed : round[f] # NoConfig}

\* Feeds that are not enabled are passed over; one that cannot be fetched or parsed is
\* given up for this round.
PassFeed(f) ==
  /\ monitor = "feeds" /\ f \in Pending
  /\ round' = [round EXCEPT ![f] = NoConfig]
  /\ UNCHANGED <<config, stored, downloaded, monitor, current, adding, request,
                 history>>

\* The rules of a feed, as they are after it was fetched.
RulesOf(f) == {rules[r] : r \in {r \in Rule : rules[r] # NoConfig /\ rules[r].enabled
                                              /\ f \in rules[r].feeds}}

\* A list of rules that cannot be read counts as empty.
FetchFeed(f, entries, chosen) ==
  /\ monitor = "feeds" /\ f \in Pending /\ round[f].enabled
  /\ round' = [round EXCEPT ![f] = NoConfig]
  /\ current' = [name |-> f, feed |-> round[f], rules |-> chosen, entries |-> entries]
  /\ monitor' = "entries"
  /\ UNCHANGED <<config, stored, downloaded, adding, request, history>>

ShouldDownload(i) ==
  /\ HasTorrentUrl(i)
  /\ current.feed.filtered => i \in current.feed.passes
  /\ \/ \E r \in current.rules : i \in r.matches
     \/ current.feed.auto /\ ~current.feed.filtered

\* One entry, up to the call of add_torrent. An entry that is stored is skipped, also
\* when it was stored for another feed or before there was a rule for it. A lookup that
\* fails counts as not stored, and an error of the insertion is ignored.
CheckEntry(i, looked, written) ==
  /\ monitor = "entries" /\ i \in current.entries
  /\ LET known == looked /\ RssItemExists(i)
         wanted == ShouldDownload(i) IN
     /\ stored' = IF known \/ ~written THEN stored ELSE RssItemUpsert(i)
     /\ adding' = IF wanted /\ ~known THEN {i} ELSE {}
     /\ monitor' = IF wanted /\ ~known THEN "adding" ELSE monitor
     /\ due' = IF wanted THEN due \cup {i} ELSE due
     /\ feedFaults' = feedFaults
          \cup (IF wanted /\ known /\ i \notin due THEN {"seen"} ELSE {})
          \cup (IF ~known /\ RssItemExists(i) THEN {"notLookedUp"} ELSE {})
          \cup (IF ~RssItemExists(i) /\ ~written THEN {"rowLost"} ELSE {})
  /\ current' = [current EXCEPT !.entries = @ \ {i}]
  /\ UNCHANGED <<config, downloaded, round, request, autoAdded, repeated>>

AddTorrent(ok) ==
  /\ monitor = "adding"
  /\ downloaded' \in IF ok THEN MarkDownloaded(adding) ELSE {downloaded}
  /\ autoAdded' = IF ok THEN autoAdded \cup adding ELSE autoAdded
  /\ repeated' = (repeated \/ (ok /\ adding \subseteq autoAdded))
  /\ feedFaults' = IF ok THEN feedFaults ELSE feedFaults \cup {"notAdded"}
  /\ adding' = {} /\ monitor' = "entries"
  /\ UNCHANGED <<config, stored, round, current, request, due>>

EndFeed ==
  /\ monitor = "entries" /\ current.entries = {}
  /\ monitor' = "feeds" /\ current' = Nothing
  /\ UNCHANGED <<config, stored, downloaded, round, adding, request, history>>

\* The end of a round; the rows stay when the database fails.
PruneItems ==
  /\ monitor = "feeds" /\ Pending = {}
  /\ stored' \in {Kept, stored} /\ downloaded' = downloaded \cap ToSet(stored')
  /\ feedFaults' = IF stored' # stored THEN feedFaults \cup {"rowLost"} ELSE feedFaults
  /\ monitor' = "sleep"
  /\ UNCHANGED <<config, round, current, adding, request, due, autoAdded, repeated>>

\* The process ends; the database and the torrents stay.
Restart ==
  /\ monitor # "sleep" \/ request # {}
  /\ feedFaults' = IF monitor = "adding" THEN feedFaults \cup {"notAdded"} ELSE feedFaults
  /\ monitor' = "sleep" /\ round' = [f \in Feed |-> NoConfig] /\ current' = Nothing
  /\ adding' = {} /\ request' = {}
  /\ UNCHANGED <<config, stored, downloaded, due, autoAdded, repeated>>

FeedNext ==
  \/ \E f \in Feed :
       \/ \E c \in FeedConfig[f] \cup {NoConfig} : SetFeed(f, c)
       \/ PassFeed(f)
       \/ \E entries \in SUBSET Item, chosen \in {RulesOf(f), {}} : FetchFeed(f, entries, chosen)
  \/ \E r \in Rule, c \in RuleConfig \cup {NoConfig} : SetRule(r, c)
  \/ \E i \in Item :
       \/ RequestDownload(i)
       \/ \E ok \in BOOLEAN : RequestEnds(i, ok)
       \/ \E looked, written \in BOOLEAN : CheckEntry(i, looked, written)
  \/ \E ok \in BOOLEAN : AddTorrent(ok)
  \/ StartRound \/ EndFeed \/ PruneItems \/ Restart

-----------------------------------------------------------------------------
\* An item that an enabled feed listed and that its filter and rules chose was added or
\* is being added, unless the call failed, the process ended during it, or the item had
\* been stored before the rule applied: the row is written first (monitor.rs:162), so
\* none of these is tried again. And the monitor adds an item once, unless its row was
\* pruned, could not be written, or could not be looked up (monitor.rs:159): a failed
\* lookup counts as not stored, and the item is added again.
FeedItemsHandled ==
  /\ feedFaults \cap {"notAdded", "seen"} = {} => due \subseteq autoAdded \cup adding
  /\ repeated => feedFaults \cap {"rowLost", "notLookedUp"} # {}
=============================================================================
