------------------------------ MODULE Magnet -------------------------------
(***************************************************************************)
(* Resolving a magnet link: addresses come from a stream, each new one     *)
(* gets a reader that waits for a permit, connects, learns the size of the *)
(* metadata from the extended handshake, asks for every piece of it and    *)
(* checks the hash of the whole. The first reader to end well decides, and *)
(* the call fails when the stream has ended and no reader is left.         *)
(***************************************************************************)
EXTENDS Naturals, Sequences, FiniteSets, FiniteSetsExt, SequencesExt

CONSTANTS
  Address, Honest,   \* addresses; the peers that serve the right metadata
  Origin,            \* which source names an address
  InfoPieces,        \* pieces of the metadata
  ReaderPermits      \* of the semaphore of readers

ASSUME MagnetAssumption ==
  /\ Honest \subseteq Address /\ Origin \in [Address -> {"dht", "lsd", "tracker", "initial"}]
  /\ InfoPieces \in Nat \ {0} /\ ReaderPermits \in Nat \ {0}

VARIABLES
  resolve,    \* the call of read_metainfo_from_peer_receiver
  sources,    \* the streams make_peer_rx merged
  seen,       \* addresses the call took from the stream
  ended,      \* addrs_completed
  info,       \* per address, its reader
  got,        \* received_pieces
  owed,       \* requested pieces the peer has yet to answer, in order
  lost,       \* addresses whose connection dropped
  strays      \* addresses that repeated their extended handshake or sent data nobody asked for

magnetVars == <<resolve, sources, seen, ended, info, got, owed, lost, strays>>

AllPieces == 1..InfoPieces

MagnetInit ==
  /\ resolve = "idle" /\ sources = {} /\ seen = {} /\ ended = FALSE
  /\ info = [a \in Address |-> "none"] /\ got = [a \in Address |-> {}]
  /\ owed = [a \in Address |-> <<>>] /\ lost = {} /\ strays = {}

\* make_peer_rx: a link says nothing about privacy, so every source that is enabled is
\* merged into one stream; without any the link is refused.
ResolveMagnet(streams) ==
  /\ resolve # "busy" /\ streams # {}
  /\ resolve' = "busy" /\ sources' = streams
  /\ seen' = {} /\ ended' = FALSE /\ lost' = {} /\ strays' = {}
  /\ info' = [a \in Address |-> "none"] /\ got' = [a \in Address |-> {}]
  /\ owed' = [a \in Address |-> <<>>]

InFlight == {a \in Address : info[a] \notin {"none", "failed"}}

NextAddress(a) ==
  /\ resolve = "busy" /\ ~ended /\ Origin[a] \in sources /\ a \notin seen
  /\ seen' = seen \cup {a}
  /\ info' = [info EXCEPT ![a] = "waiting"]
  /\ UNCHANGED <<resolve, sources, ended, got, owed, lost, strays>>

StreamEnds ==
  /\ resolve = "busy" /\ ~ended
  /\ ended' = TRUE
  /\ UNCHANGED <<resolve, sources, seen, info, got, owed, lost, strays>>

\* Mutant: the call ends with its stream.
StreamExhaustedWithReaders == resolve = "busy" /\ ended

\* addrs_completed and no reader left.
StreamExhausted == resolve = "busy" /\ ended /\ InFlight = {}

ChannelClosed ==
  /\ StreamExhausted
  /\ resolve' = "closed"
  /\ UNCHANGED <<sources, seen, ended, info, got, owed, lost, strays>>

Connected(a) == info[a] \in {"connecting", "reading", "ready", "again"}

AcquirePermit(a) ==
  /\ resolve = "busy" /\ info[a] = "waiting"
  /\ Cardinality({b \in Address : Connected(b)}) < ReaderPermits
  /\ info' = [info EXCEPT ![a] = "connecting"]
  /\ UNCHANGED <<resolve, sources, seen, ended, got, owed, lost, strays>>

\* on_extended_handshake: a new buffer, and a request for every piece of it. A peer may
\* send the handshake again, which discards what was received, even after the result
\* was sent ("again").
OnExtendedHandshake(a) ==
  /\ resolve = "busy" /\ Connected(a)
  /\ Len(owed[a]) <= InfoPieces
  /\ info' = [info EXCEPT ![a] = IF @ \in {"connecting", "reading"} THEN "reading" ELSE "again"]
  /\ got' = [got EXCEPT ![a] = {}]
  /\ owed' = [owed EXCEPT ![a] = @ \o [i \in AllPieces |-> i]]
  /\ strays' = IF info[a] = "connecting" THEN strays ELSE strays \cup {a}
  /\ UNCHANGED <<resolve, sources, seen, ended, lost>>

Fails(a) ==
  /\ info' = [info EXCEPT ![a] = "failed"]
  /\ got' = [got EXCEPT ![a] = {}] /\ owed' = [owed EXCEPT ![a] = <<>>]

\* on_received_message, record_piece: a wrong index or length or a piece received before
\* is an error; with the last piece the hash of the whole decides, and there is one
\* result to send.
RecordPiece(a, p, rest) ==
  LET now == got[a] \cup {p} IN
  IF p \in got[a] \/ (now = AllPieces /\ (a \notin Honest \/ info[a] = "again"))
    THEN Fails(a)
    ELSE /\ got' = [got EXCEPT ![a] = now]
         /\ owed' = [owed EXCEPT ![a] = rest]
         /\ info' = [info EXCEPT ![a] = IF now = AllPieces THEN "ready" ELSE @]

HasBuffer(a) == info[a] \in {"reading", "again"}

\* The answer to a request. Without a buffer (it went with the result) there is nothing
\* to unwrap, and the panic ends the whole call.
OnData(a) ==
  /\ resolve = "busy" /\ Connected(a) /\ owed[a] # <<>>
  /\ \/ /\ HasBuffer(a)
        /\ RecordPiece(a, Head(owed[a]), Tail(owed[a]))
        /\ UNCHANGED resolve
     \/ /\ ~HasBuffer(a)
        /\ resolve' = "panicked"
        /\ UNCHANGED <<info, got, owed>>
  /\ UNCHANGED <<sources, seen, ended, lost, strays>>

\* Data that answers no request, at any time: before the handshake there is no buffer
\* either.
OnStrayData(a, p) ==
  /\ resolve = "busy" /\ Connected(a)
  /\ strays' = strays \cup {a}
  /\ \/ /\ HasBuffer(a)
        /\ RecordPiece(a, p, owed[a])
        /\ UNCHANGED resolve
     \/ /\ ~HasBuffer(a)
        /\ resolve' = "panicked"
        /\ UNCHANGED <<info, got, owed>>
  /\ UNCHANGED <<sources, seen, ended, lost>>

\* A dropped connection, a timeout, a peer without the extension or the metadata. It may
\* win against a result that was sent and not taken.
ReaderFails(a) ==
  /\ resolve = "busy" /\ Connected(a)
  /\ Fails(a)
  /\ lost' = lost \cup {a}
  /\ UNCHANGED <<resolve, sources, seen, ended, strays>>

Found(a) ==
  /\ resolve = "busy" /\ info[a] \in {"ready", "again"}
  /\ resolve' = "found"
  /\ UNCHANGED <<sources, seen, ended, info, got, owed, lost, strays>>

MagnetNext ==
  \/ \E streams \in SUBSET {Origin[a] : a \in Address} : ResolveMagnet(streams)
  \/ StreamEnds \/ ChannelClosed
  \/ \E a \in Address :
       \/ NextAddress(a) \/ AcquirePermit(a) \/ OnExtendedHandshake(a)
       \/ OnData(a) \/ ReaderFails(a) \/ Found(a)
       \/ \E p \in AllPieces : OnStrayData(a, p)

-----------------------------------------------------------------------------
\* resolve_magnet gives up only after every peer it was told of that could have
\* answered lost its connection; it returns metadata only of a peer that sent all of
\* it, and the address it came from is among the ones it hands on; and it never panics.
\* Excepted are peers that repeat their extended handshake or send data nobody asked
\* for: those may be given up, and may panic the call (peer_info_reader/mod.rs:184-191).
ResolvesUnlessLost ==
  /\ resolve = "closed" => seen \cap Honest \subseteq lost \cup strays
  /\ resolve = "found" =>
       \E a \in seen \cap Honest : got[a] = AllPieces \/ (info[a] = "again" /\ a \in strays)
  /\ resolve = "panicked" => strays # {}
=============================================================================
