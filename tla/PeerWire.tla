----------------------------- MODULE PeerWire ------------------------------
(***************************************************************************)
(* One connection to a peer, as the peer sees it: handshakes, our bitfield *)
(* or none, and from then on haves from the torrent's broadcast channel,   *)
(* chunks the peer asked for and extension messages. Pieces complete on    *)
(* other threads meanwhile: a piece is marked, counted and only then       *)
(* broadcast, and the writer of the connection may read any of the three   *)
(* in between.                                                             *)
(***************************************************************************)
EXTENDS Naturals, Sequences, FiniteSets, SequencesExt

CONSTANTS
  Piece,
  HaveCapacity,    \* of the broadcast channel of haves
  OutboxBound,     \* bound on requests queued for the writer and the upload scheduler
  MetadataPieces,  \* pieces of the torrent's metadata
  MetadataExact    \* its length is a multiple of the length of a piece of it

ASSUME WireAssumption ==
  /\ HaveCapacity \in Nat \ {0} /\ OutboxBound \in Nat /\ MetadataPieces \in Nat
  /\ MetadataExact \in BOOLEAN

VARIABLES
  wire,       \* where the managing task is
  upload,     \* uploading is not disabled
  private,    \* of the torrent
  have,       \* pieces marked in the chunk tracker
  counted,    \* pieces counted in have_bytes
  sent,       \* pieces broadcast by transmit_haves or had when the torrent went live
  haves,      \* this connection's receiver of the broadcast
  known,      \* the peer's bitfield is allocated
  theirs,     \* the pieces in it
  claimed,    \* every piece it held since the connection was made
  told,       \* pieces the peer was told we have
  scheduled,  \* number of chunks that wait for the rate limit
  outbox,     \* requests for the writer
  wireFaults

conn == <<known, theirs, claimed, told, scheduled, outbox>>
torrent == <<upload, private, have, counted, sent>>
wireVars == <<wire, torrent, haves, conn, wireFaults>>

Stages == {"none", "connecting", "extended", "decide", "serialize", "unchoke", "loop", "panicked"}

WireInit ==
  /\ wire = "none" /\ upload \in BOOLEAN /\ private \in BOOLEAN
  /\ have = {} /\ counted = {} /\ sent = {} /\ haves = <<>>
  /\ known = FALSE /\ theirs = {} /\ claimed = {} /\ told = {} /\ scheduled = 0 /\ outbox = <<>>
  /\ wireFaults = {}

-----------------------------------------------------------------------------
(* Pieces of the torrent complete *)

\* Mutant: a connection subscribes when its writer starts to listen.
SubscribedInLoop == wire = "loop"

\* The tasks subscribe when they build the future of the connection.
Subscribed == wire \notin {"none", "panicked"}

MarkPiece(p) ==
  /\ p \notin have
  /\ have' = have \cup {p}
  /\ UNCHANGED <<wire, upload, private, counted, sent, haves, conn, wireFaults>>

CountPiece(p) ==
  /\ p \in have \ counted
  /\ counted' = counted \cup {p}
  /\ UNCHANGED <<wire, upload, private, have, sent, haves, conn, wireFaults>>

\* A full channel overwrites its oldest value; the receiver skips the gap.
TransmitHaves(p) ==
  /\ p \in counted \ sent
  /\ sent' = sent \cup {p}
  /\ LET full == Len(haves) = HaveCapacity IN
     /\ haves' = IF ~Subscribed THEN haves
                 ELSE Append(IF full THEN Tail(haves) ELSE haves, p)
     /\ wireFaults' = wireFaults \cup (IF Subscribed /\ full THEN {"lagged"} ELSE {})
  /\ UNCHANGED <<wire, upload, private, have, counted, conn>>

-----------------------------------------------------------------------------
(* The life of a connection *)

Closed ==
  /\ haves' = <<>> /\ known' = FALSE /\ theirs' = {} /\ claimed' = {} /\ told' = {}
  /\ scheduled' = 0 /\ outbox' = <<>>

Start ==
  /\ wire = "none"
  /\ wire' = "connecting"
  /\ wireFaults' = {}
  /\ UNCHANGED <<torrent, haves, conn>>

\* manage_peer_outgoing, manage_peer_incoming: both handshakes are exchanged and the
\* entry of the peer becomes live, with an empty bitfield. An incoming connection
\* takes the extension bit from our own handshake, so it is always set.
Handshake(incoming, extension) ==
  /\ wire = "connecting"
  /\ wire' = IF incoming \/ extension THEN "extended" ELSE "decide"
  /\ UNCHANGED <<torrent, haves, conn, wireFaults>>

SendExtendedHandshake ==
  /\ wire = "extended"
  /\ wire' = "decide"
  /\ UNCHANGED <<torrent, haves, conn, wireFaults>>

DecideBitfield ==
  /\ wire = "decide"
  /\ wire' = IF upload /\ counted # {} THEN "serialize" ELSE "unchoke"
  /\ UNCHANGED <<torrent, haves, conn, wireFaults>>

SerializeBitfield ==
  /\ wire = "serialize"
  /\ told' = have
  /\ wire' = "unchoke"
  /\ UNCHANGED <<torrent, haves, known, theirs, claimed, scheduled, outbox, wireFaults>>

SendUnchoke ==
  /\ wire = "unchoke"
  /\ wire' = "loop"
  /\ UNCHANGED <<torrent, haves, conn, wireFaults>>

\* Any error or timeout of the reader or the writer, a Disconnect request, a pruned
\* entry: the task ends and drops its receivers.
Close ==
  /\ Subscribed
  /\ wire' = "none" /\ Closed
  /\ UNCHANGED <<torrent, wireFaults>>

\* A pause ends every task; the next live torrent counts what the tracker has and has
\* a broadcast channel of its own.
PauseAndResume ==
  /\ wire' = "none" /\ Closed
  /\ counted' = have /\ sent' = have
  /\ UNCHANGED <<upload, private, have, wireFaults>>

-----------------------------------------------------------------------------
(* The writer *)

\* should_transmit_have: a peer whose bitfield is not allocated counts as having it.
ShouldTransmit(p) == upload /\ known /\ p \notin theirs

ReceiveHave ==
  /\ wire = "loop" /\ haves # <<>>
  /\ LET p == Head(haves) IN
     /\ told' = IF ShouldTransmit(p) THEN told \cup {p} ELSE told
     /\ wireFaults' = wireFaults \cup (IF upload /\ ~known THEN {"silent"} ELSE {})
  /\ haves' = Tail(haves)
  /\ UNCHANGED <<wire, torrent, known, theirs, claimed, scheduled, outbox>>

SendRequest ==
  /\ wire = "loop" /\ outbox # <<>>
  /\ outbox' = Tail(outbox)
  /\ UNCHANGED <<wire, torrent, haves, known, theirs, claimed, told, scheduled, wireFaults>>

\* task_upload_scheduler
Upload ==
  /\ scheduled > 0 /\ Len(outbox) < OutboxBound
  /\ outbox' = Append(outbox, "chunk")
  /\ scheduled' = scheduled - 1
  /\ UNCHANGED <<wire, torrent, haves, known, theirs, claimed, told, wireFaults>>

-----------------------------------------------------------------------------
(* The reader *)

Reading == wire \in {"decide", "serialize", "unchoke", "loop"}

\* on_bitfield; one of the wrong size is an error (Close). It replaces whatever was
\* known of the peer, so pieces may go from it.
OnBitfield(b) ==
  /\ Reading
  /\ known' = TRUE /\ theirs' = b /\ claimed' = claimed \cup b
  /\ UNCHANGED <<wire, torrent, haves, told, scheduled, outbox, wireFaults>>

OnHave(p) ==
  /\ Reading /\ p \notin theirs
  /\ known' = TRUE /\ theirs' = theirs \cup {p} /\ claimed' = claimed \cup {p}
  /\ UNCHANGED <<wire, torrent, haves, told, scheduled, outbox, wireFaults>>

ReadyToUpload(p) == upload /\ p \in have

\* on_download_request; one that is not ready or not valid is an error (Close).
OnDownloadRequest(p) ==
  /\ Reading /\ ReadyToUpload(p) /\ scheduled < OutboxBound
  /\ scheduled' = scheduled + 1
  /\ UNCHANGED <<wire, torrent, haves, known, theirs, claimed, told, outbox, wireFaults>>

\* send_metadata_piece: the index may equal the number of pieces. The slice then starts
\* behind the end and panics (the task is gone, the entry of the peer stays live), unless
\* the last piece is a full one: then it is empty and sent. A torrent without metadata
\* answers with an error (Close), a private one ignores the request.
OnMetadataRequest(i) ==
  /\ Reading /\ ~private /\ MetadataPieces > 0 /\ i <= MetadataPieces
  /\ \/ /\ i < MetadataPieces \/ MetadataExact
        /\ Len(outbox) < OutboxBound
        /\ outbox' = Append(outbox, "metadata")
        /\ UNCHANGED <<wire, haves, known, theirs, claimed, told, scheduled, wireFaults>>
     \/ /\ i = MetadataPieces /\ ~MetadataExact
        /\ wire' = "panicked" /\ Closed
        /\ wireFaults' = wireFaults \cup {"panic"}
  /\ UNCHANGED torrent

\* on_holepunch_message, Rendezvous: the initiator gets Connect when the target is
\* live, Error when it is not. A Connect adds a peer (PeerLifecycle), an Error is
\* ignored.
OnRendezvous(reply) ==
  /\ Reading /\ ~private /\ Len(outbox) < OutboxBound
  /\ outbox' = Append(outbox, reply)
  /\ UNCHANGED <<wire, torrent, haves, known, theirs, claimed, told, scheduled, wireFaults>>

WriterStep ==
  \/ SendExtendedHandshake \/ DecideBitfield \/ SerializeBitfield \/ SendUnchoke
  \/ ReceiveHave \/ SendRequest

ReaderStep ==
  \/ \E b \in SUBSET Piece : OnBitfield(b)
  \/ \E p \in Piece : OnHave(p) \/ OnDownloadRequest(p)
  \/ \E i \in 0..MetadataPieces : OnMetadataRequest(i)
  \/ \E reply \in {"connect", "notConnected"} : OnRendezvous(reply)

WireNext ==
  \/ \E p \in Piece : MarkPiece(p) \/ CountPiece(p) \/ TransmitHaves(p)
  \/ Start \/ Close \/ PauseAndResume \/ Upload
  \/ \E incoming, extension \in BOOLEAN : Handshake(incoming, extension)
  \/ WriterStep
  \/ ReaderStep

-----------------------------------------------------------------------------
\* Once the writer of a connection is in its loop, every piece the torrent announced
\* was told to the peer, is about to be, or is one the peer said it has, whatever the
\* order in which pieces are marked, counted and broadcast while the connection is set
\* up; and no piece is announced that the torrent does not have. (A peer that takes a
\* claim back with a later bitfield is not told of that piece again.) Excepted are a
\* channel that overflowed and a peer whose bitfield is not known (peer_handler.rs:250).
AnnouncesAreExact ==
  /\ told \subseteq have
  /\ wire = "loop" /\ upload /\ wireFaults = {} =>
       sent \subseteq told \cup ToSet(haves) \cup claimed
=============================================================================
