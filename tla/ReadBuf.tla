------------------------------ MODULE ReadBuf ------------------------------
(***************************************************************************)
(* The ring buffer a connection reads its messages from. A byte is its     *)
(* position in the stream of the peer. The deserializer is external: given *)
(* the two slices it returns a message that is complete, asks for more     *)
(* bytes, or asks for one slice when the message is split over the end.    *)
(***************************************************************************)
EXTENDS Naturals, Sequences, SequencesExt

CONSTANTS
  BufLen,         \* BUFLEN
  HandshakeLen,
  MessageLens,    \* lengths of the messages of a peer
  MaxBytes        \* bound on the bytes a peer sends

ASSUME RingAssumption ==
  /\ BufLen \in Nat \ {0} /\ HandshakeLen \in 1..BufLen
  /\ MessageLens \subseteq Nat \ {0} /\ MaxBytes \in Nat

VARIABLES
  ring, start, len,   \* ReadBuf
  fetched, consumed,  \* bytes taken from the socket, bytes of messages returned
  message,            \* length of the message being read
  whole,              \* the message can only be parsed from one slice
  need,               \* need_additional_bytes
  reader              \* where the reader of the connection is

ringVars == <<ring, start, len, fetched, consumed, message, whole, need, reader>>

Empty == [i \in 0..(BufLen - 1) |-> 0]

RingInit ==
  /\ ring = Empty /\ start = 0 /\ len = 0 /\ fetched = 0 /\ consumed = 0
  /\ message = 0 /\ whole = FALSE /\ need = 0 /\ reader = "handshake"

LeastOf(a, b) == IF a < b THEN a ELSE b

\* as_slice_ranges
FirstLen == LeastOf(len, BufLen - start)
First == [i \in 1..FirstLen |-> ring[start + i - 1]]
Second == [i \in 1..(len - FirstLen) |-> ring[i - 1]]

\* unfilled_ioslices: the slots a read fills, in their order.
Unfilled == [i \in 1..(BufLen - len) |-> (start + len + i - 1) % BufLen]

IsFull == len = BufLen
IsContiguous == start + len = (start + len) % BufLen

\* The slots of a read of n bytes receive the next bytes of the stream.
Filled(n) ==
  [i \in DOMAIN ring |->
     IF \E j \in 1..n : Unfilled[j] = i
       THEN fetched + (CHOOSE j \in 1..n : Unfilled[j] = i)
       ELSE ring[i]]

\* read_handshake: a single read, whatever it returns.
ReadHandshake(n) ==
  /\ reader = "handshake" /\ n <= BufLen /\ fetched + n <= MaxBytes
  /\ ring' = Filled(n) /\ fetched' = n
  /\ IF n < HandshakeLen
       THEN reader' = "short" /\ len' = n /\ UNCHANGED <<start, consumed>>
       ELSE /\ reader' = "parse" /\ len' = n - HandshakeLen
            /\ start' = HandshakeLen % BufLen /\ consumed' = HandshakeLen
  /\ UNCHANGED <<message, whole, need>>

\* What comes next in the stream is decided when the parser first looks at it.
NextMessage(size, oneSlice) ==
  /\ reader = "parse" /\ message = 0
  /\ message' = size /\ whole' = oneSlice
  /\ UNCHANGED <<ring, start, len, fetched, consumed, need, reader>>

Split == start + LeastOf(message, len) > BufLen

Return ==
  /\ reader = "parse" /\ message # 0 /\ len >= message /\ ~(whole /\ Split)
  /\ len' = len - message /\ start' = (start + message) % BufLen
  /\ consumed' = consumed + message /\ message' = 0
  /\ UNCHANGED <<ring, fetched, whole, need, reader>>

\* NotEnoughData names at least one byte and no more than the message lacks.
NotEnoughData(n) ==
  /\ reader = "parse" /\ message # 0 /\ len < message
  /\ n \in 1..(message - len)
  /\ need' = n /\ reader' = "fill"
  /\ UNCHANGED <<ring, start, len, fetched, consumed, message, whole>>

\* The loop of read_message: a read fills the first free slice, or both.
Fill(n) ==
  /\ reader = "fill" /\ need > 0 /\ ~IsFull
  /\ n \in 1..(BufLen - len) /\ fetched + n <= MaxBytes
  /\ ring' = Filled(n) /\ len' = len + n /\ fetched' = fetched + n
  /\ need' = IF n >= need THEN 0 ELSE need - n
  /\ UNCHANGED <<start, consumed, message, whole, reader>>

FillEnds ==
  /\ reader = "fill" /\ (need = 0 \/ IsFull)
  /\ reader' = IF need = 0 THEN "parse" ELSE "full"
  /\ UNCHANGED <<ring, start, len, fetched, consumed, message, whole, need>>

\* Mutant: the bytes move to the front and the start does not.
MakeContiguousKeepingStart ==
  /\ reader = "parse" /\ message # 0 /\ whole /\ Split
  /\ ring' = [i \in DOMAIN ring |-> IF i < len THEN (First \o Second)[i + 1] ELSE 0]
  /\ UNCHANGED <<start, len, fetched, consumed, message, whole, need, reader>>

MakeContiguous ==
  /\ reader = "parse" /\ message # 0 /\ whole /\ Split
  /\ IF IsContiguous
       THEN reader' = "bug" /\ UNCHANGED <<ring, start>>
       ELSE /\ ring' = [i \in DOMAIN ring |-> IF i < len THEN (First \o Second)[i + 1] ELSE 0]
            /\ start' = 0 /\ UNCHANGED reader
  /\ UNCHANGED <<len, fetched, consumed, message, whole, need>>

\* The peer disconnects, or the task ends with an error; the next connection has a new
\* buffer.
Reconnect ==
  /\ ring' = Empty /\ start' = 0 /\ len' = 0 /\ fetched' = 0 /\ consumed' = 0
  /\ message' = 0 /\ whole' = FALSE /\ need' = 0 /\ reader' = "handshake"

RingNext ==
  \/ \E n \in 1..BufLen : ReadHandshake(n) \/ Fill(n)
  \/ \E size \in MessageLens, oneSlice \in BOOLEAN : NextMessage(size, oneSlice)
  \/ \E n \in MessageLens : NotEnoughData(n)
  \/ Return \/ FillEnds \/ MakeContiguous \/ Reconnect

-----------------------------------------------------------------------------
\* Wherever messages end, wrap and are moved, the two slices the parser gets are the
\* bytes the peer sent next, in order; the reader gives up on a full buffer only for a
\* message longer than the buffer, and never asks to move bytes that are contiguous.
BytesInOrder ==
  /\ reader # "short" => First \o Second = [i \in 1..(fetched - consumed) |-> consumed + i]
  /\ reader = "full" => message > BufLen
  /\ reader # "bug"
=============================================================================
