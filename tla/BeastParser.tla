---------------------------- MODULE BeastParser ----------------------------
(***************************************************************************)
(* BeastInput::parse_input: Beast binary frames out of a byte stream that   *)
(* arrives in chunks cut anywhere.                                         *)
(*                                                                         *)
(*   frame = 1A <type byte> <metadata> <data>, with each 1A in metadata or *)
(*           data doubled                                                  *)
(*                                                                         *)
(* One action is one turn of the innermost loop that is running: the scan  *)
(* of RESYNC, the copying of READ_DATA, or the outer while.  Its position  *)
(* p counts the bytes of buf that have been consumed; a read completes     *)
(* only when the previous chunk has been dealt with (buf empty).           *)
(*                                                                         *)
(* `ref' is a parser of the same frames that takes one byte at a time and  *)
(* cannot look ahead; it is moved over each byte as it is consumed and     *)
(* says what the chunked parser should make of the stream.                 *)
(***************************************************************************)
EXTENDS Integers, Sequences

CONSTANTS
  MetadataSize,    \* 7: timestamp and signal level
  message_size,    \* data bytes of each message type
  Sources,         \* the byte streams the first connection may carry
  Resumed          \* and those of the connections after it

MessageType == {"MODE_AC", "MODE_S_SHORT", "MODE_S_LONG", "STATUS", "POSITION"}

Byte == 0..255
ESC  == 26    \* 0x1A

ASSUME ParserAssumption ==
  /\ MetadataSize \in Nat \ {0}
  /\ message_size \in [MessageType -> Nat \ {0}]
  /\ Sources \subseteq Seq(Byte) /\ Resumed \subseteq Seq(Byte)

messagetype_from_byte(x) ==
  CASE x = 49 -> "MODE_AC"
    [] x = 50 -> "MODE_S_SHORT"
    [] x = 51 -> "MODE_S_LONG"
    [] x = 52 -> "STATUS"
    [] x = 53 -> "POSITION"
    [] OTHER  -> "INVALID"

VARIABLES
  state,                \* ParserState
  messagetype, metadata, messagedata,
  good_sync, good_messages_count, bad_bytes_count,
  buf, p,               \* the chunk being parsed, and how much of it is done
  last_good,            \* last_good_message_end
  dispatched,           \* the messages given to dispatch_message
  source, fed,          \* what the receiver sends, and how much was read
  ref

message == <<messagetype, metadata, messagedata>>
sync    == <<good_sync, good_messages_count>>
chunk   == <<buf, source, fed>>
vars    == <<state, message, sync, bad_bytes_count, chunk, p, last_good,
             dispatched, ref>>

-----------------------------------------------------------------------------
(* The reference parser *)

\* Between frames and the previous byte was not a 1A (or a frame has just
\* ended): SYNC.  Otherwise between frames: HUNT.
RefStart == [st |-> "SYNC", type |-> "INVALID", meta |-> <<>>, data |-> <<>>,
             good |-> 0, bytes |-> 0, out |-> <<>>]

Hunt(r, x) == [r EXCEPT !.st = IF x = ESC THEN "HUNT" ELSE "SYNC", !.good = 0,
                        !.bytes = @ + 1]

Take(r, x) ==
  IF Len(r.meta) < MetadataSize
  THEN [r EXCEPT !.st = "DATA", !.meta = Append(@, x), !.bytes = @ + 1]
  ELSE LET data == Append(r.data, x)
       IN  IF Len(data) < message_size[r.type]
           THEN [r EXCEPT !.st = "DATA", !.data = data, !.bytes = @ + 1]
           ELSE [r EXCEPT !.st = "SYNC", !.data = data, !.good = @ + 1,
                          !.bytes = 0,
                          !.out = Append(@, <<r.type, r.meta, data>>)]

Advance(r, x) ==
  CASE r.st = "HUNT" -> Hunt(r, x)
    [] r.st = "SYNC" ->
         IF x = ESC THEN [r EXCEPT !.st = "TYPE", !.bytes = @ + 1] ELSE Hunt(r, x)
    [] r.st = "TYPE" ->
         IF messagetype_from_byte(x) = "INVALID"
         THEN Hunt(r, x)
         ELSE [r EXCEPT !.st = "DATA", !.type = messagetype_from_byte(x),
                        !.meta = <<>>, !.data = <<>>, !.bytes = @ + 1]
    [] r.st = "DATA" ->
         IF x = ESC THEN [r EXCEPT !.st = "ESCAPED", !.bytes = @ + 1] ELSE Take(r, x)
    [] r.st = "ESCAPED" ->
         IF x = ESC THEN Take(r, x) ELSE Hunt(r, x)

-----------------------------------------------------------------------------
(* parse_input *)

Cur == buf[p + 1]          \* *p
Peek == buf[p + 2]         \* *(p + 1), unless AtLast
AtLast == p + 1 = Len(buf)

Consume1 == p' = p + 1 /\ ref' = Advance(ref, Cur)
Consume2 == p' = p + 2 /\ ref' = Advance(Advance(ref, Cur), Peek)

\* A mutation: losing sync does not change the state.
lost_sync_stuck ==
  /\ state' = state
  /\ good_sync' = FALSE /\ good_messages_count' = 0

lost_sync ==
  /\ state' = "RESYNC"
  /\ good_sync' = FALSE /\ good_messages_count' = 0

\* Byte x goes to the metadata or the data.  A message that is complete is
\* reported and dispatched, and the parser expects the next; n is p after it.
\* (dispatch_message may leave messagedata empty; READ_TYPE empties it anyway.)
Store(x, n) ==
  LET data == IF Len(metadata) < MetadataSize THEN messagedata
                                              ELSE Append(messagedata, x)
      done == Len(data) >= message_size[messagetype]
  IN
  /\ metadata' = IF Len(metadata) < MetadataSize THEN Append(metadata, x)
                                                 ELSE metadata
  /\ messagedata' = data
  /\ IF done
     THEN /\ state' = "READ_1A"
          /\ good_sync' = TRUE
          /\ good_messages_count' = good_messages_count + 1
          /\ bad_bytes_count' = 0
          /\ last_good' = n
          /\ dispatched' = Append(dispatched, <<messagetype, metadata, data>>)
     ELSE /\ state' = "READ_DATA"
          /\ UNCHANGED <<sync, bad_bytes_count, last_good, dispatched>>
  /\ UNCHANGED messagetype

\* A mutation of Resync: at the end of the chunk the scan just goes on.
Resync_forgets ==
  /\ state = "RESYNC"
  /\ \/ /\ Cur # ESC /\ ~AtLast /\ Peek = ESC
        /\ state' = "READ_TYPE"
        /\ Consume2
     \/ /\ ~(Cur # ESC /\ ~AtLast /\ Peek = ESC)
        /\ Consume1
        /\ UNCHANGED state
  /\ UNCHANGED <<message, sync, bad_bytes_count, last_good, dispatched>>

Resync ==
  /\ state = "RESYNC"
  /\ \/ /\ Cur # ESC /\ AtLast
        /\ state' = "READ_1A"
        /\ Consume1
     \/ /\ Cur # ESC /\ ~AtLast /\ Peek = ESC
        /\ state' = "READ_TYPE"
        /\ Consume2
     \/ /\ Cur = ESC \/ (~AtLast /\ Peek # ESC)
        /\ Consume1
        /\ UNCHANGED state
  /\ UNCHANGED <<message, sync, bad_bytes_count, last_good, dispatched>>

Read1A ==
  /\ state = "READ_1A"
  /\ \/ /\ Cur = ESC
        /\ state' = "READ_TYPE"
        /\ Consume1
        /\ UNCHANGED sync
     \/ /\ Cur # ESC
        /\ lost_sync
        /\ UNCHANGED <<p, ref>>
  /\ UNCHANGED <<message, bad_bytes_count, last_good, dispatched>>

ReadType ==
  /\ state = "READ_TYPE"
  /\ messagetype' = messagetype_from_byte(Cur)
  /\ \/ /\ messagetype' = "INVALID"
        /\ lost_sync
        /\ UNCHANGED <<p, ref, metadata, messagedata>>
     \/ /\ messagetype' # "INVALID"
        /\ metadata' = <<>> /\ messagedata' = <<>>
        /\ state' = "READ_DATA"
        /\ Consume1
        /\ UNCHANGED sync
  /\ UNCHANGED <<bad_bytes_count, last_good, dispatched>>

ReadData ==
  /\ state = "READ_DATA"
  /\ \/ /\ Cur = ESC /\ AtLast
        /\ state' = "READ_ESCAPED_1A"
        /\ Consume1
        /\ UNCHANGED <<message, sync, bad_bytes_count, last_good, dispatched>>
     \/ /\ Cur = ESC /\ ~AtLast /\ Peek # ESC
        /\ lost_sync
        /\ Consume1
        /\ UNCHANGED <<message, bad_bytes_count, last_good, dispatched>>
     \/ /\ Cur = ESC /\ ~AtLast /\ Peek = ESC
        /\ Store(Cur, p + 2)
        /\ Consume2
     \/ /\ Cur # ESC
        /\ Store(Cur, p + 1)
        /\ Consume1

ReadEscaped1A ==
  /\ state = "READ_ESCAPED_1A"
  /\ \/ /\ Cur = ESC
        /\ Store(Cur, p + 1)
        /\ Consume1
     \/ /\ Cur # ESC
        /\ lost_sync
        /\ UNCHANGED <<p, ref, message, bad_bytes_count, last_good, dispatched>>

\* One turn of parse_input's loops.
Parse ==
  /\ p < Len(buf)
  /\ Resync \/ Read1A \/ ReadType \/ ReadData \/ ReadEscaped1A
  /\ UNCHANGED chunk

\* Mutations of EndParse: the whole chunk counts as bad, messages and all; and
\* the end of the last good message is taken for one of the next chunk.
EndParse_whole_chunk ==
  /\ buf # <<>> /\ p = Len(buf)
  /\ bad_bytes_count' = IF good_sync THEN bad_bytes_count
                        ELSE bad_bytes_count + Len(buf)
  /\ buf' = <<>> /\ p' = 0 /\ last_good' = 0
  /\ UNCHANGED <<state, message, sync, dispatched, source, fed, ref>>

EndParse_stale_end ==
  /\ buf # <<>> /\ p = Len(buf)
  /\ bad_bytes_count' = IF good_sync THEN bad_bytes_count
                        ELSE bad_bytes_count + (Len(buf) - last_good)
  /\ buf' = <<>> /\ p' = 0
  /\ UNCHANGED <<state, message, sync, last_good, dispatched, source, fed, ref>>

\* The end of parse_input.
EndParse ==
  /\ buf # <<>> /\ p = Len(buf)
  /\ bad_bytes_count' = IF good_sync THEN bad_bytes_count
                        ELSE bad_bytes_count + (Len(buf) - last_good)
  /\ buf' = <<>> /\ p' = 0 /\ last_good' = 0
  /\ UNCHANGED <<state, message, sync, dispatched, source, fed, ref>>

-----------------------------------------------------------------------------
(* The connection *)

\* A read completes with the next n bytes.
Read(n) ==
  /\ buf = <<>>
  /\ buf' = SubSeq(source, fed + 1, fed + n)
  /\ fed' = fed + n
  /\ UNCHANGED <<state, message, sync, bad_bytes_count, p, last_good,
                 dispatched, source, ref>>

\* A mutation: the parser is not reset.
ConnectionEstablished_midframe ==
  /\ buf = <<>>
  /\ good_sync' = FALSE /\ good_messages_count' = 0 /\ bad_bytes_count' = 0
  /\ source' \in Resumed /\ fed' = 0
  /\ dispatched' = <<>> /\ ref' = RefStart
  /\ UNCHANGED <<state, message, buf, p, last_good>>

\* connection_established, as far as the parser is concerned: a new stream from
\* a receiver that starts anywhere.  What was dispatched before is history.
ConnectionEstablished ==
  /\ buf = <<>>
  /\ state' = "READ_1A"
  /\ good_sync' = FALSE /\ good_messages_count' = 0 /\ bad_bytes_count' = 0
  /\ source' \in Resumed /\ fed' = 0
  /\ dispatched' = <<>> /\ ref' = RefStart
  /\ UNCHANGED <<message, buf, p, last_good>>

Init ==
  /\ state = "READ_1A"
  /\ messagetype = "INVALID" /\ metadata = <<>> /\ messagedata = <<>>
  /\ good_sync = FALSE /\ good_messages_count = 0 /\ bad_bytes_count = 0
  /\ buf = <<>> /\ p = 0 /\ last_good = 0
  /\ source \in Sources /\ fed = 0
  /\ dispatched = <<>> /\ ref = RefStart

Next ==
  \/ Parse
  \/ EndParse
  \/ \E n \in 1..Len(source) - fed : Read(n)
  \/ ConnectionEstablished

Spec == Init /\ [][Next]_vars

\* parse_input runs to its end once called.
FairSpec == Spec /\ WF_vars(Parse \/ EndParse)

-----------------------------------------------------------------------------

Message == MessageType \X Seq(Byte) \X Seq(Byte)

\* Type correctness of the parser's state.
TypeOK ==
  /\ state \in {"RESYNC", "READ_1A", "READ_TYPE", "READ_DATA", "READ_ESCAPED_1A"}
  /\ messagetype \in MessageType \cup {"INVALID"}
  /\ metadata \in Seq(Byte) /\ messagedata \in Seq(Byte)
  /\ good_sync \in BOOLEAN
  /\ good_messages_count \in Nat /\ bad_bytes_count \in Nat
  /\ buf \in Seq(Byte) /\ p \in 0..Len(buf) /\ last_good \in 0..p
  /\ dispatched \in Seq(Message)
  /\ source \in Sources \cup Resumed /\ fed \in 0..Len(source)

\* How the stream is cut into reads makes no difference: what has been
\* dispatched is what the byte-at-a-time parser has found in the bytes consumed
\* so far, and when a chunk has been dealt with the two also agree on the run of
\* good messages.
ChunkIndependent ==
  /\ dispatched = ref.out
  /\ p = Len(buf) => /\ good_messages_count = ref.good
                     /\ good_sync <=> ref.good > 0

\* bad_bytes(), by which SerialInput gives up a baud rate and NetInput warns,
\* never counts a byte twice nor one that was part of a good message: it is at
\* most the number of bytes since the last one.
BadBytesNotOvercounted == bad_bytes_count <= ref.bytes

\* parse_input comes to an end whatever the bytes: losing sync without
\* consuming a byte is never repeated at the same place.
ParseEnds == buf # <<>> ~> buf = <<>>
=============================================================================
