---------------------------- MODULE BeastFraming ----------------------------
(***************************************************************************)
(* Both ends of a Beast connection: SocketOutput::write_binary frames what  *)
(* BeastInput::parse_input is to recover, as when one splitter feeds        *)
(* another.                                                                 *)
(***************************************************************************)
EXTENDS BeastParser, SequencesExt

CONSTANT
  MessageLists,   \* sequences of messages that are written
  Noise           \* byte sequences without 1A that may come before them

messagetype_to_byte ==
  [MODE_AC |-> 49, MODE_S_SHORT |-> 50, MODE_S_LONG |-> 51, STATUS |-> 52]

\* The messages that are written: of the types that have a byte, with the
\* metadata, and the data of the size, that parse_input reads.
Writable == {m \in Message : /\ m[1] \in DOMAIN messagetype_to_byte
                             /\ Len(m[2]) = MetadataSize
                             /\ Len(m[3]) = message_size[m[1]]}

ASSUME FramingAssumption ==
  /\ MessageLists \subseteq Seq(Writable)
  /\ Noise \subseteq Seq(Byte \ {ESC})

\* What is appended to outbuf for one byte, and for the first k of s.
push_back_beast(x) == IF x = ESC THEN <<ESC, ESC>> ELSE <<x>>

Escaping(s) ==
  LET e[k \in 0..Len(s)] == IF k = 0 THEN <<>> ELSE e[k - 1] \o push_back_beast(s[k])
  IN  e

write_binary(m) ==
  LET body == m[2] \o m[3]
  IN  <<ESC, messagetype_to_byte[m[1]]>> \o Escaping(body)[Len(body)]

\* What is in outbuf after the first k messages.
Writing(ms) ==
  LET w[k \in 0..Len(ms)] == IF k = 0 THEN <<>> ELSE w[k - 1] \o write_binary(ms[k])
  IN  w

Written(ms) == Writing(ms)[Len(ms)]

Framed == {[bytes |-> noise \o Written(ms), sent |-> ms] :
             noise \in Noise, ms \in MessageLists}

\* A peer that reads from the first frame on, or joins behind some noise, gets
\* exactly the messages that were written, in order, however the bytes are cut
\* up and whatever 1A and type bytes the messages contain; also on a connection
\* that follows one broken off in the middle of a frame.
RoundTrip ==
  \A f \in Framed :
    source = f.bytes =>
      /\ IsPrefix(dispatched, f.sent)
      /\ fed = Len(source) /\ buf = <<>> => dispatched = f.sent
=============================================================================
