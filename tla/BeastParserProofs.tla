------------------------- MODULE BeastParserProofs -------------------------
(***************************************************************************)
(* For every metadata size, every table of message sizes and every stream, *)
(* of any length and cut into reads in any way: BeastInput::parse_input is *)
(* type correct, finds the messages a byte-at-a-time parser finds, and     *)
(* never overcounts bad bytes.                                             *)
(*                                                                         *)
(* The invariant relates the two parsers' states.  Only RESYNC needs       *)
(* thought: the code gives up a frame before it has consumed the byte that *)
(* broke it, so the reference parser may still be anywhere; but it too     *)
(* will start hunting at that byte.                                        *)
(*                                                                         *)
(* For every list of messages, what SocketOutput::write_binary makes of it *)
(* is read back.  By induction over bytes and then messages the reference  *)
(* parser, started between frames, finds the messages in what is written   *)
(* (StreamRead); InStream says that it has been over the bytes consumed so *)
(* far and no others; and parse_input agrees with it.                      *)
(***************************************************************************)
EXTENDS BeastFraming, SequenceTheorems, WellFoundedInduction, TLAPS

RefState == {"HUNT", "SYNC", "TYPE", "DATA", "ESCAPED"}
ByteType == MessageType \cup {"INVALID"}
Bytes    == Seq(Byte)
Messages == Seq(Message)

RefType ==
  [st : RefState, type : ByteType, meta : Bytes, data : Bytes,
   good : Nat, bytes : Nat, out : Messages]

\* Both parsers count the same run of good messages.
SameRun ==
  /\ good_messages_count = ref.good
  /\ \/ good_sync = TRUE /\ ref.good > 0
     \/ good_sync = FALSE /\ ref.good = 0

\* Both are in the middle of the same message, and it is not complete.
SameMessage ==
  /\ messagetype \in MessageType
  /\ ref.type = messagetype /\ ref.meta = metadata /\ ref.data = messagedata
  /\ Len(messagedata) < message_size[messagetype]

\* In RESYNC the reference parser hunts, or the next byte makes it do so.
Hunting ==
  /\ good_messages_count = 0 /\ good_sync = FALSE
  /\ p = Len(buf) => ref.st = "HUNT" /\ ref.good = 0
  /\ p < Len(buf) => Advance(ref, Cur) = Hunt(ref, Cur)

Corresponds ==
  /\ dispatched = ref.out
  /\ state = "RESYNC" => Hunting
  /\ state = "READ_1A" => ref.st = "SYNC" /\ SameRun
  /\ state = "READ_TYPE" => ref.st = "TYPE" /\ SameRun
  /\ state = "READ_DATA" => ref.st = "DATA" /\ SameRun /\ SameMessage
  /\ state = "READ_ESCAPED_1A" => ref.st = "ESCAPED" /\ SameRun /\ SameMessage

\* Bytes of this chunk that may still be counted as bad are accounted for.
BadBytesAccounted == bad_bytes_count + (p - last_good) <= ref.bytes

Inv == TypeOK /\ ref \in RefType /\ Corresponds /\ BadBytesAccounted

-----------------------------------------------------------------------------
(* The reference parser's moves *)

LEMMA TypeByte ==
  ASSUME NEW x
  PROVE  messagetype_from_byte(x) \in ByteType
BY DEF messagetype_from_byte, MessageType, ByteType

\* The types of the fields; RefType is not expanded together with these.
LEMMA RefFields ==
  ASSUME NEW r \in RefType
  PROVE  /\ r.st \in RefState /\ r.type \in ByteType /\ r.meta \in Bytes
         /\ r.data \in Bytes /\ r.good \in Nat /\ r.bytes \in Nat
         /\ r.out \in Messages /\ r.bytes + 1 \in Nat /\ r.good + 1 \in Nat
         /\ RefState = {"HUNT", "SYNC", "TYPE", "DATA", "ESCAPED"}
<1>1. /\ r.st \in RefState /\ r.type \in ByteType /\ r.meta \in Bytes
      /\ r.data \in Bytes /\ r.good \in Nat /\ r.bytes \in Nat
      /\ r.out \in Messages
  BY DEF RefType
<1>2. QED
  BY <1>1 DEF RefState

\* Hunting goes on with the next byte, and forgets the run of good messages.
LEMMA HuntMove ==
  ASSUME NEW r \in RefType, NEW x \in Byte
  PROVE  /\ Hunt(r, x) \in RefType
         /\ Hunt(r, x).st = IF x = ESC THEN "HUNT" ELSE "SYNC"
         /\ Hunt(r, x).good = 0
         /\ Hunt(r, x).bytes = r.bytes + 1
         /\ Hunt(r, x).out = r.out
<1>1. PICK st, bytes, zero : /\ st = IF x = ESC THEN "HUNT" ELSE "SYNC"
                             /\ bytes = r.bytes + 1 /\ zero = 0
  OBVIOUS
<1>2. st \in RefState /\ bytes \in Nat /\ zero \in Nat
  BY <1>1, RefFields
<1>3. Hunt(r, x) = [r EXCEPT !.st = st, !.good = zero, !.bytes = bytes]
  BY <1>1 DEF Hunt
<1>4. Hunt(r, x) \in RefType
  BY <1>2, <1>3 DEF RefType
<1>5. /\ Hunt(r, x).st = st /\ Hunt(r, x).good = zero
      /\ Hunt(r, x).bytes = bytes /\ Hunt(r, x).out = r.out
  BY <1>3 DEF RefType
<1>6. QED
  BY <1>1, <1>4, <1>5

\* A byte of an incomplete message goes to its metadata,
LEMMA TakeMeta ==
  ASSUME NEW r \in RefType, NEW x \in Byte, Len(r.meta) < MetadataSize
  PROVE  /\ Take(r, x) \in RefType
         /\ Take(r, x).type = r.type
         /\ Take(r, x).meta = Append(r.meta, x) /\ Take(r, x).data = r.data
         /\ Take(r, x).st = "DATA" /\ Take(r, x).good = r.good
         /\ Take(r, x).bytes = r.bytes + 1 /\ Take(r, x).out = r.out
<1>1. PICK meta, bytes : meta = Append(r.meta, x) /\ bytes = r.bytes + 1
  OBVIOUS
<1>2. meta \in Bytes /\ bytes \in Nat /\ "DATA" \in RefState
  BY <1>1, RefFields DEF Bytes
<1>3. Take(r, x) = [r EXCEPT !.st = "DATA", !.meta = meta, !.bytes = bytes]
  BY <1>1 DEF Take
<1>4. Take(r, x) \in RefType
  BY <1>2, <1>3 DEF RefType
<1>5. /\ Take(r, x).st = "DATA" /\ Take(r, x).type = r.type
      /\ Take(r, x).meta = meta /\ Take(r, x).data = r.data
      /\ Take(r, x).good = r.good /\ Take(r, x).bytes = bytes
      /\ Take(r, x).out = r.out
  BY <1>3 DEF RefType
<1>6. QED
  BY <1>1, <1>4, <1>5

\* or to its data,
LEMMA TakeData ==
  ASSUME NEW r \in RefType, NEW x \in Byte, ~(Len(r.meta) < MetadataSize),
         Len(Append(r.data, x)) < message_size[r.type]
  PROVE  /\ Take(r, x) \in RefType
         /\ Take(r, x).type = r.type
         /\ Take(r, x).meta = r.meta /\ Take(r, x).data = Append(r.data, x)
         /\ Take(r, x).st = "DATA" /\ Take(r, x).good = r.good
         /\ Take(r, x).bytes = r.bytes + 1 /\ Take(r, x).out = r.out
<1>1. PICK data, bytes : data = Append(r.data, x) /\ bytes = r.bytes + 1
  OBVIOUS
<1>2. data \in Bytes /\ bytes \in Nat /\ "DATA" \in RefState
  BY <1>1, RefFields DEF Bytes
<1>3. Take(r, x) = [r EXCEPT !.st = "DATA", !.data = data, !.bytes = bytes]
  BY <1>1 DEF Take
<1>4. Take(r, x) \in RefType
  BY <1>2, <1>3 DEF RefType
<1>5. /\ Take(r, x).st = "DATA" /\ Take(r, x).type = r.type
      /\ Take(r, x).meta = r.meta /\ Take(r, x).data = data
      /\ Take(r, x).good = r.good /\ Take(r, x).bytes = bytes
      /\ Take(r, x).out = r.out
  BY <1>3 DEF RefType
<1>6. QED
  BY <1>1, <1>4, <1>5

\* and the last one completes it.
LEMMA TakeLast ==
  ASSUME NEW r \in RefType, NEW x \in Byte, ~(Len(r.meta) < MetadataSize),
         r.type \in MessageType,
         ~(Len(Append(r.data, x)) < message_size[r.type])
  PROVE  /\ Take(r, x) \in RefType
         /\ Take(r, x).st = "SYNC" /\ Take(r, x).good = r.good + 1
         /\ Take(r, x).bytes = 0
         /\ Take(r, x).out = Append(r.out, <<r.type, r.meta, Append(r.data, x)>>)
<1>1. PICK data, good, zero : data = Append(r.data, x) /\ good = r.good + 1 /\ zero = 0
  OBVIOUS
<1>2. data \in Bytes /\ good \in Nat /\ zero \in Nat /\ "SYNC" \in RefState
  BY <1>1, RefFields DEF Bytes
<1>3. PICK out : out = Append(r.out, <<r.type, r.meta, data>>)
  OBVIOUS
<1>4. <<r.type, r.meta, data>> \in Message
  BY <1>2, RefFields DEF Message, Bytes
<1>5. out \in Messages
  BY <1>3, <1>4, RefFields DEF Messages
<1>6. Take(r, x) = [r EXCEPT !.st = "SYNC", !.data = data, !.good = good,
                             !.bytes = zero, !.out = out]
  BY <1>1, <1>3 DEF Take
<1>7. Take(r, x) \in RefType
  BY <1>2, <1>5, <1>6 DEF RefType
<1>8. /\ Take(r, x).st = "SYNC" /\ Take(r, x).good = good
      /\ Take(r, x).bytes = zero /\ Take(r, x).out = out
  BY <1>6 DEF RefType
<1>9. QED
  BY <1>1, <1>3, <1>7, <1>8

\* A 1A starts a frame,
LEMMA StartMove ==
  ASSUME NEW r \in RefType, r.st = "SYNC", NEW t, t = Advance(r, ESC)
  PROVE  /\ t \in RefType /\ t.st = "TYPE"
         /\ t.good = r.good /\ t.bytes = r.bytes + 1 /\ t.out = r.out
<1>1. PICK bytes : bytes = r.bytes + 1
  OBVIOUS
<1>2. bytes \in Nat /\ "TYPE" \in RefState
  BY <1>1, RefFields
<1>3. t = [r EXCEPT !.st = "TYPE", !.bytes = bytes]
  BY <1>1 DEF Advance
<1>4. t \in RefType
  BY <1>2, <1>3 DEF RefType
<1>5. t.st = "TYPE" /\ t.good = r.good /\ t.bytes = bytes /\ t.out = r.out
  BY <1>3 DEF RefType
<1>6. QED
  BY <1>1, <1>4, <1>5

\* a type byte a message,
LEMMA TypeMove ==
  ASSUME NEW r \in RefType, NEW x \in Byte, r.st = "TYPE",
         NEW type \in MessageType, type = messagetype_from_byte(x),
         NEW t, t = Advance(r, x)
  PROVE  /\ t \in RefType /\ t.st = "DATA"
         /\ t.type = type /\ t.meta = <<>> /\ t.data = <<>>
         /\ t.good = r.good /\ t.bytes = r.bytes + 1 /\ t.out = r.out
<1>1. PICK bytes, none : bytes = r.bytes + 1 /\ none = <<>>
  OBVIOUS
<1>2. bytes \in Nat /\ "DATA" \in RefState /\ type \in ByteType /\ type # "INVALID"
  BY <1>1, RefFields DEF ByteType, MessageType
<1>3. none \in Bytes
  BY <1>1 DEF Bytes
<1>4. t = [r EXCEPT !.st = "DATA", !.type = type, !.meta = none, !.data = none,
                    !.bytes = bytes]
  BY <1>1, <1>2 DEF Advance
<1>5. t \in RefType
  BY <1>2, <1>3, <1>4 DEF RefType
<1>6. /\ t.st = "DATA" /\ t.type = type /\ t.meta = none /\ t.data = none
      /\ t.good = r.good /\ t.bytes = bytes /\ t.out = r.out
  BY <1>4 DEF RefType
<1>7. QED
  BY <1>1, <1>5, <1>6

\* and a 1A in a message waits for its double.
LEMMA EscapeMove ==
  ASSUME NEW r \in RefType, r.st = "DATA", NEW t, t = Advance(r, ESC)
  PROVE  /\ t \in RefType /\ t.st = "ESCAPED"
         /\ t.type = r.type /\ t.meta = r.meta /\ t.data = r.data
         /\ t.good = r.good /\ t.bytes = r.bytes + 1 /\ t.out = r.out
<1>1. PICK bytes : bytes = r.bytes + 1
  OBVIOUS
<1>2. bytes \in Nat /\ "ESCAPED" \in RefState
  BY <1>1, RefFields
<1>3. t = [r EXCEPT !.st = "ESCAPED", !.bytes = bytes]
  BY <1>1 DEF Advance
<1>4. t \in RefType
  BY <1>2, <1>3 DEF RefType
<1>5. /\ t.st = "ESCAPED" /\ t.type = r.type /\ t.meta = r.meta
      /\ t.data = r.data /\ t.good = r.good /\ t.bytes = bytes /\ t.out = r.out
  BY <1>3 DEF RefType
<1>6. QED
  BY <1>1, <1>4, <1>5

\* A byte that does not fit makes it hunt, and in a message any other is taken.
LEMMA OtherMoves ==
  ASSUME NEW r, NEW x
  PROVE  /\ r.st = "HUNT" => Advance(r, x) = Hunt(r, x)
         /\ r.st = "SYNC" /\ x # ESC => Advance(r, x) = Hunt(r, x)
         /\ r.st = "TYPE" /\ messagetype_from_byte(x) = "INVALID" =>
              Advance(r, x) = Hunt(r, x)
         /\ r.st = "DATA" /\ x # ESC => Advance(r, x) = Take(r, x)
         /\ r.st = "ESCAPED" /\ x = ESC => Advance(r, x) = Take(r, x)
         /\ r.st = "ESCAPED" /\ x # ESC => Advance(r, x) = Hunt(r, x)
BY DEF Advance

-----------------------------------------------------------------------------
(* The invariant *)

LEMMA InitInv == Init => Inv
<1> SUFFICES ASSUME Init PROVE Inv
  OBVIOUS
<1>1. TypeOK
  <2>1. source \in Seq(Byte) /\ source \in Sources \cup Resumed
    BY ParserAssumption DEF Init
  <2>2. fed \in 0..Len(source)
    BY <2>1 DEF Init
  <2>3. /\ buf \in Seq(Byte) /\ p \in 0..Len(buf) /\ last_good \in 0..p
        /\ metadata \in Seq(Byte) /\ messagedata \in Seq(Byte)
        /\ dispatched \in Seq(Message)
    BY DEF Init
  <2>4. QED
    BY <2>1, <2>2, <2>3 DEF Init, TypeOK
<1>2. RefStart \in RefType
  <2>1. /\ "SYNC" \in RefState /\ "INVALID" \in ByteType
        /\ <<>> \in Bytes /\ <<>> \in Messages
    BY DEF RefState, ByteType, Bytes, Messages
  <2>2. QED
    BY <2>1 DEF RefStart, RefType
<1>3. /\ ref.out = <<>> /\ ref.st = "SYNC" /\ ref.good = 0 /\ ref.bytes = 0
  BY DEF Init, RefStart
<1>4. Corresponds /\ BadBytesAccounted
  BY <1>3 DEF Init, Corresponds, BadBytesAccounted, SameRun
<1>5. QED
  BY <1>1, <1>2, <1>4 DEF Inv, Init

\* The bytes a turn looks at are bytes of the chunk.
LEMMA Looks ==
  ASSUME TypeOK, p < Len(buf)
  PROVE  /\ Cur \in Byte /\ p + 1 \in 0..Len(buf) /\ ESC \in Byte
         /\ ~AtLast => Peek \in Byte /\ p + 2 \in 0..Len(buf)
         /\ p \in Nat /\ last_good \in Nat /\ last_good <= p
<1>1. /\ buf \in Seq(Byte) /\ Len(buf) \in Nat /\ p \in Nat
      /\ last_good \in Nat /\ last_good <= p
  BY DEF TypeOK
<1>2. p + 1 \in 1..Len(buf) /\ (~AtLast => p + 2 \in 1..Len(buf))
  BY <1>1 DEF AtLast
<1>3. Cur \in Byte /\ (~AtLast => Peek \in Byte)
  BY <1>1, <1>2 DEF Cur, Peek
<1>4. QED
  BY <1>1, <1>2, <1>3 DEF Byte, ESC

\* The scan for a frame.
LEMMA ResyncInv ==
  ASSUME Inv, p < Len(buf), Resync, UNCHANGED chunk
  PROVE  Inv'
<1> USE DEF Inv
<1>1. /\ ref \in RefType /\ TypeOK /\ ref.bytes \in Nat
      /\ dispatched = ref.out
      /\ bad_bytes_count + (p - last_good) <= ref.bytes
  BY RefFields DEF Corresponds, BadBytesAccounted
<1>2. /\ good_messages_count = 0 /\ good_sync = FALSE
      /\ Advance(ref, Cur) = Hunt(ref, Cur)
  BY DEF Resync, Corresponds, Hunting
<1>3. /\ Cur \in Byte /\ p + 1 \in 0..Len(buf)
      /\ ~AtLast => Peek \in Byte /\ p + 2 \in 0..Len(buf)
      /\ p \in Nat /\ last_good \in Nat /\ last_good <= p
  BY Looks
<1>4. PICK r : r = Advance(ref, Cur)
  OBVIOUS
<1>5. /\ r \in RefType
      /\ r.st = IF Cur = ESC THEN "HUNT" ELSE "SYNC"
      /\ r.good = 0 /\ r.bytes = ref.bytes + 1 /\ r.out = ref.out
  BY <1>1, <1>2, <1>3, <1>4, HuntMove
<1>6. /\ messagetype' = messagetype /\ metadata' = metadata
      /\ messagedata' = messagedata /\ good_sync' = good_sync
      /\ good_messages_count' = good_messages_count
      /\ bad_bytes_count' = bad_bytes_count /\ last_good' = last_good
      /\ dispatched' = dispatched /\ buf' = buf /\ source' = source /\ fed' = fed
  BY DEF Resync, message, sync, chunk
<1>7. CASE Cur # ESC /\ AtLast /\ state' = "READ_1A" /\ Consume1
  <2>1. ref' = r /\ p' = p + 1
    BY <1>4, <1>7 DEF Consume1
  <2>2. TypeOK'
    BY <1>1, <1>3, <1>6, <1>7, <2>1 DEF TypeOK
  <2>3. Corresponds'
    BY <1>1, <1>2, <1>5, <1>6, <1>7, <2>1 DEF Corresponds, SameRun
  <2>4. BadBytesAccounted'
    BY <1>1, <1>3, <1>5, <1>6, <2>1 DEF BadBytesAccounted, TypeOK
  <2>5. QED
    BY <1>5, <2>1, <2>2, <2>3, <2>4
<1>8. CASE Cur # ESC /\ ~AtLast /\ Peek = ESC /\ state' = "READ_TYPE" /\ Consume2
  <2>1. ref' = Advance(r, ESC) /\ p' = p + 2
    BY <1>4, <1>8 DEF Consume2
  <2>2. /\ ref' \in RefType /\ ref'.st = "TYPE" /\ ref'.good = 0
        /\ ref'.bytes = r.bytes + 1 /\ ref'.out = r.out
    BY <1>5, <1>8, <2>1, StartMove
  <2>3. TypeOK'
    BY <1>1, <1>3, <1>6, <1>8, <2>1 DEF TypeOK
  <2>4. Corresponds'
    BY <1>1, <1>2, <1>5, <1>6, <1>8, <2>2 DEF Corresponds, SameRun
  <2>5. BadBytesAccounted'
    BY <1>1, <1>3, <1>5, <1>6, <2>1, <2>2 DEF BadBytesAccounted, TypeOK
  <2>6. QED
    BY <2>2, <2>3, <2>4, <2>5
<1>9. CASE (Cur = ESC \/ (~AtLast /\ Peek # ESC)) /\ Consume1 /\ state' = state
  <2>1. ref' = r /\ p' = p + 1
    BY <1>4, <1>9 DEF Consume1
  <2>2. TypeOK'
    BY <1>1, <1>3, <1>6, <1>9, <2>1 DEF TypeOK
  <2>3. p' = Len(buf') => ref'.st = "HUNT" /\ ref'.good = 0
    BY <1>5, <1>6, <1>9, <2>1 DEF AtLast
  <2>4. p' < Len(buf') => Advance(ref', Cur') = Hunt(ref', Cur')
    <3>1. Cur' = Peek
      BY <1>3, <1>6, <2>1 DEF Cur, Peek
    <3>2. r.st = "HUNT" \/ (r.st = "SYNC" /\ Peek # ESC)
      BY <1>5, <1>9
    <3>3. Advance(r, Peek) = Hunt(r, Peek)
      BY <3>2, OtherMoves
    <3>4. QED
      BY <2>1, <3>1, <3>3
  <2>5. Corresponds'
    <3>1. state' = "RESYNC"
      BY <1>9 DEF Resync
    <3>2. Hunting'
      BY <1>2, <1>6, <2>3, <2>4 DEF Hunting
    <3>3. QED
      BY <1>1, <1>5, <1>6, <2>1, <3>1, <3>2 DEF Corresponds
  <2>6. BadBytesAccounted'
    BY <1>1, <1>3, <1>5, <1>6, <2>1 DEF BadBytesAccounted, TypeOK
  <2>7. QED
    BY <1>5, <2>1, <2>2, <2>5, <2>6
<1>10. QED
  BY <1>7, <1>8, <1>9 DEF Resync

LEMMA Read1AInv ==
  ASSUME Inv, p < Len(buf), Read1A, UNCHANGED chunk
  PROVE  Inv'
<1> USE DEF Inv
<1>1. /\ ref \in RefType /\ TypeOK /\ ref.bytes \in Nat /\ ref.good \in Nat
      /\ dispatched = ref.out /\ ref.st = "SYNC" /\ SameRun
      /\ bad_bytes_count + (p - last_good) <= ref.bytes
  BY RefFields DEF Read1A, Corresponds, BadBytesAccounted
<1>2. /\ Cur \in Byte /\ p + 1 \in 0..Len(buf)
      /\ p \in Nat /\ last_good \in Nat /\ last_good <= p
  BY Looks
<1>3. /\ messagetype' = messagetype /\ metadata' = metadata
      /\ messagedata' = messagedata
      /\ bad_bytes_count' = bad_bytes_count /\ last_good' = last_good
      /\ dispatched' = dispatched /\ buf' = buf /\ source' = source /\ fed' = fed
  BY DEF Read1A, message, chunk
<1>4. CASE Cur = ESC /\ state' = "READ_TYPE" /\ Consume1 /\ UNCHANGED sync
  <2>1. /\ ref' = Advance(ref, ESC) /\ p' = p + 1
        /\ good_sync' = good_sync /\ good_messages_count' = good_messages_count
    BY <1>4 DEF Consume1, sync
  <2>2. /\ ref' \in RefType /\ ref'.st = "TYPE" /\ ref'.good = ref.good
        /\ ref'.bytes = ref.bytes + 1 /\ ref'.out = ref.out
    BY <1>1, <2>1, StartMove
  <2>3. TypeOK'
    BY <1>1, <1>2, <1>3, <1>4, <2>1 DEF TypeOK
  <2>4. Corresponds'
    BY <1>1, <1>3, <1>4, <2>1, <2>2 DEF Corresponds, SameRun
  <2>5. BadBytesAccounted'
    BY <1>1, <1>2, <1>3, <2>1, <2>2 DEF BadBytesAccounted, TypeOK
  <2>6. QED
    BY <2>2, <2>3, <2>4, <2>5
<1>5. CASE Cur # ESC /\ lost_sync /\ UNCHANGED <<p, ref>>
  <2>1. /\ state' = "RESYNC" /\ good_sync' = FALSE /\ good_messages_count' = 0
        /\ p' = p /\ ref' = ref
    BY <1>5 DEF lost_sync
  <2>2. TypeOK'
    BY <1>1, <1>3, <2>1 DEF TypeOK
  <2>3. Hunting'
    <3>1. Advance(ref, Cur) = Hunt(ref, Cur)
      BY <1>1, <1>5, OtherMoves
    <3>2. Cur' = Cur
      BY <1>3, <2>1 DEF Cur
    <3>3. QED
      BY <1>3, <2>1, <3>1, <3>2 DEF Hunting
  <2>4. Corresponds'
    BY <1>1, <1>3, <2>1, <2>3 DEF Corresponds
  <2>5. BadBytesAccounted'
    BY <1>1, <1>3, <2>1 DEF BadBytesAccounted
  <2>6. QED
    BY <1>1, <2>1, <2>2, <2>4, <2>5
<1>6. QED
  BY <1>4, <1>5 DEF Read1A

LEMMA ReadTypeInv ==
  ASSUME Inv, p < Len(buf), ReadType, UNCHANGED chunk
  PROVE  Inv'
<1> USE DEF Inv
<1>1. /\ ref \in RefType /\ TypeOK /\ ref.bytes \in Nat /\ ref.good \in Nat
      /\ dispatched = ref.out /\ ref.st = "TYPE" /\ SameRun
      /\ bad_bytes_count + (p - last_good) <= ref.bytes
  BY RefFields DEF ReadType, Corresponds, BadBytesAccounted
<1>2. /\ Cur \in Byte /\ p + 1 \in 0..Len(buf)
      /\ p \in Nat /\ last_good \in Nat /\ last_good <= p
  BY Looks
<1>3. /\ messagetype' = messagetype_from_byte(Cur)
      /\ messagetype' \in MessageType \cup {"INVALID"}
      /\ bad_bytes_count' = bad_bytes_count /\ last_good' = last_good
      /\ dispatched' = dispatched /\ buf' = buf /\ source' = source /\ fed' = fed
  BY TypeByte DEF ReadType, chunk, ByteType
<1>4. CASE /\ messagetype' = "INVALID"
           /\ lost_sync
           /\ UNCHANGED <<p, ref, metadata, messagedata>>
  <2>1. /\ state' = "RESYNC" /\ good_sync' = FALSE /\ good_messages_count' = 0
        /\ p' = p /\ ref' = ref
        /\ metadata' = metadata /\ messagedata' = messagedata
    BY <1>4 DEF lost_sync
  <2>2. TypeOK'
    BY <1>1, <1>3, <2>1 DEF TypeOK
  <2>3. Hunting'
    <3>1. Advance(ref, Cur) = Hunt(ref, Cur)
      BY <1>1, <1>3, <1>4, OtherMoves
    <3>2. Cur' = Cur
      BY <1>3, <2>1 DEF Cur
    <3>3. QED
      BY <1>3, <2>1, <3>1, <3>2 DEF Hunting
  <2>4. Corresponds'
    BY <1>1, <1>3, <2>1, <2>3 DEF Corresponds
  <2>5. BadBytesAccounted'
    BY <1>1, <1>3, <2>1 DEF BadBytesAccounted
  <2>6. QED
    BY <1>1, <2>1, <2>2, <2>4, <2>5
<1>5. CASE /\ messagetype' # "INVALID"
           /\ metadata' = <<>> /\ messagedata' = <<>>
           /\ state' = "READ_DATA"
           /\ Consume1
           /\ UNCHANGED sync
  <2>1. /\ ref' = Advance(ref, Cur) /\ p' = p + 1
        /\ good_sync' = good_sync /\ good_messages_count' = good_messages_count
        /\ messagetype' \in MessageType
    BY <1>3, <1>5 DEF Consume1, sync
  <2>2. /\ ref' \in RefType /\ ref'.st = "DATA" /\ ref'.good = ref.good
        /\ ref'.type = messagetype' /\ ref'.meta = <<>> /\ ref'.data = <<>>
        /\ ref'.bytes = ref.bytes + 1 /\ ref'.out = ref.out
    BY <1>1, <1>2, <1>3, <2>1, TypeMove
  <2>3. TypeOK'
    BY <1>1, <1>2, <1>3, <1>5, <2>1 DEF TypeOK
  <2>4. SameMessage'
    <3>1. Len(<<>>) < message_size[messagetype']
      BY <2>1, ParserAssumption
    <3>2. QED
      BY <1>5, <2>1, <2>2, <3>1 DEF SameMessage
  <2>5. Corresponds'
    BY <1>1, <1>3, <1>5, <2>1, <2>2, <2>4 DEF Corresponds, SameRun
  <2>6. BadBytesAccounted'
    BY <1>1, <1>2, <1>3, <2>1, <2>2 DEF BadBytesAccounted, TypeOK
  <2>7. QED
    BY <2>2, <2>3, <2>5, <2>6
<1>6. QED
  BY <1>4, <1>5 DEF ReadType

\* Bytes consumed keep the account of bad ones.
LEMMA Tally ==
  ASSUME NEW bad \in Nat, NEW end \in Nat, NEW from \in Nat, NEW to \in Nat,
         NEW b \in Nat, NEW c \in Nat,
         bad + (from - end) <= b, to - from <= c + 1 - b
  PROVE  bad + (to - end) <= c + 1
OBVIOUS

\* A byte stored, after one or two bytes of the stream: r is the reference
\* parser when it takes the byte.
LEMMA StoreInv ==
  ASSUME Inv, p < Len(buf), SameRun, SameMessage, UNCHANGED chunk,
         NEW x \in Byte, NEW n \in 0..Len(buf), p <= n, NEW r \in RefType,
         r.type = ref.type, r.meta = ref.meta, r.data = ref.data,
         r.good = ref.good, r.out = ref.out,
         n - p <= r.bytes + 1 - ref.bytes,
         Store(x, n), p' = n, ref' = Take(r, x)
  PROVE  Inv'
<1>1. /\ ref \in RefType /\ TypeOK /\ ref.bytes \in Nat /\ ref.good \in Nat
      /\ r.bytes \in Nat
      /\ dispatched = ref.out
      /\ bad_bytes_count + (p - last_good) <= ref.bytes
  BY RefFields DEF Inv, Corresponds, BadBytesAccounted
<1>2. /\ metadata \in Seq(Byte) /\ messagedata \in Seq(Byte)
      /\ messagetype \in MessageType /\ message_size[messagetype] \in Nat
      /\ r.type = messagetype /\ r.meta = metadata /\ r.data = messagedata
      /\ Len(messagedata) \in Nat /\ Len(messagedata) < message_size[messagetype]
      /\ good_messages_count \in Nat /\ bad_bytes_count \in Nat
      /\ last_good \in Nat /\ p \in Nat /\ last_good <= p
      /\ Len(buf) \in Nat /\ n \in Nat
  BY <1>1, ParserAssumption DEF TypeOK, SameMessage
<1>3. buf' = buf /\ source' = source /\ fed' = fed /\ messagetype' = messagetype
  BY DEF Store, chunk
<1>4. bad_bytes_count + (n - last_good) <= r.bytes + 1
  BY <1>1, <1>2, Tally
<1>5. CASE Len(metadata) < MetadataSize
  <2>1. /\ metadata' = Append(metadata, x) /\ messagedata' = messagedata
        /\ state' = "READ_DATA"
        /\ good_sync' = good_sync /\ good_messages_count' = good_messages_count
        /\ bad_bytes_count' = bad_bytes_count /\ last_good' = last_good
        /\ dispatched' = dispatched
    BY <1>2, <1>5, SMTT(40) DEF Store, sync
  <2>2. /\ ref' \in RefType /\ ref'.st = "DATA" /\ ref'.type = messagetype
        /\ ref'.meta = metadata' /\ ref'.data = messagedata'
        /\ ref'.good = ref.good /\ ref'.bytes = r.bytes + 1 /\ ref'.out = ref.out
    BY <1>2, <1>5, <2>1, TakeMeta
  <2>3. metadata' \in Seq(Byte)
    BY <1>2, <2>1
  <2>4. TypeOK'
    BY <1>1, <1>2, <1>3, <2>1, <2>3 DEF TypeOK
  <2>5. SameRun' /\ SameMessage'
    BY <1>2, <1>3, <2>1, <2>2 DEF SameRun, SameMessage
  <2>6. Corresponds'
    BY <1>1, <2>1, <2>2, <2>5 DEF Corresponds
  <2>7. BadBytesAccounted'
    BY <1>4, <2>1, <2>2 DEF BadBytesAccounted
  <2>8. QED
    BY <2>2, <2>4, <2>6, <2>7 DEF Inv
<1>6. CASE ~(Len(metadata) < MetadataSize)
  <2>1. PICK data : data = Append(messagedata, x)
    OBVIOUS
  <2>2. data \in Seq(Byte) /\ Len(data) \in Nat
    BY <1>2, <2>1
  <2>3. metadata' = metadata /\ messagedata' = data
    BY <1>6, <2>1 DEF Store
  <2>4. CASE Len(data) < message_size[messagetype]
    <3>1. /\ state' = "READ_DATA"
          /\ good_sync' = good_sync /\ good_messages_count' = good_messages_count
          /\ bad_bytes_count' = bad_bytes_count /\ last_good' = last_good
          /\ dispatched' = dispatched
      BY <1>2, <1>6, <2>1, <2>2, <2>4, SMTT(40) DEF Store, sync
    <3>2. /\ ref' \in RefType /\ ref'.st = "DATA" /\ ref'.type = messagetype
          /\ ref'.meta = metadata' /\ ref'.data = messagedata'
          /\ ref'.good = ref.good /\ ref'.bytes = r.bytes + 1
          /\ ref'.out = ref.out
      BY <1>2, <1>6, <2>1, <2>3, <2>4, TakeData
    <3>3. TypeOK'
      BY <1>1, <1>2, <1>3, <2>2, <2>3, <3>1 DEF TypeOK
    <3>4. SameRun' /\ SameMessage'
      BY <1>2, <1>3, <2>3, <2>4, <3>1, <3>2 DEF SameRun, SameMessage
    <3>5. Corresponds'
      BY <1>1, <3>1, <3>2, <3>4 DEF Corresponds
    <3>6. BadBytesAccounted'
      BY <1>4, <3>1, <3>2 DEF BadBytesAccounted
    <3>7. QED
      BY <3>2, <3>3, <3>5, <3>6 DEF Inv
  <2>5. CASE ~(Len(data) < message_size[messagetype])
    <3>1. PICK m : m = <<messagetype, metadata, data>>
      OBVIOUS
    <3>2. m \in Message
      BY <1>2, <2>2, <3>1 DEF Message
    <3>3. /\ state' = "READ_1A" /\ good_sync' = TRUE
          /\ good_messages_count' = good_messages_count + 1
          /\ bad_bytes_count' = 0 /\ last_good' = n
          /\ dispatched' = Append(dispatched, m)
      BY <1>2, <1>6, <2>1, <2>2, <2>5, <3>1 DEF Store
    <3>4. dispatched' \in Seq(Message)
      BY <1>1, <3>2, <3>3 DEF TypeOK
    <3>5. /\ ref' \in RefType /\ ref'.st = "SYNC" /\ ref'.good = ref.good + 1
          /\ ref'.bytes = 0 /\ ref'.out = Append(dispatched, m)
      <4>1. /\ ~(Len(r.meta) < MetadataSize) /\ r.type \in MessageType
            /\ ~(Len(Append(r.data, x)) < message_size[r.type])
        BY <1>2, <1>6, <2>1, <2>5
      <4>2. <<r.type, r.meta, Append(r.data, x)>> = m /\ r.out = dispatched
        BY <1>1, <1>2, <2>1, <3>1
      <4>3. QED
        BY <4>1, <4>2, TakeLast
    <3>6. TypeOK'
      BY <1>1, <1>2, <1>3, <2>2, <2>3, <3>3, <3>4 DEF TypeOK
    <3>7. SameRun'
      BY <1>1, <3>3, <3>5 DEF SameRun
    <3>8. Corresponds'
      BY <3>3, <3>5, <3>7 DEF Corresponds
    <3>9. BadBytesAccounted'
      BY <1>2, <3>3, <3>5 DEF BadBytesAccounted
    <3>10. QED
      BY <3>5, <3>6, <3>8, <3>9 DEF Inv
  <2>6. QED
    BY <2>4, <2>5
<1>7. QED
  BY <1>5, <1>6

LEMMA ReadDataInv ==
  ASSUME Inv, p < Len(buf), ReadData, UNCHANGED chunk
  PROVE  Inv'
<1>1. /\ ref \in RefType /\ TypeOK /\ ref.bytes \in Nat /\ ref.good \in Nat
      /\ dispatched = ref.out /\ ref.st = "DATA" /\ SameRun /\ SameMessage
      /\ bad_bytes_count + (p - last_good) <= ref.bytes
  BY RefFields DEF Inv, ReadData, Corresponds, BadBytesAccounted
<1>2. /\ Cur \in Byte /\ p + 1 \in 0..Len(buf)
      /\ ~AtLast => Peek \in Byte /\ p + 2 \in 0..Len(buf)
      /\ p \in Nat /\ last_good \in Nat /\ last_good <= p
  BY Looks DEF Inv
<1>3. PICK r : r = Advance(ref, ESC)
  OBVIOUS
<1>4. /\ r \in RefType /\ r.st = "ESCAPED" /\ r.type = ref.type
      /\ r.meta = ref.meta /\ r.data = ref.data /\ r.good = ref.good
      /\ r.bytes = ref.bytes + 1 /\ r.out = ref.out
  BY <1>1, <1>3, EscapeMove
<1>5. CASE /\ Cur = ESC /\ AtLast
           /\ state' = "READ_ESCAPED_1A"
           /\ Consume1
           /\ UNCHANGED <<message, sync, bad_bytes_count, last_good, dispatched>>
  <2>1. /\ ref' = r /\ p' = p + 1
        /\ messagetype' = messagetype /\ metadata' = metadata
        /\ messagedata' = messagedata /\ good_sync' = good_sync
        /\ good_messages_count' = good_messages_count
        /\ bad_bytes_count' = bad_bytes_count /\ last_good' = last_good
        /\ dispatched' = dispatched
        /\ buf' = buf /\ source' = source /\ fed' = fed
    BY <1>3, <1>5 DEF Consume1, message, sync, chunk
  <2>2. TypeOK'
    BY <1>1, <1>2, <1>5, <2>1 DEF TypeOK
  <2>3. SameRun' /\ SameMessage'
    BY <1>1, <1>4, <2>1 DEF SameRun, SameMessage
  <2>4. Corresponds'
    BY <1>1, <1>4, <1>5, <2>1, <2>3 DEF Corresponds
  <2>5. BadBytesAccounted'
    BY <1>1, <1>2, <1>4, <2>1 DEF BadBytesAccounted, TypeOK
  <2>6. QED
    BY <1>4, <2>1, <2>2, <2>4, <2>5 DEF Inv
<1>6. CASE /\ Cur = ESC /\ ~AtLast /\ Peek # ESC
           /\ lost_sync
           /\ Consume1
           /\ UNCHANGED <<message, bad_bytes_count, last_good, dispatched>>
  <2>1. /\ ref' = r /\ p' = p + 1
        /\ state' = "RESYNC" /\ good_sync' = FALSE /\ good_messages_count' = 0
        /\ messagetype' = messagetype /\ metadata' = metadata
        /\ messagedata' = messagedata
        /\ bad_bytes_count' = bad_bytes_count /\ last_good' = last_good
        /\ dispatched' = dispatched
        /\ buf' = buf /\ source' = source /\ fed' = fed
    BY <1>3, <1>6 DEF Consume1, lost_sync, message, chunk
  <2>2. TypeOK'
    <3>1. p' \in 0..Len(buf') /\ last_good' \in 0..p'
      BY <1>2, <2>1
    <3>2. QED
      BY <1>1, <2>1, <3>1 DEF TypeOK
  <2>3. Hunting'
    <3>1. Cur' = Peek
      BY <1>2, <2>1 DEF Cur, Peek
    <3>2. Advance(r, Peek) = Hunt(r, Peek)
      BY <1>4, <1>6, OtherMoves
    <3>3. p' # Len(buf')
      BY <1>6, <2>1 DEF AtLast
    <3>4. QED
      BY <2>1, <3>1, <3>2, <3>3 DEF Hunting
  <2>4. Corresponds'
    BY <1>1, <1>4, <2>1, <2>3 DEF Corresponds
  <2>5. BadBytesAccounted'
    BY <1>1, <1>2, <1>4, <2>1 DEF BadBytesAccounted, TypeOK
  <2>6. QED
    BY <1>4, <2>1, <2>2, <2>4, <2>5 DEF Inv
<1>7. CASE /\ Cur = ESC /\ ~AtLast /\ Peek = ESC
           /\ Store(Cur, p + 2)
           /\ Consume2
  <2>1. ref' = Take(r, ESC) /\ p' = p + 2
    BY <1>3, <1>4, <1>7, OtherMoves DEF Consume2
  <2>2. (p + 2) - p <= r.bytes + 1 - ref.bytes /\ p <= p + 2
    BY <1>1, <1>2, <1>4
  <2>3. Store(ESC, p + 2) /\ ESC \in Byte /\ p + 2 \in 0..Len(buf)
    BY <1>2, <1>7
  <2>4. QED
    BY <1>1, <1>4, <2>1, <2>2, <2>3, StoreInv
<1>8. CASE /\ Cur # ESC
           /\ Store(Cur, p + 1)
           /\ Consume1
  <2>1. ref' = Take(ref, Cur) /\ p' = p + 1
    BY <1>1, <1>8, OtherMoves DEF Consume1
  <2>2. (p + 1) - p <= ref.bytes + 1 - ref.bytes /\ p <= p + 1
    BY <1>1, <1>2
  <2>3. QED
    BY <1>1, <1>2, <1>8, <2>1, <2>2, StoreInv
<1>9. QED
  BY <1>5, <1>6, <1>7, <1>8 DEF ReadData

LEMMA ReadEscaped1AInv ==
  ASSUME Inv, p < Len(buf), ReadEscaped1A, UNCHANGED chunk
  PROVE  Inv'
<1>1. /\ ref \in RefType /\ TypeOK /\ ref.bytes \in Nat /\ ref.good \in Nat
      /\ dispatched = ref.out /\ ref.st = "ESCAPED" /\ SameRun /\ SameMessage
      /\ bad_bytes_count + (p - last_good) <= ref.bytes
  BY RefFields DEF Inv, ReadEscaped1A, Corresponds, BadBytesAccounted
<1>2. /\ Cur \in Byte /\ p + 1 \in 0..Len(buf)
      /\ p \in Nat /\ last_good \in Nat /\ last_good <= p
  BY Looks DEF Inv
<1>3. CASE Cur = ESC /\ Store(Cur, p + 1) /\ Consume1
  <2>1. ref' = Take(ref, Cur) /\ p' = p + 1
    BY <1>1, <1>3, OtherMoves DEF Consume1
  <2>2. (p + 1) - p <= ref.bytes + 1 - ref.bytes /\ p <= p + 1
    BY <1>1, <1>2
  <2>3. QED
    BY <1>1, <1>2, <1>3, <2>1, <2>2, StoreInv
<1>4. CASE /\ Cur # ESC
           /\ lost_sync
           /\ UNCHANGED <<p, ref, message, bad_bytes_count, last_good, dispatched>>
  <2>1. /\ ref' = ref /\ p' = p
        /\ state' = "RESYNC" /\ good_sync' = FALSE /\ good_messages_count' = 0
        /\ messagetype' = messagetype /\ metadata' = metadata
        /\ messagedata' = messagedata
        /\ bad_bytes_count' = bad_bytes_count /\ last_good' = last_good
        /\ dispatched' = dispatched
        /\ buf' = buf /\ source' = source /\ fed' = fed
    BY <1>4 DEF lost_sync, message, chunk
  <2>2. TypeOK'
    BY <1>1, <2>1 DEF TypeOK
  <2>3. Hunting'
    <3>1. Advance(ref, Cur) = Hunt(ref, Cur)
      BY <1>1, <1>4, OtherMoves
    <3>2. Cur' = Cur
      BY <2>1 DEF Cur
    <3>3. QED
      BY <2>1, <3>1, <3>2 DEF Hunting
  <2>4. Corresponds'
    BY <1>1, <2>1, <2>3 DEF Corresponds
  <2>5. BadBytesAccounted'
    BY <1>1, <2>1 DEF BadBytesAccounted
  <2>6. QED
    BY <1>1, <2>1, <2>2, <2>4, <2>5 DEF Inv
<1>5. QED
  BY <1>3, <1>4 DEF ReadEscaped1A

LEMMA EndParseInv ==
  ASSUME Inv, EndParse
  PROVE  Inv'
<1>1. /\ ref \in RefType /\ TypeOK /\ ref.bytes \in Nat
      /\ bad_bytes_count + (p - last_good) <= ref.bytes
  BY RefFields DEF Inv, BadBytesAccounted
<1>2. /\ p = Len(buf) /\ buf' = <<>> /\ p' = 0 /\ last_good' = 0
      /\ state' = state /\ messagetype' = messagetype /\ metadata' = metadata
      /\ messagedata' = messagedata /\ good_sync' = good_sync
      /\ good_messages_count' = good_messages_count
      /\ dispatched' = dispatched /\ source' = source /\ fed' = fed /\ ref' = ref
      /\ \/ bad_bytes_count' = bad_bytes_count
         \/ bad_bytes_count' = bad_bytes_count + (p - last_good)
  BY DEF EndParse, message, sync
<1>3. /\ bad_bytes_count \in Nat /\ p \in Nat /\ last_good \in Nat
      /\ last_good <= p
  BY <1>1, <1>2 DEF TypeOK
<1>4. bad_bytes_count' \in Nat /\ bad_bytes_count' <= ref.bytes
  BY <1>1, <1>2, <1>3
<1>5. /\ buf' \in Seq(Byte) /\ Len(buf') = 0
      /\ p' \in 0..Len(buf') /\ last_good' \in 0..p'
  BY <1>2
<1>6. TypeOK'
  BY <1>1, <1>2, <1>4, <1>5 DEF TypeOK
<1>7. Corresponds'
  <2>1. SameRun' = SameRun /\ SameMessage' = SameMessage
    BY <1>2 DEF SameRun, SameMessage
  <2>2. Hunting => Hunting'
    BY <1>2, <1>5 DEF Hunting
  <2>3. QED
    BY <1>2, <2>1, <2>2 DEF Inv, Corresponds
<1>8. BadBytesAccounted'
  BY <1>2, <1>4 DEF BadBytesAccounted
<1>9. QED
  BY <1>1, <1>2, <1>6, <1>7, <1>8 DEF Inv

LEMMA ReadInv ==
  ASSUME Inv, NEW n \in 1..Len(source) - fed, Read(n)
  PROVE  Inv'
<1>1. /\ ref \in RefType /\ TypeOK /\ BadBytesAccounted
      /\ source \in Seq(Byte) /\ fed \in 0..Len(source) /\ Len(source) \in Nat
  BY ParserAssumption DEF Inv, TypeOK
<1>2. /\ buf' = SubSeq(source, fed + 1, fed + n) /\ fed' = fed + n
      /\ state' = state /\ messagetype' = messagetype /\ metadata' = metadata
      /\ messagedata' = messagedata /\ good_sync' = good_sync
      /\ good_messages_count' = good_messages_count
      /\ bad_bytes_count' = bad_bytes_count /\ last_good' = last_good
      /\ dispatched' = dispatched /\ source' = source /\ ref' = ref /\ p' = p
  BY DEF Read, message, sync
<1>3. Len(buf) = 0 /\ p = 0 /\ last_good = 0
  BY <1>1 DEF Read, TypeOK
<1>4. buf' \in Seq(Byte) /\ Len(buf') = n /\ fed' \in 0..Len(source')
  <2>1. fed + 1 \in 1..Len(source) /\ fed + n \in 1..Len(source) /\ n \in Nat
    BY <1>1
  <2>2. buf' \in Seq(Byte)
    BY <1>1, <1>2, <2>1, SubSeqProperties
  <2>3. Len(buf') = (fed + n) - (fed + 1) + 1
    BY <1>1, <1>2, <2>1, SubSeqProperties
  <2>4. QED
    BY <1>1, <1>2, <2>1, <2>2, <2>3
<1>5. TypeOK'
  <2>1. p' \in 0..Len(buf') /\ last_good' \in 0..p'
    BY <1>2, <1>3, <1>4
  <2>2. QED
    BY <1>1, <1>2, <1>4, <2>1 DEF TypeOK
<1>6. Corresponds'
  <2>1. SameRun' = SameRun /\ SameMessage' = SameMessage
    BY <1>2 DEF SameRun, SameMessage
  <2>2. Hunting => Hunting'
    <3> SUFFICES ASSUME Hunting PROVE Hunting'
      OBVIOUS
    <3>1. ref.st = "HUNT" /\ good_messages_count = 0 /\ good_sync = FALSE
      BY <1>3 DEF Hunting
    <3>2. Advance(ref, Cur') = Hunt(ref, Cur')
      BY <3>1, OtherMoves
    <3>3. p' < Len(buf') /\ p' # Len(buf')
      BY <1>2, <1>3, <1>4
    <3>4. QED
      BY <1>2, <3>1, <3>2, <3>3 DEF Hunting
  <2>3. QED
    BY <1>2, <2>1, <2>2 DEF Inv, Corresponds
<1>7. BadBytesAccounted'
  BY <1>1, <1>2 DEF BadBytesAccounted
<1>8. QED
  BY <1>1, <1>2, <1>5, <1>6, <1>7 DEF Inv

LEMMA ConnectionEstablishedInv ==
  ASSUME Inv, ConnectionEstablished
  PROVE  Inv'
<1>1. /\ state' = "READ_1A" /\ good_sync' = FALSE /\ good_messages_count' = 0
      /\ bad_bytes_count' = 0 /\ source' \in Resumed /\ fed' = 0
      /\ dispatched' = <<>> /\ ref' = RefStart
      /\ messagetype' = messagetype /\ metadata' = metadata
      /\ messagedata' = messagedata
      /\ buf' = buf /\ p' = p /\ last_good' = last_good
  BY DEF ConnectionEstablished, message
<1>2. TypeOK /\ p = 0 /\ last_good = 0
  BY DEF Inv, TypeOK, ConnectionEstablished
<1>3. source' \in Seq(Byte) /\ fed' \in 0..Len(source') /\ dispatched' \in Seq(Message)
  BY <1>1, ParserAssumption
<1>4. TypeOK'
  BY <1>1, <1>2, <1>3 DEF TypeOK
<1>5. RefStart \in RefType
  <2>1. /\ "SYNC" \in RefState /\ "INVALID" \in ByteType
        /\ <<>> \in Bytes /\ <<>> \in Messages
    BY DEF RefState, ByteType, Bytes, Messages
  <2>2. QED
    BY <2>1 DEF RefStart, RefType
<1>6. ref'.out = <<>> /\ ref'.st = "SYNC" /\ ref'.good = 0 /\ ref'.bytes = 0
  BY <1>1 DEF RefStart
<1>7. Corresponds' /\ BadBytesAccounted'
  BY <1>1, <1>2, <1>6 DEF Corresponds, BadBytesAccounted, SameRun
<1>8. QED
  BY <1>1, <1>4, <1>5, <1>7 DEF Inv

LEMMA NextInv == Inv /\ [Next]_vars => Inv'
<1> SUFFICES ASSUME Inv, [Next]_vars PROVE Inv'
  OBVIOUS
<1>1. CASE Parse
  BY <1>1, ResyncInv, Read1AInv, ReadTypeInv, ReadDataInv, ReadEscaped1AInv DEF Parse
<1>2. CASE EndParse
  BY <1>2, EndParseInv
<1>3. ASSUME NEW n \in 1..Len(source) - fed, Read(n)
      PROVE  Inv'
  BY <1>3, ReadInv
<1>4. CASE ConnectionEstablished
  BY <1>4, ConnectionEstablishedInv
<1>5. CASE UNCHANGED vars
  BY <1>5 DEF vars, message, sync, chunk, Inv, TypeOK, Corresponds, Hunting,
              SameRun, SameMessage, BadBytesAccounted, Cur
<1>6. QED
  BY <1>1, <1>2, <1>3, <1>4, <1>5 DEF Next

-----------------------------------------------------------------------------

\* The inductive invariant holds of every run of the parser.
THEOREM Invariance == Spec => []Inv
<1>1. QED
  BY InitInv, NextInv, PTL DEF Spec

\* Every run is type correct: parse_input never moves past the end of a chunk,
\* and last_good_message_end never past p.
THEOREM TypeCorrect == Spec => []TypeOK
<1>1. Inv => TypeOK
  BY DEF Inv
<1>2. QED
  BY <1>1, Invariance, PTL

\* Whatever the message sizes, the streams and the way they are cut into reads,
\* parse_input finds the messages a byte-at-a-time parser finds.
THEOREM ParserChunkIndependent == Spec => []ChunkIndependent
<1>1. Inv => ChunkIndependent
  <2> SUFFICES ASSUME Inv PROVE ChunkIndependent
    OBVIOUS
  <2>1. /\ dispatched = ref.out /\ ref.good \in Nat
        /\ state \in {"RESYNC", "READ_1A", "READ_TYPE", "READ_DATA", "READ_ESCAPED_1A"}
    BY RefFields DEF Inv, Corresponds, TypeOK
  <2>2. CASE state = "RESYNC"
    BY <2>1, <2>2 DEF Inv, Corresponds, Hunting, ChunkIndependent
  <2>3. CASE state # "RESYNC"
    <3>1. SameRun
      BY <2>1, <2>3 DEF Inv, Corresponds
    <3>2. QED
      BY <2>1, <3>1 DEF SameRun, ChunkIndependent
  <2>4. QED
    BY <2>2, <2>3
<1>2. QED
  BY <1>1, Invariance, PTL

\* The bad-byte count never exceeds the number of bytes since the last good
\* message, so no byte is counted twice and none of a good message is counted.
THEOREM BadBytesBound == Spec => []BadBytesNotOvercounted
<1>1. Inv => BadBytesNotOvercounted
  <2> SUFFICES ASSUME Inv PROVE BadBytesNotOvercounted
    OBVIOUS
  <2>1. /\ bad_bytes_count \in Nat /\ last_good \in Nat /\ p \in Nat
        /\ last_good <= p /\ ref.bytes \in Nat
        /\ bad_bytes_count + (p - last_good) <= ref.bytes
    BY RefFields DEF Inv, TypeOK, BadBytesAccounted
  <2>2. QED
    BY <2>1 DEF BadBytesNotOvercounted
<1>2. QED
  BY <1>1, Invariance, PTL

-----------------------------------------------------------------------------
(* Loops: recursive functions over the natural numbers *)

\* Induction, for a set instead of a predicate.
LEMMA Induction ==
  ASSUME NEW S, 0 \in S, \A n \in Nat : n \in S => n + 1 \in S
  PROVE  Nat \subseteq S
<1> SUFFICES ASSUME Nat \ S # {} PROVE FALSE
  OBVIOUS
<1>1. PICK x \in Nat \ S : \A y \in Nat \ S : <<y, x>> \notin OpToRel(<, Nat)
  BY NatLessThanWellFounded, WFMin
<1>2. \A y \in Nat \ S : ~(y < x)
  BY <1>1 DEF OpToRel
<1>3. x # 0 /\ x - 1 \in Nat /\ (x - 1) + 1 = x
  OBVIOUS
<1>4. x - 1 \in S
  BY <1>2, <1>3
<1> QED
  BY <1>3, <1>4

Loop(f, V, start, N, step) ==
  /\ f \in [0..N -> V] /\ f[0] = start
  /\ \A k \in 1..N : f[k] = step[k][f[k - 1]]

\* A loop that keeps to a set of values has a run, however long.
LEMMA LoopRuns ==
  ASSUME NEW V, NEW start \in V, NEW N \in Nat, NEW step \in [1..N -> [V -> V]]
  PROVE  \E f : Loop(f, V, start, N, step)
<1> DEFINE Runs(f, m) == /\ f \in [0..m -> V] /\ f[0] = start
                         /\ \A k \in 1..m : f[k] = step[k][f[k - 1]]
<1> DEFINE S == {m \in Nat : m <= N => \E f : Runs(f, m)}
<1>1. 0 \in S
  <2>1. Runs([k \in 0..0 |-> start], 0)
    OBVIOUS
  <2> QED
    BY <2>1
<1>2. ASSUME NEW m \in Nat, m \in S PROVE m + 1 \in S
  <2> SUFFICES ASSUME m + 1 <= N PROVE \E f : Runs(f, m + 1)
    OBVIOUS
  <2>1. PICK f : Runs(f, m)
    BY <1>2
  <2>2. PICK v \in V : v = step[m + 1][f[m]]
    BY <2>1
  <2> DEFINE g == [k \in 0..m+1 |-> IF k <= m THEN f[k] ELSE v]
  <2>3. g \in [0..m+1 -> V] /\ g[0] = start
    BY <2>1
  <2>4. ASSUME NEW k \in 1..m+1 PROVE g[k] = step[k][g[k - 1]]
    <3>1. CASE k = m + 1
      <4>1. g[k] = v /\ g[k - 1] = f[m]
        BY <3>1
      <4> QED
        BY <2>2, <3>1, <4>1
    <3>2. CASE k # m + 1
      <4>1. k \in 1..m /\ g[k] = f[k] /\ g[k - 1] = f[k - 1]
        BY <3>2
      <4> QED
        BY <2>1, <4>1
    <3> QED
      BY <3>1, <3>2
  <2>5. Runs(g, m + 1)
    <3> HIDE DEF g
    <3> QED
      BY <2>3, <2>4
  <2> QED
    <3> HIDE DEF g, Runs
    <3> QED
      BY <2>5
<1>3. N \in S
  <2> HIDE DEF S
  <2> QED
    BY <1>1, <1>2, Induction
<1>4. PICK f : Runs(f, N)
  BY <1>3
<1>5. Loop(f, V, start, N, step)
  BY <1>4 DEF Loop
<1> QED
  BY <1>5

LEMMA LoopKeeps ==
  ASSUME NEW V, NEW N \in Nat, NEW f, f[0] \in V,
         \A k \in 1..N : f[k - 1] \in V => f[k] \in V
  PROVE  \A k \in 0..N : f[k] \in V
<1> DEFINE S == {k \in Nat : k <= N => f[k] \in V}
<1>1. 0 \in S
  OBVIOUS
<1>2. ASSUME NEW k \in Nat, k \in S PROVE k + 1 \in S
  BY <1>2
<1>3. Nat \subseteq S
  <2> HIDE DEF S
  <2> QED
    BY <1>1, <1>2, Induction
<1> QED
  BY <1>3

-----------------------------------------------------------------------------
(* The stream *)

\* A reference parser knows which message it is in.
RefOK == {r \in RefType : r.st \in {"DATA", "ESCAPED"} => r.type \in MessageType}

\* The reference parser on its way through s.
Run(s) ==
  LET r[k \in 0..Len(s)] == IF k = 0 THEN RefStart ELSE Advance(r[k - 1], s[k])
  IN  r

LEMMA TakeOK ==
  ASSUME NEW r \in RefOK, r.type \in MessageType, NEW x \in Byte
  PROVE  Take(r, x) \in RefOK
<1>1. r \in RefType
  BY DEF RefOK
<1>2. CASE Len(r.meta) < MetadataSize
  BY <1>1, <1>2, TakeMeta DEF RefOK
<1>3. CASE ~(Len(r.meta) < MetadataSize) /\ Len(Append(r.data, x)) < message_size[r.type]
  BY <1>1, <1>3, TakeData DEF RefOK
<1>4. CASE ~(Len(r.meta) < MetadataSize) /\ ~(Len(Append(r.data, x)) < message_size[r.type])
  BY <1>1, <1>4, TakeLast DEF RefOK
<1> QED
  BY <1>2, <1>3, <1>4

LEMMA AdvanceOK ==
  ASSUME NEW r \in RefOK, NEW x \in Byte
  PROVE  Advance(r, x) \in RefOK
<1>1. r \in RefType /\ r.st \in RefState
  BY RefFields DEF RefOK
<1>2. Hunt(r, x) \in RefOK
  BY <1>1, HuntMove DEF RefOK
<1>3. CASE r.st = "HUNT"
  BY <1>2, <1>3, OtherMoves
<1>4. CASE r.st = "SYNC"
  <2>1. CASE x = ESC
    <3>1. PICK t : t = Advance(r, ESC)
      OBVIOUS
    <3>2. t \in RefType /\ t.st = "TYPE"
      BY <1>1, <1>4, <3>1, StartMove
    <3> QED
      BY <2>1, <3>1, <3>2 DEF RefOK
  <2> QED
    BY <1>2, <1>4, <2>1, OtherMoves
<1>5. CASE r.st = "TYPE"
  <2>1. CASE messagetype_from_byte(x) # "INVALID"
    <3>1. PICK t : t = Advance(r, x)
      OBVIOUS
    <3>2. PICK type \in MessageType : type = messagetype_from_byte(x)
      BY <2>1, TypeByte DEF ByteType
    <3>3. t \in RefType /\ t.type = type
      BY <1>1, <1>5, <3>1, <3>2, TypeMove
    <3> QED
      BY <3>1, <3>2, <3>3 DEF RefOK
  <2> QED
    BY <1>2, <1>5, <2>1, OtherMoves
<1>6. CASE r.st = "DATA"
  <2>1. r.type \in MessageType
    BY <1>6 DEF RefOK
  <2>2. CASE x = ESC
    <3>1. PICK t : t = Advance(r, ESC)
      OBVIOUS
    <3>2. t \in RefType /\ t.type = r.type
      BY <1>1, <1>6, <3>1, EscapeMove
    <3> QED
      BY <2>1, <2>2, <3>1, <3>2 DEF RefOK
  <2> QED
    BY <1>6, <2>1, <2>2, TakeOK, OtherMoves
<1>7. CASE r.st = "ESCAPED"
  <2>1. r.type \in MessageType
    BY <1>7 DEF RefOK
  <2> QED
    BY <1>2, <1>7, <2>1, TakeOK, OtherMoves
<1> QED
  BY <1>1, <1>3, <1>4, <1>5, <1>6, <1>7 DEF RefState

LEMMA StartOK == RefStart \in RefOK /\ RefStart.st = "SYNC" /\ RefStart.out = <<>>
<1>1. /\ "SYNC" \in RefState /\ "INVALID" \in ByteType
      /\ <<>> \in Bytes /\ <<>> \in Messages
  BY DEF RefState, ByteType, Bytes, Messages
<1>2. RefStart \in RefType /\ RefStart.st = "SYNC" /\ RefStart.out = <<>>
  BY <1>1 DEF RefStart, RefType
<1> QED
  BY <1>2 DEF RefOK

\* Run is what its recursive definition says.
LEMMA RunDef ==
  ASSUME NEW s \in Seq(Byte)
  PROVE  /\ Run(s)[0] = RefStart
         /\ \A k \in 1..Len(s) : Run(s)[k] = Advance(Run(s)[k - 1], s[k])
         /\ \A k \in 0..Len(s) : Run(s)[k] \in RefOK
<1> DEFINE N == Len(s)
<1> DEFINE Rec(f) ==
      f = [k \in 0..N |-> IF k = 0 THEN RefStart ELSE Advance(f[k - 1], s[k])]
<1> DEFINE step == [k \in 1..N |-> [r \in RefOK |-> Advance(r, s[k])]]
<1>1. N \in Nat /\ \A k \in 1..N : s[k] \in Byte
  OBVIOUS
<1>2. step \in [1..N -> [RefOK -> RefOK]]
  BY <1>1, AdvanceOK
<1>3. PICK f : Loop(f, RefOK, RefStart, N, step)
  <2>1. RefStart \in RefOK
    BY StartOK
  <2> HIDE DEF N, step
  <2> QED
    BY <1>1, <1>2, <2>1, LoopRuns
<1>4. ASSUME NEW k \in 1..N PROVE f[k] = Advance(f[k - 1], s[k])
  <2>1. k - 1 \in 0..N
    BY <1>1
  <2>2. f[k - 1] \in RefOK
    BY <1>3, <2>1 DEF Loop
  <2> QED
    BY <1>3, <2>2 DEF Loop
<1>5. Rec(f)
  <2>1. f = [k \in 0..N |-> f[k]] /\ f[0] = RefStart
    BY <1>3 DEF Loop
  <2>2. ASSUME NEW k \in 0..N
        PROVE  f[k] = IF k = 0 THEN RefStart ELSE Advance(f[k - 1], s[k])
    <3>1. k = 0 \/ k \in 1..N
      BY <1>1
    <3> QED
      BY <1>4, <2>1, <3>1
  <2> QED
    BY <2>1, <2>2
<1>6. Rec(Run(s))
  <2>1. \E g : Rec(g)
    <3> HIDE DEF Rec
    <3> QED
      BY <1>5
  <2> QED
    BY <2>1 DEF Run
<1>7. PICK r : r = Run(s)
  OBVIOUS
<1>8. r[0] = RefStart /\ \A k \in 1..N : r[k] = Advance(r[k - 1], s[k])
  BY <1>1, <1>6, <1>7
<1>9. \A k \in 0..N : r[k] \in RefOK
  BY <1>1, <1>8, StartOK, AdvanceOK, LoopKeeps
<1> QED
  BY <1>7, <1>8, <1>9

-----------------------------------------------------------------------------
(* What is written *)

LEMMA PushType ==
  ASSUME NEW x \in Byte
  PROVE  push_back_beast(x) \in Seq(Byte)
<1>1. ESC \in Byte
  BY DEF ESC, Byte
<1>2. <<x>> \in Seq(Byte) /\ <<ESC, ESC>> \in Seq(Byte)
  BY <1>1
<1> QED
  BY <1>2 DEF push_back_beast

\* Escaping is what its recursive definition says.
LEMMA EscapingDef ==
  ASSUME NEW s \in Seq(Byte)
  PROVE  /\ Escaping(s)[0] = <<>>
         /\ \A k \in 1..Len(s) : Escaping(s)[k] = Escaping(s)[k - 1] \o push_back_beast(s[k])
         /\ \A k \in 0..Len(s) : Escaping(s)[k] \in Seq(Byte)
<1> DEFINE N == Len(s)
<1> DEFINE Rec(f) ==
      f = [k \in 0..N |-> IF k = 0 THEN <<>> ELSE f[k - 1] \o push_back_beast(s[k])]
<1> DEFINE step == [k \in 1..N |-> [v \in Seq(Byte) |-> v \o push_back_beast(s[k])]]
<1>1. N \in Nat /\ \A k \in 1..N : push_back_beast(s[k]) \in Seq(Byte)
  BY PushType
<1>2. step \in [1..N -> [Seq(Byte) -> Seq(Byte)]]
  BY <1>1
<1>3. PICK f : Loop(f, Seq(Byte), <<>>, N, step)
  <2>1. <<>> \in Seq(Byte)
    OBVIOUS
  <2> HIDE DEF N, step
  <2> QED
    BY <1>1, <1>2, <2>1, LoopRuns
<1>4. ASSUME NEW k \in 1..N PROVE f[k] = f[k - 1] \o push_back_beast(s[k])
  <2>1. k - 1 \in 0..N
    BY <1>1
  <2>2. f[k - 1] \in Seq(Byte)
    BY <1>3, <2>1 DEF Loop
  <2> QED
    BY <1>3, <2>2 DEF Loop
<1>5. Rec(f)
  <2>1. f = [k \in 0..N |-> f[k]] /\ f[0] = <<>>
    BY <1>3 DEF Loop
  <2>2. ASSUME NEW k \in 0..N
        PROVE  f[k] = IF k = 0 THEN <<>> ELSE f[k - 1] \o push_back_beast(s[k])
    <3>1. k = 0 \/ k \in 1..N
      BY <1>1
    <3> QED
      BY <1>4, <2>1, <3>1
  <2> QED
    BY <2>1, <2>2
<1>6. Rec(Escaping(s))
  <2>1. \E g : Rec(g)
    <3> HIDE DEF Rec
    <3> QED
      BY <1>5
  <2> QED
    BY <2>1 DEF Escaping
<1>7. PICK e : e = Escaping(s) /\ Rec(e)
  BY <1>6
<1>8. e[0] = <<>>
  BY <1>1, <1>7
<1>9. ASSUME NEW k \in 1..N PROVE e[k] = e[k - 1] \o push_back_beast(s[k])
  <2>1. k \in 0..N /\ k # 0
    OBVIOUS
  <2> QED
    BY <1>7, <2>1
<1>10. \A k \in 0..N : e[k] \in Seq(Byte)
  <2>1. e[0] \in Seq(Byte)
    BY <1>8
  <2>2. \A k \in 1..N : e[k - 1] \in Seq(Byte) => e[k] \in Seq(Byte)
    BY <1>1, <1>9, ConcatProperties
  <2> HIDE DEF N
  <2> QED
    BY <1>1, <2>1, <2>2, LoopKeeps
<1> QED
  BY <1>7, <1>8, <1>9, <1>10

\* The parts of a message that is written.
LEMMA WritableParts ==
  ASSUME NEW m \in Writable
  PROVE  /\ m = <<m[1], m[2], m[3]>> /\ m[1] \in MessageType
         /\ m[2] \in Seq(Byte) /\ Len(m[2]) = MetadataSize
         /\ m[3] \in Seq(Byte) /\ Len(m[3]) = message_size[m[1]]
         /\ messagetype_to_byte[m[1]] \in Byte
         /\ messagetype_from_byte(messagetype_to_byte[m[1]]) = m[1]
         /\ MetadataSize \in Nat /\ MetadataSize > 0
         /\ Len(m[3]) \in Nat /\ Len(m[3]) > 0
<1>1. m \in Message /\ m[1] \in DOMAIN messagetype_to_byte
  BY DEF Writable
<1>2. /\ m = <<m[1], m[2], m[3]>> /\ m[1] \in MessageType
      /\ m[2] \in Seq(Byte) /\ m[3] \in Seq(Byte)
  BY <1>1 DEF Message
<1>3. Len(m[2]) = MetadataSize /\ Len(m[3]) = message_size[m[1]]
  BY DEF Writable
<1>4. /\ messagetype_to_byte[m[1]] \in Byte
      /\ messagetype_from_byte(messagetype_to_byte[m[1]]) = m[1]
  BY <1>1 DEF messagetype_to_byte, messagetype_from_byte, Byte
<1>5. MetadataSize \in Nat /\ MetadataSize > 0
  BY ParserAssumption
<1>6. message_size[m[1]] \in Nat \ {0}
  BY <1>2, ParserAssumption
<1>7. Len(m[3]) \in Nat /\ Len(m[3]) > 0
  BY <1>3, <1>6
<1> QED
  BY <1>2, <1>3, <1>4, <1>5, <1>7

LEMMA BinaryType ==
  ASSUME NEW m \in Writable
  PROVE  /\ m[2] \o m[3] \in Seq(Byte) /\ Len(m[2] \o m[3]) = MetadataSize + Len(m[3])
         /\ Escaping(m[2] \o m[3])[Len(m[2] \o m[3])] \in Seq(Byte)
         /\ <<ESC, messagetype_to_byte[m[1]]>> \in Seq(Byte)
         /\ write_binary(m) \in Seq(Byte)
<1>1. m[2] \o m[3] \in Seq(Byte) /\ Len(m[2] \o m[3]) = MetadataSize + Len(m[3])
  <2>1. m[2] \in Seq(Byte) /\ m[3] \in Seq(Byte) /\ Len(m[2]) = MetadataSize
    BY WritableParts
  <2> QED
    BY <2>1, ConcatProperties
<1>2. Escaping(m[2] \o m[3])[Len(m[2] \o m[3])] \in Seq(Byte)
  <2>1. PICK b \in Seq(Byte) : b = m[2] \o m[3]
    BY <1>1
  <2>2. Len(b) \in 0..Len(b)
    OBVIOUS
  <2>3. Escaping(b)[Len(b)] \in Seq(Byte)
    BY <2>2, EscapingDef
  <2> QED
    BY <2>1, <2>3
<1>3. <<ESC, messagetype_to_byte[m[1]]>> \in Seq(Byte)
  <2>1. ESC \in Byte /\ messagetype_to_byte[m[1]] \in Byte
    BY WritableParts DEF ESC, Byte
  <2> QED
    BY <2>1
<1> QED
  BY <1>1, <1>2, <1>3 DEF write_binary

\* Writing is what its recursive definition says.
LEMMA WritingDef ==
  ASSUME NEW ms \in Seq(Writable)
  PROVE  /\ Writing(ms)[0] = <<>>
         /\ \A k \in 1..Len(ms) : Writing(ms)[k] = Writing(ms)[k - 1] \o write_binary(ms[k])
         /\ \A k \in 0..Len(ms) : Writing(ms)[k] \in Seq(Byte)
<1> DEFINE N == Len(ms)
<1> DEFINE Rec(f) ==
      f = [k \in 0..N |-> IF k = 0 THEN <<>> ELSE f[k - 1] \o write_binary(ms[k])]
<1> DEFINE step == [k \in 1..N |-> [v \in Seq(Byte) |-> v \o write_binary(ms[k])]]
<1>1. N \in Nat /\ \A k \in 1..N : write_binary(ms[k]) \in Seq(Byte)
  <2>1. N \in Nat /\ \A k \in 1..N : ms[k] \in Writable
    OBVIOUS
  <2> QED
    BY <2>1, BinaryType
<1>2. step \in [1..N -> [Seq(Byte) -> Seq(Byte)]]
  BY <1>1
<1>3. PICK f : Loop(f, Seq(Byte), <<>>, N, step)
  <2>1. <<>> \in Seq(Byte)
    OBVIOUS
  <2> HIDE DEF N, step
  <2> QED
    BY <1>1, <1>2, <2>1, LoopRuns
<1>4. ASSUME NEW k \in 1..N PROVE f[k] = f[k - 1] \o write_binary(ms[k])
  <2>1. k - 1 \in 0..N
    BY <1>1
  <2>2. f[k - 1] \in Seq(Byte)
    BY <1>3, <2>1 DEF Loop
  <2> QED
    BY <1>3, <2>2 DEF Loop
<1>5. Rec(f)
  <2>1. f = [k \in 0..N |-> f[k]] /\ f[0] = <<>>
    BY <1>3 DEF Loop
  <2>2. ASSUME NEW k \in 0..N
        PROVE  f[k] = IF k = 0 THEN <<>> ELSE f[k - 1] \o write_binary(ms[k])
    <3>1. k = 0 \/ k \in 1..N
      BY <1>1
    <3> QED
      BY <1>4, <2>1, <3>1
  <2> QED
    BY <2>1, <2>2
<1>6. Rec(Writing(ms))
  <2>1. \E g : Rec(g)
    <3> HIDE DEF Rec
    <3> QED
      BY <1>5
  <2> QED
    BY <2>1 DEF Writing
<1>7. PICK e : e = Writing(ms) /\ Rec(e)
  BY <1>6
<1>8. e[0] = <<>>
  BY <1>1, <1>7
<1>9. ASSUME NEW k \in 1..N PROVE e[k] = e[k - 1] \o write_binary(ms[k])
  <2>1. k \in 0..N /\ k # 0
    OBVIOUS
  <2> QED
    BY <1>7, <2>1
<1>10. \A k \in 0..N : e[k] \in Seq(Byte)
  <2>1. e[0] \in Seq(Byte)
    BY <1>8
  <2>2. \A k \in 1..N : e[k - 1] \in Seq(Byte) => e[k] \in Seq(Byte)
    BY <1>1, <1>9, ConcatProperties
  <2> HIDE DEF N
  <2> QED
    BY <1>1, <2>1, <2>2, LoopKeeps
<1> QED
  BY <1>7, <1>8, <1>9, <1>10

\* w is found in s after the first i bytes.
At(s, i, w) == i + Len(w) <= Len(s) /\ \A k \in 1..Len(w) : s[i + k] = w[k]

LEMMA AtParts ==
  ASSUME NEW s \in Seq(Byte), NEW i \in Nat, NEW u \in Seq(Byte), NEW v \in Seq(Byte),
         At(s, i, u \o v)
  PROVE  At(s, i, u) /\ At(s, i + Len(u), v)
<1>1. /\ Len(u) \in Nat /\ Len(v) \in Nat /\ Len(u \o v) = Len(u) + Len(v)
      /\ Len(s) \in Nat
  OBVIOUS
<1>2. At(s, i, u)
  <2>1. ASSUME NEW k \in 1..Len(u) PROVE s[i + k] = u[k]
    <3>1. k \in 1..Len(u \o v) /\ (u \o v)[k] = u[k]
      BY <1>1
    <3> QED
      BY <3>1 DEF At
  <2> QED
    BY <1>1, <2>1 DEF At
<1>3. At(s, i + Len(u), v)
  <2>1. ASSUME NEW k \in 1..Len(v) PROVE s[(i + Len(u)) + k] = v[k]
    <3>1. Len(u) + k \in 1..Len(u \o v) /\ (u \o v)[Len(u) + k] = v[k]
      BY <1>1
    <3>2. i + (Len(u) + k) = (i + Len(u)) + k
      BY <1>1
    <3> QED
      BY <3>1, <3>2 DEF At
  <2> QED
    BY <1>1, <2>1 DEF At
<1> QED
  BY <1>2, <1>3

\* Where a buffer that only grows is found, its parts are too.
LEMMA AtGrowing ==
  ASSUME NEW s \in Seq(Byte), NEW i \in Nat, NEW N \in Nat, NEW E,
         \A k \in 0..N : E[k] \in Seq(Byte),
         NEW w, \A k \in 1..N : w[k] \in Seq(Byte) /\ E[k] = E[k - 1] \o w[k],
         At(s, i, E[N])
  PROVE  /\ \A k \in 0..N : At(s, i, E[k])
         /\ \A k \in 1..N : At(s, i + Len(E[k - 1]), w[k])
<1> DEFINE S == {d \in Nat : d <= N => At(s, i, E[N - d])}
<1>1. 0 \in S
  OBVIOUS
<1>2. ASSUME NEW d \in Nat, d \in S PROVE d + 1 \in S
  <2> SUFFICES ASSUME d + 1 <= N PROVE At(s, i, E[N - (d + 1)])
    OBVIOUS
  <2>1. PICK k \in 1..N : k = N - d
    OBVIOUS
  <2>2. k - 1 \in 0..N /\ N - (d + 1) = k - 1 /\ d <= N
    BY <2>1, SMT
  <2>3. E[k] = E[k - 1] \o w[k] /\ w[k] \in Seq(Byte) /\ E[k - 1] \in Seq(Byte)
    BY <2>2
  <2>4. At(s, i, E[k])
    BY <1>2, <2>1, <2>2
  <2> QED
    BY <2>2, <2>3, <2>4, AtParts
<1>3. Nat \subseteq S
  <2> HIDE DEF S
  <2> QED
    BY <1>1, <1>2, Induction
<1>4. ASSUME NEW k \in 0..N PROVE At(s, i, E[k])
  <2>1. PICK d \in Nat : d = N - k
    OBVIOUS
  <2>2. d <= N /\ N - d = k
    BY <2>1
  <2>3. d \in S
    BY <1>3
  <2> QED
    BY <2>2, <2>3
<1>5. ASSUME NEW k \in 1..N PROVE At(s, i + Len(E[k - 1]), w[k])
  <2>1. k \in 0..N /\ k - 1 \in 0..N
    OBVIOUS
  <2>2. At(s, i, E[k - 1] \o w[k]) /\ E[k - 1] \in Seq(Byte) /\ w[k] \in Seq(Byte)
    BY <1>4, <2>1
  <2> QED
    BY <2>2, AtParts
<1> QED
  BY <1>4, <1>5

-----------------------------------------------------------------------------
(* The reference parser reads what was written *)

Body(m) == m[2] \o m[3]

\* It has read j bytes of m, and what it found before is out.
Part(r, m, j, out) ==
  /\ r.type = m[1] /\ r.out = out
  /\ \/ j < MetadataSize /\ r.meta = SubSeq(m[2], 1, j) /\ r.data = <<>>
     \/ j >= MetadataSize /\ r.meta = m[2] /\ r.data = SubSeq(m[3], 1, j - MetadataSize)

\* The same, but the message may be complete.
PartOrAll(r, m, j, out) ==
  IF j < MetadataSize + Len(m[3])
  THEN r.st = "DATA" /\ Part(r, m, j, out)
  ELSE r.st = "SYNC" /\ r.out = Append(out, m)

\* From i on, n bytes of s stand for the one byte x of a message.
StandsFor(s, i, n, x) ==
  LET a == Run(s)[i]
  IN  /\ n \in Nat /\ n > 0
      /\ \A k \in i..(i + n) - 1 : Run(s)[k].out = a.out
      /\ \E r \in RefType : /\ r.type = a.type /\ r.meta = a.meta
                            /\ r.data = a.data /\ r.out = a.out
                            /\ Run(s)[i + n] = Take(r, x)

LEMMA OneMore ==
  ASSUME NEW S, NEW s \in Seq(S), NEW j \in Nat, j + 1 <= Len(s)
  PROVE  /\ SubSeq(s, 1, j) \in Seq(S) /\ Len(SubSeq(s, 1, j)) = j
         /\ SubSeq(s, 1, j + 1) = Append(SubSeq(s, 1, j), s[j + 1])
<1>1. SubSeq(s, 1, j) \in Seq(S) /\ Len(SubSeq(s, 1, j)) = j
  <2>1. \A i \in 1..j : s[i] \in S
    OBVIOUS
  <2> QED
    BY <2>1, SubSeqProperties
<1>2. 1 \in 1..Len(s) /\ j + 1 \in 1..Len(s) /\ (j + 1) - 1 = j
  OBVIOUS
<1>3. SubSeq(s, 1, j + 1) = SubSeq(s, 1, j) \o <<s[j + 1]>>
  BY <1>2, SubSeqRecursiveSecond
<1>4. s[j + 1] \in S
  BY <1>2
<1> QED
  BY <1>1, <1>3, <1>4, AppendIsConcat

\* The next byte goes where it belongs, and the last one completes the message.
LEMMA PartTaken ==
  ASSUME NEW m \in Writable, NEW j \in Nat, j + 1 <= MetadataSize + Len(m[3]),
         NEW out, NEW r \in RefType, Part(r, m, j, out),
         NEW x, x = Body(m)[j + 1]
  PROVE  PartOrAll(Take(r, x), m, j + 1, out)
<1>1. /\ m = <<m[1], m[2], m[3]>> /\ m[1] \in MessageType
      /\ m[2] \in Seq(Byte) /\ Len(m[2]) = MetadataSize
      /\ m[3] \in Seq(Byte) /\ Len(m[3]) = message_size[m[1]]
      /\ MetadataSize \in Nat /\ MetadataSize > 0
      /\ Len(m[3]) \in Nat /\ Len(m[3]) > 0
  BY WritableParts
<1>2. j + 1 \in 1..Len(m[2]) + Len(m[3])
  BY <1>1
<1>3. CASE j < MetadataSize
  <2>1. x = m[2][j + 1] /\ x \in Byte
    <3>1. j + 1 <= Len(m[2]) /\ j + 1 \in 1..Len(m[2])
      BY <1>1, <1>3
    <3>2. x = m[2][j + 1]
      BY <1>1, <1>2, <3>1, ConcatProperties DEF Body
    <3> QED
      BY <1>1, <3>1, <3>2
  <2>2. /\ SubSeq(m[2], 1, j) \in Seq(Byte) /\ Len(SubSeq(m[2], 1, j)) = j
        /\ SubSeq(m[2], 1, j + 1) = Append(SubSeq(m[2], 1, j), x)
    <3>1. PICK d \in Seq(Byte) : d = m[2] /\ j + 1 <= Len(d)
      BY <1>1, <1>3
    <3>2. /\ SubSeq(d, 1, j) \in Seq(Byte) /\ Len(SubSeq(d, 1, j)) = j
          /\ SubSeq(d, 1, j + 1) = Append(SubSeq(d, 1, j), d[j + 1])
      BY <3>1, OneMore
    <3> QED
      BY <2>1, <3>1, <3>2
  <2>3. r.type = m[1] /\ r.out = out /\ r.meta = SubSeq(m[2], 1, j) /\ r.data = <<>>
    BY <1>1, <1>3 DEF Part
  <2>4. PICK t : t = Take(r, x)
    OBVIOUS
  <2>5. /\ t.st = "DATA" /\ t.type = m[1] /\ t.out = out
        /\ t.meta = SubSeq(m[2], 1, j + 1) /\ t.data = <<>>
    <3>1. Len(r.meta) < MetadataSize
      BY <1>3, <2>2, <2>3
    <3>2. /\ t.st = "DATA" /\ t.type = r.type /\ t.out = r.out
          /\ t.meta = Append(r.meta, x) /\ t.data = r.data
      BY <2>1, <2>4, <3>1, TakeMeta
    <3> QED
      BY <2>2, <2>3, <3>2
  <2>6. Part(t, m, j + 1, out)
    <3>1. CASE j + 1 < MetadataSize
      BY <2>5, <3>1 DEF Part
    <3>2. CASE j + 1 >= MetadataSize
      <4>1. j + 1 = Len(m[2]) /\ (j + 1) - MetadataSize = 0
        BY <1>1, <1>3, <3>2
      <4>2. SubSeq(m[2], 1, j + 1) = m[2] /\ SubSeq(m[3], 1, (j + 1) - MetadataSize) = <<>>
        BY <1>1, <4>1, SubSeqFull, SubSeqEmpty
      <4> QED
        BY <2>5, <3>2, <4>2 DEF Part
    <3> QED
      BY <1>1, <3>1, <3>2
  <2>7. j + 1 < MetadataSize + Len(m[3])
    BY <1>1, <1>3
  <2> QED
    BY <2>4, <2>5, <2>6, <2>7 DEF PartOrAll
<1>4. CASE j >= MetadataSize
  <2>1. PICK i \in Nat : i = j - MetadataSize
    BY <1>1, <1>4
  <2>2. i + 1 \in 1..Len(m[3]) /\ i + 1 <= Len(m[3]) /\ (j + 1) - MetadataSize = i + 1
    BY <1>1, <2>1
  <2>3. x = m[3][i + 1] /\ x \in Byte
    <3>1. ~(j + 1 <= Len(m[2])) /\ (j + 1) - Len(m[2]) = i + 1
      BY <1>1, <1>4, <2>1
    <3>2. x = m[3][i + 1]
      BY <1>1, <1>2, <3>1, ConcatProperties DEF Body
    <3> QED
      BY <1>1, <2>2, <3>2
  <2>4. /\ SubSeq(m[3], 1, i) \in Seq(Byte) /\ Len(SubSeq(m[3], 1, i)) = i
        /\ SubSeq(m[3], 1, i + 1) = Append(SubSeq(m[3], 1, i), x)
    <3>1. PICK d \in Seq(Byte) : d = m[3]
      BY <1>1
    <3>2. /\ SubSeq(d, 1, i) \in Seq(Byte) /\ Len(SubSeq(d, 1, i)) = i
          /\ SubSeq(d, 1, i + 1) = Append(SubSeq(d, 1, i), d[i + 1])
      BY <2>2, <3>1, OneMore
    <3> QED
      BY <2>3, <3>1, <3>2
  <2>5. r.type = m[1] /\ r.out = out /\ r.meta = m[2] /\ r.data = SubSeq(m[3], 1, i)
    BY <1>1, <1>4, <2>1 DEF Part
  <2>6. ~(Len(r.meta) < MetadataSize)
    BY <1>1, <2>5
  <2>7. Append(r.data, x) = SubSeq(m[3], 1, i + 1) /\ Len(Append(r.data, x)) = i + 1
    BY <2>3, <2>4, <2>5, AppendProperties
  <2>8. PICK t : t = Take(r, x)
    OBVIOUS
  <2>9. CASE i + 1 < Len(m[3])
    <3>1. /\ t.st = "DATA" /\ t.type = m[1] /\ t.out = out
          /\ t.meta = m[2] /\ t.data = SubSeq(m[3], 1, i + 1)
      BY <1>1, <2>3, <2>5, <2>6, <2>7, <2>8, <2>9, TakeData
    <3>2. Part(t, m, j + 1, out)
      BY <1>1, <1>4, <2>2, <3>1 DEF Part
    <3>3. j + 1 < MetadataSize + Len(m[3])
      BY <1>1, <2>1, <2>9
    <3> QED
      BY <2>8, <3>1, <3>2, <3>3 DEF PartOrAll
  <2>10. CASE ~(i + 1 < Len(m[3]))
    <3>1. i + 1 = Len(m[3])
      BY <1>1, <2>2, <2>10
    <3>2. Append(r.data, x) = m[3]
      BY <1>1, <2>7, <3>1, SubSeqFull
    <3>3. ~(Len(Append(r.data, x)) < message_size[r.type]) /\ r.type \in MessageType
      BY <1>1, <2>5, <2>7, <2>10
    <3>4. t.st = "SYNC" /\ t.out = Append(r.out, <<r.type, r.meta, Append(r.data, x)>>)
      BY <2>3, <2>6, <2>8, <3>3, TakeLast
    <3>5. t.out = Append(out, m)
      BY <1>1, <2>5, <3>2, <3>4
    <3>6. ~(j + 1 < MetadataSize + Len(m[3]))
      BY <1>1, <2>1, <3>1
    <3> QED
      BY <2>8, <3>4, <3>5, <3>6 DEF PartOrAll
  <2> QED
    BY <2>9, <2>10
<1>5. j < MetadataSize \/ j >= MetadataSize
  BY <1>1
<1> QED
  BY <1>3, <1>4, <1>5

\* A byte of a message, doubled if it is a 1A, is taken once.
LEMMA ByteRead ==
  ASSUME NEW s \in Seq(Byte), NEW i \in Nat, NEW x \in Byte,
         At(s, i, push_back_beast(x)), Run(s)[i].st = "DATA"
  PROVE  StandsFor(s, i, Len(push_back_beast(x)), x)
<1>0. PICK n, a : n = Len(push_back_beast(x)) /\ a = Run(s)[i]
  OBVIOUS
<1> SUFFICES /\ n \in Nat /\ n > 0
             /\ \A k \in i..(i + n) - 1 : Run(s)[k].out = a.out
             /\ \E r \in RefType : /\ r.type = a.type /\ r.meta = a.meta
                                   /\ r.data = a.data /\ r.out = a.out
                                   /\ Run(s)[i + n] = Take(r, x)
  BY <1>0 DEF StandsFor
<1>1. n = IF x = ESC THEN 2 ELSE 1
  <2>1. Len(<<ESC, ESC>>) = 2 /\ Len(<<x>>) = 1
    OBVIOUS
  <2> QED
    BY <1>0, <2>1 DEF push_back_beast
<1>2. i + n <= Len(s) /\ Len(s) \in Nat
  BY <1>0 DEF At
<1>3. a \in RefType /\ a.st = "DATA" /\ i + 1 \in 1..Len(s) /\ (i + 1) - 1 = i
  <2>1. i \in 0..Len(s) /\ i + 1 \in 1..Len(s) /\ (i + 1) - 1 = i
    BY <1>1, <1>2
  <2>2. a \in RefOK
    BY <1>0, <2>1, RunDef
  <2> QED
    BY <1>0, <2>1, <2>2 DEF RefOK
<1>4. Run(s)[i + 1] = Advance(a, s[i + 1])
  <2>1. Run(s)[i + 1] = Advance(Run(s)[(i + 1) - 1], s[i + 1])
    BY <1>3, RunDef
  <2> QED
    BY <1>0, <1>3, <2>1
<1>5. CASE x # ESC
  <2>1. push_back_beast(x) = <<x>> /\ n = 1
    BY <1>1, <1>5 DEF push_back_beast
  <2>2. s[i + 1] = x
    BY <2>1 DEF At
  <2>3. Run(s)[i + n] = Take(a, x)
    BY <1>3, <1>4, <1>5, <2>1, <2>2, OtherMoves
  <2>4. \A k \in i..(i + n) - 1 : k = i
    BY <2>1
  <2> QED
    BY <1>0, <1>3, <2>1, <2>3, <2>4
<1>6. CASE x = ESC
  <2>1. push_back_beast(x) = <<ESC, ESC>> /\ n = 2
    BY <1>1, <1>6 DEF push_back_beast
  <2>2. s[i + 1] = ESC /\ s[i + 2] = ESC
    <3>1. \A k \in 1..2 : s[i + k] = <<ESC, ESC>>[k]
      BY <2>1 DEF At
    <3> QED
      BY <3>1
  <2>3. PICK t : t = Advance(a, ESC)
    OBVIOUS
  <2>4. /\ t \in RefType /\ t.st = "ESCAPED" /\ t.type = a.type /\ t.meta = a.meta
        /\ t.data = a.data /\ t.out = a.out
    BY <1>3, <2>3, EscapeMove
  <2>5. i + 2 \in 1..Len(s) /\ (i + 2) - 1 = i + 1
    BY <1>2, <2>1
  <2>6. Run(s)[i + 2] = Advance(t, ESC) /\ Run(s)[i + 1] = t
    <3>1. Run(s)[i + 2] = Advance(Run(s)[(i + 2) - 1], s[i + 2])
      BY <2>5, RunDef
    <3> QED
      BY <1>4, <2>2, <2>3, <2>5, <3>1
  <2>7. Run(s)[i + n] = Take(t, x)
    BY <1>6, <2>1, <2>4, <2>6, OtherMoves
  <2>8. \A k \in i..(i + n) - 1 : k = i \/ k = i + 1
    BY <2>1
  <2> QED
    BY <1>0, <2>1, <2>4, <2>6, <2>7, <2>8
<1> QED
  BY <1>5, <1>6

\* Between i and n it finds m, behind what it found before.
Finds(s, i, n, out, m) ==
  /\ n \in Nat /\ n > i
  /\ Run(s)[n].st = "SYNC" /\ Run(s)[n].out = Append(out, m)
  /\ \A k \in i..n - 1 : Run(s)[k].out = out

\* The reference parser gets through the message behind a type byte.
LEMMA BodyRead ==
  ASSUME NEW s \in Seq(Byte), NEW i \in Nat, NEW m \in Writable, NEW out,
         NEW b \in Seq(Byte), b = Body(m),
         NEW E, E = Escaping(b), At(s, i, E[Len(b)]),
         Run(s)[i].st = "DATA", Part(Run(s)[i], m, 0, out)
  PROVE  Finds(s, i, i + Len(E[Len(b)]), out, m)
<1> DEFINE at(j) == i + Len(E[j])
<1> DEFINE Done(j) ==
      /\ PartOrAll(Run(s)[at(j)], m, j, out)
      /\ at(j) \in Nat /\ at(j) >= i /\ (j > 0 => at(j) > i)
      /\ \A k \in i..at(j) - 1 : Run(s)[k].out = out
<1> DEFINE S == {j \in Nat : j <= Len(b) => Done(j)}
<1>1. /\ Len(b) = MetadataSize + Len(m[3]) /\ Len(b) \in Nat /\ Len(b) > 0
  <2>1. /\ MetadataSize \in Nat /\ MetadataSize > 0
        /\ Len(m[3]) \in Nat /\ Len(m[3]) > 0
    BY WritableParts
  <2>2. Len(b) = MetadataSize + Len(m[3])
    BY BinaryType DEF Body
  <2> QED
    BY <2>1, <2>2
<1>2. /\ E[0] = <<>> /\ \A k \in 0..Len(b) : E[k] \in Seq(Byte)
      /\ \A k \in 1..Len(b) : E[k] = E[k - 1] \o push_back_beast(b[k])
  BY EscapingDef
<1>3. \A k \in 1..Len(b) : At(s, i + Len(E[k - 1]), push_back_beast(b[k]))
  <2> DEFINE w == [k \in 1..Len(b) |-> push_back_beast(b[k])]
  <2>1. \A k \in 1..Len(b) : w[k] \in Seq(Byte) /\ w[k] = push_back_beast(b[k])
    <3>1. \A k \in 1..Len(b) : b[k] \in Byte
      OBVIOUS
    <3> QED
      BY <3>1, PushType
  <2>2. \A k \in 1..Len(b) : w[k] \in Seq(Byte) /\ E[k] = E[k - 1] \o w[k]
    BY <1>2, <2>1
  <2> HIDE DEF w
  <2>3. \A k \in 1..Len(b) : At(s, i + Len(E[k - 1]), w[k])
    BY <1>1, <1>2, <2>2, AtGrowing
  <2> QED
    BY <2>1, <2>3
<1>4. 0 \in S
  <2>1. Len(E[0]) = 0
    BY <1>2
  <2>2. at(0) = i
    BY <2>1
  <2>3. \A k \in i..at(0) - 1 : FALSE
    BY <2>2
  <2> QED
    BY <1>1, <2>2, <2>3 DEF PartOrAll
<1>5. ASSUME NEW j \in Nat, j \in S PROVE j + 1 \in S
  <2> SUFFICES ASSUME j + 1 <= Len(b) PROVE Done(j + 1)
    <3> HIDE DEF Done
    <3> QED
      OBVIOUS
  <2>1. /\ j < Len(b) /\ j \in 0..Len(b) /\ j + 1 \in 1..Len(b) /\ (j + 1) - 1 = j
        /\ j + 1 \in 0..Len(b) /\ j + 1 <= MetadataSize + Len(m[3])
    BY <1>1
  <2>2. PICK p0 \in Nat : p0 = at(j)
    <3>1. at(j) \in Nat
      BY <1>5, <2>1
    <3> HIDE DEF at
    <3> QED
      BY <3>1
  <2>3. /\ Run(s)[p0].st = "DATA" /\ Part(Run(s)[p0], m, j, out) /\ p0 >= i
        /\ \A k \in i..p0 - 1 : Run(s)[k].out = out
    BY <1>1, <1>5, <2>1, <2>2 DEF PartOrAll
  <2>4. PICK x \in Byte : x = b[j + 1]
    BY <2>1
  <2>5. PICK w \in Seq(Byte) : w = push_back_beast(x)
    BY <2>4, PushType
  <2>6. At(s, p0, w)
    BY <1>3, <2>1, <2>2, <2>4, <2>5
  <2>7. PICK n : n = Len(w)
    OBVIOUS
  <2>8. PICK a : a = Run(s)[p0]
    OBVIOUS
  <2>9. StandsFor(s, p0, n, x)
    BY <2>3, <2>5, <2>6, <2>7, ByteRead
  <2>10. PICK r \in RefType : /\ r.type = a.type /\ r.meta = a.meta
                              /\ r.data = a.data /\ r.out = a.out
                              /\ Run(s)[p0 + n] = Take(r, x)
    BY <2>8, <2>9 DEF StandsFor
  <2>11. /\ Part(r, m, j, out) /\ n \in Nat /\ n > 0
         /\ \A k \in p0..(p0 + n) - 1 : Run(s)[k].out = out
    BY <2>3, <2>8, <2>9, <2>10 DEF Part, StandsFor
  <2>12. at(j + 1) = p0 + n
    <3>1. E[j + 1] = E[j] \o w /\ E[j] \in Seq(Byte)
      BY <1>2, <2>1, <2>4, <2>5
    <3>2. Len(E[j + 1]) = Len(E[j]) + n /\ Len(E[j]) \in Nat
      BY <2>7, <3>1, ConcatProperties, LenProperties
    <3> QED
      BY <2>2, <2>11, <3>2
  <2>13. PartOrAll(Take(r, x), m, j + 1, out)
    BY <2>1, <2>4, <2>11, PartTaken
  <2>14. \A k \in i..(p0 + n) - 1 : Run(s)[k].out = out
    <3>1. ASSUME NEW k \in i..(p0 + n) - 1 PROVE k \in i..p0 - 1 \/ k \in p0..(p0 + n) - 1
      BY <2>3, <2>11
    <3> QED
      BY <2>3, <2>11, <3>1
  <2>15. p0 + n \in Nat /\ p0 + n >= i /\ p0 + n > i
    BY <2>3, <2>11
  <2> HIDE DEF at
  <2> QED
    BY <2>10, <2>12, <2>13, <2>14, <2>15
<1>6. Done(Len(b))
  <2>1. Nat \subseteq S
    <3> HIDE DEF S
    <3> QED
      BY <1>4, <1>5, Induction
  <2> HIDE DEF Done
  <2> QED
    BY <1>1, <2>1
<1>7. ~(Len(b) < Len(b))
  BY <1>1
<1> QED
  BY <1>1, <1>6, <1>7 DEF PartOrAll, Finds

\* Out of s it finds first messages of ms, and in the end all of them.
Recovers(s, ms) ==
  /\ \A k \in 0..Len(s) : \E l \in 0..Len(ms) : Run(s)[k].out = SubSeq(ms, 1, l)
  /\ Run(s)[Len(s)].out = ms

\* It gets through a frame,
LEMMA FrameRead ==
  ASSUME NEW s \in Seq(Byte), NEW i \in Nat, NEW m \in Writable,
         At(s, i, write_binary(m)), Run(s)[i].st = "SYNC"
  PROVE  Finds(s, i, i + Len(write_binary(m)), Run(s)[i].out, m)
<1>1. PICK b \in Seq(Byte) : b = Body(m)
  BY BinaryType DEF Body
<1>2. PICK E : E = Escaping(b)
  OBVIOUS
<1>3. PICK w \in Seq(Byte) : w = E[Len(b)]
  BY <1>1, <1>2, BinaryType DEF Body
<1>4. PICK t \in Byte : t = messagetype_to_byte[m[1]]
  BY WritableParts
<1>5. <<ESC, t>> \in Seq(Byte) /\ Len(<<ESC, t>>) = 2
  BY <1>4, BinaryType
<1>6. write_binary(m) = <<ESC, t>> \o w
  BY <1>1, <1>2, <1>3, <1>4 DEF write_binary, Body
<1>7. At(s, i, <<ESC, t>>) /\ At(s, i + 2, w) /\ Len(write_binary(m)) = 2 + Len(w)
  <2>1. PICK h \in Seq(Byte) : h = <<ESC, t>> /\ Len(h) = 2
    BY <1>5
  <2>2. At(s, i, h \o w)
    BY <1>6, <2>1
  <2>3. At(s, i, h) /\ At(s, i + Len(h), w) /\ Len(h \o w) = Len(h) + Len(w)
    BY <2>2, AtParts, ConcatProperties
  <2> QED
    BY <1>6, <2>1, <2>3
<1>8. s[i + 1] = ESC /\ s[i + 2] = t /\ i + 2 <= Len(s)
  <2>1. i + 2 <= Len(s) /\ \A k \in 1..2 : s[i + k] = <<ESC, t>>[k]
    BY <1>5, <1>7 DEF At
  <2> QED
    BY <2>1
<1>9. /\ i \in 0..Len(s) /\ i + 1 \in 1..Len(s) /\ (i + 1) - 1 = i
      /\ i + 2 \in 1..Len(s) /\ (i + 2) - 1 = i + 1
  BY <1>8
<1>10. PICK a, c, d : a = Run(s)[i] /\ c = Run(s)[i + 1] /\ d = Run(s)[i + 2]
  OBVIOUS
<1>11. a \in RefType /\ c = Advance(a, ESC) /\ d = Advance(c, t)
  <2>1. a \in RefOK
    BY <1>9, <1>10, RunDef
  <2>2. /\ Run(s)[i + 1] = Advance(Run(s)[(i + 1) - 1], s[i + 1])
        /\ Run(s)[i + 2] = Advance(Run(s)[(i + 2) - 1], s[i + 2])
    BY <1>9, RunDef
  <2> QED
    BY <1>8, <1>9, <1>10, <2>1, <2>2 DEF RefOK
<1>12. c \in RefType /\ c.st = "TYPE" /\ c.out = a.out
  BY <1>10, <1>11, StartMove
<1>13. /\ d.st = "DATA" /\ d.type = m[1] /\ d.meta = <<>> /\ d.data = <<>>
       /\ d.out = a.out
  <2>1. PICK type \in MessageType : type = m[1] /\ type = messagetype_from_byte(t)
    BY <1>4, WritableParts
  <2> QED
    BY <1>11, <1>12, <2>1, TypeMove
<1>14. Part(d, m, 0, a.out)
  <2>1. SubSeq(m[2], 1, 0) = <<>> /\ 0 < MetadataSize
    BY WritableParts, SubSeqEmpty
  <2> QED
    BY <1>13, <2>1 DEF Part
<1>15. Finds(s, i + 2, (i + 2) + Len(w), a.out, m)
  <2>1. i + 2 \in Nat
    OBVIOUS
  <2> QED
    BY <1>1, <1>2, <1>3, <1>7, <1>10, <1>13, <1>14, <2>1, BodyRead
<1>16. PICK n : n = i + Len(write_binary(m))
  OBVIOUS
<1>17. (i + 2) + Len(w) = n /\ n \in Nat
  BY <1>7, <1>16
<1>18. /\ n > i /\ Run(s)[n].st = "SYNC" /\ Run(s)[n].out = Append(a.out, m)
       /\ \A k \in i + 2..n - 1 : Run(s)[k].out = a.out
  BY <1>15, <1>17 DEF Finds
<1>19. ASSUME NEW k \in i..n - 1 PROVE Run(s)[k].out = a.out
  <2>1. k = i \/ k = i + 1 \/ k \in i + 2..n - 1
    BY <1>17
  <2> QED
    BY <1>10, <1>12, <1>18, <2>1
<1> QED
  BY <1>10, <1>16, <1>17, <1>18, <1>19 DEF Finds

\* through noise,
LEMMA NoiseRead ==
  ASSUME NEW s \in Seq(Byte), NEW noise \in Seq(Byte \ {ESC}), At(s, 0, noise)
  PROVE  \A k \in 0..Len(noise) : Run(s)[k].st = "SYNC" /\ Run(s)[k].out = <<>>
<1> DEFINE V == {r \in RefType : r.st = "SYNC" /\ r.out = <<>>}
<1>1. Len(noise) \in Nat /\ Len(noise) <= Len(s)
  BY DEF At
<1>2. Run(s)[0] \in V
  BY RunDef, StartOK DEF RefOK
<1>3. ASSUME NEW k \in 1..Len(noise), Run(s)[k - 1] \in V PROVE Run(s)[k] \in V
  <2>1. k \in 1..Len(s) /\ s[0 + k] = noise[k] /\ 0 + k = k
    BY <1>1 DEF At
  <2>2. PICK x \in Byte : x = s[k] /\ x # ESC
    BY <2>1, ElementOfSeq
  <2>3. PICK r \in RefType : r = Run(s)[k - 1] /\ r.st = "SYNC" /\ r.out = <<>>
    BY <1>3
  <2>4. Run(s)[k] = Hunt(r, x)
    BY <2>1, <2>2, <2>3, RunDef, OtherMoves
  <2>5. PICK t : t = Hunt(r, x)
    OBVIOUS
  <2>6. t \in RefType /\ t.st = "SYNC" /\ t.out = <<>>
    BY <2>2, <2>3, <2>5, HuntMove
  <2> QED
    BY <2>4, <2>5, <2>6
<1>4. \A k \in 0..Len(noise) : Run(s)[k] \in V
  <2> HIDE DEF V
  <2> QED
    BY <1>1, <1>2, <1>3, LoopKeeps
<1> QED
  BY <1>4

\* and so through all that is written.
LEMMA StreamRead ==
  ASSUME NEW noise \in Seq(Byte \ {ESC}), NEW ms \in Seq(Writable),
         NEW s, s = noise \o Written(ms)
  PROVE  s \in Seq(Byte) /\ Recovers(s, ms)
<1>1. PICK W : W = Writing(ms)
  OBVIOUS
<1>2. Len(ms) \in Nat
  OBVIOUS
<1>3. /\ W[0] = <<>> /\ \A k \in 0..Len(ms) : W[k] \in Seq(Byte)
      /\ \A k \in 1..Len(ms) : W[k] = W[k - 1] \o write_binary(ms[k])
  BY <1>1, WritingDef
<1>4. PICK u \in Seq(Byte) : u = W[Len(ms)] /\ s = noise \o u
  BY <1>1, <1>2, <1>3 DEF Written
<1>5. noise \in Seq(Byte)
  BY SeqMonotonic
<1>6. s \in Seq(Byte) /\ Len(s) = Len(noise) + Len(u)
  BY <1>4, <1>5, ConcatProperties
<1>7. At(s, 0, s)
  <2>1. 0 + Len(s) <= Len(s) /\ \A k \in 1..Len(s) : 0 + k = k
    BY <1>6
  <2> QED
    BY <2>1 DEF At
<1>8. PICK z \in Nat : z = Len(noise)
  OBVIOUS
<1>9. At(s, 0, noise) /\ At(s, z, u)
  <2>1. 0 + Len(noise) = z /\ 0 \in Nat
    BY <1>8
  <2>2. At(s, 0, noise \o u)
    BY <1>4, <1>7
  <2>3. At(s, 0, noise) /\ At(s, 0 + Len(noise), u)
    BY <1>5, <1>6, <2>1, <2>2, AtParts
  <2> QED
    BY <2>1, <2>3
<1>10. \A k \in 0..z : Run(s)[k].st = "SYNC" /\ Run(s)[k].out = <<>>
  BY <1>6, <1>8, <1>9, NoiseRead
<1>11. \A k \in 1..Len(ms) : At(s, z + Len(W[k - 1]), write_binary(ms[k]))
  <2> DEFINE w == [k \in 1..Len(ms) |-> write_binary(ms[k])]
  <2>1. \A k \in 1..Len(ms) : w[k] \in Seq(Byte) /\ w[k] = write_binary(ms[k])
    <3>1. \A k \in 1..Len(ms) : ms[k] \in Writable
      OBVIOUS
    <3> QED
      BY <3>1, BinaryType
  <2>2. \A k \in 1..Len(ms) : w[k] \in Seq(Byte) /\ W[k] = W[k - 1] \o w[k]
    BY <1>3, <2>1
  <2>3. At(s, z, W[Len(ms)])
    BY <1>4, <1>9
  <2> HIDE DEF w
  <2>4. \A k \in 1..Len(ms) : At(s, z + Len(W[k - 1]), w[k])
    BY <1>2, <1>3, <1>6, <2>2, <2>3, AtGrowing
  <2> QED
    BY <2>1, <2>4
<1> DEFINE at(j) == z + Len(W[j])
<1> DEFINE Found(k, j) == \E l \in 0..j : Run(s)[k].out = SubSeq(ms, 1, l)
<1> DEFINE Done(j) ==
      /\ at(j) \in Nat
      /\ Run(s)[at(j)].st = "SYNC" /\ Run(s)[at(j)].out = SubSeq(ms, 1, j)
      /\ \A k \in 0..at(j) : Found(k, j)
<1> DEFINE S == {j \in Nat : j <= Len(ms) => Done(j)}
<1>12. 0 \in S
  <2>1. Len(W[0]) = 0
    BY <1>3
  <2>2. at(0) = z /\ SubSeq(ms, 1, 0) = <<>>
    BY <2>1, SubSeqEmpty
  <2>3. z \in 0..z /\ 0 \in 0..0
    OBVIOUS
  <2> HIDE DEF at
  <2>4. Done(0)
    BY <1>10, <2>2, <2>3
  <2> HIDE DEF Done
  <2> QED
    BY <2>4
<1>13. ASSUME NEW j \in Nat, j \in S PROVE j + 1 \in S
  <2> SUFFICES ASSUME j + 1 <= Len(ms) PROVE Done(j + 1)
    <3> HIDE DEF Done
    <3> QED
      OBVIOUS
  <2>1. /\ j \in 0..Len(ms) /\ j + 1 \in 1..Len(ms) /\ (j + 1) - 1 = j /\ j <= Len(ms)
    BY <1>2
  <2>2. Done(j)
    BY <1>13, <2>1
  <2>3. PICK p0 \in Nat : p0 = at(j)
    BY <2>2
  <2>4. PICK m \in Writable : m = ms[j + 1]
    BY <2>1
  <2>5. PICK w \in Seq(Byte) : w = write_binary(m)
    BY BinaryType
  <2>6. At(s, p0, write_binary(m)) /\ Run(s)[p0].st = "SYNC"
    BY <1>11, <2>1, <2>2, <2>3, <2>4
  <2>7. PICK n : n = p0 + Len(w)
    OBVIOUS
  <2>8. Finds(s, p0, n, Run(s)[p0].out, m)
    BY <1>6, <2>5, <2>6, <2>7, FrameRead
  <2>9. at(j + 1) = n
    <3>1. W[j + 1] = W[j] \o w /\ W[j] \in Seq(Byte)
      BY <1>3, <2>1, <2>4, <2>5
    <3>2. Len(W[j + 1]) = Len(W[j]) + Len(w) /\ Len(W[j]) \in Nat /\ Len(w) \in Nat
      BY <3>1, ConcatProperties, LenProperties
    <3> QED
      BY <2>3, <2>7, <3>2
  <2>10. Run(s)[p0].out = SubSeq(ms, 1, j)
    BY <2>2, <2>3
  <2>11. SubSeq(ms, 1, j + 1) = Append(SubSeq(ms, 1, j), m)
    BY <2>4, OneMore
  <2>12. /\ n \in Nat /\ n > p0 /\ Run(s)[n].st = "SYNC"
         /\ Run(s)[n].out = SubSeq(ms, 1, j + 1)
         /\ \A k \in p0..n - 1 : Run(s)[k].out = SubSeq(ms, 1, j)
    BY <2>8, <2>10, <2>11 DEF Finds
  <2>13. ASSUME NEW k \in 0..n PROVE Found(k, j + 1)
    <3>1. j \in 0..j + 1 /\ j + 1 \in 0..j + 1 /\ \A l \in 0..j : l \in 0..j + 1
      OBVIOUS
    <3>2. CASE k \in 0..p0
      <4>1. Found(k, j)
        BY <2>2, <2>3, <3>2
      <4> QED
        BY <3>1, <4>1
    <3>3. CASE k \in p0..n - 1
      BY <2>12, <3>1, <3>3
    <3>4. CASE k = n
      BY <2>12, <3>1, <3>4
    <3>5. k \in 0..p0 \/ k \in p0..n - 1 \/ k = n
      BY <2>12
    <3> QED
      BY <3>2, <3>3, <3>4, <3>5
  <2> HIDE DEF at, Found
  <2> QED
    BY <2>9, <2>12, <2>13
<1>14. Done(Len(ms))
  <2>1. Nat \subseteq S
    <3> HIDE DEF S
    <3> QED
      BY <1>12, <1>13, Induction
  <2> HIDE DEF Done
  <2> QED
    BY <1>2, <2>1
<1>15. at(Len(ms)) = Len(s)
  BY <1>4, <1>6, <1>8
<1>16. SubSeq(ms, 1, Len(ms)) = ms
  BY SubSeqFull
<1> QED
  BY <1>6, <1>14, <1>15, <1>16 DEF Recovers

-----------------------------------------------------------------------------
(* The parser's place in the stream *)

\* The chunk is the part of the stream that was read last, and the reference
\* parser has come as far as the bytes that were consumed.
InStream ==
  /\ Len(buf) <= fed
  /\ \A i \in 1..Len(buf) : buf[i] = source[(fed - Len(buf)) + i]
  /\ ref = Run(source)[(fed - Len(buf)) + p]

LEMMA SourceType == TypeOK => source \in Seq(Byte)
BY ParserAssumption DEF TypeOK

LEMMA InitInStream ==
  ASSUME Init
  PROVE  InStream
<1>1. source \in Seq(Byte) /\ Len(buf) = 0 /\ fed = 0 /\ p = 0 /\ ref = RefStart
  BY ParserAssumption DEF Init
<1>2. ref = Run(source)[0]
  BY <1>1, RunDef
<1> QED
  BY <1>1, <1>2 DEF InStream

\* A turn of parse_input consumes up to two bytes, of the chunk.
LEMMA ParseConsumes ==
  ASSUME Parse
  PROVE  Consume1 \/ (~AtLast /\ Consume2) \/ (p' = p /\ ref' = ref)
BY DEF Parse, Resync, Read1A, ReadType, ReadData, ReadEscaped1A

LEMMA ParseInStream ==
  ASSUME Inv, InStream, Parse
  PROVE  InStream'
<1>1. PICK n \in Nat, z \in Nat : n = Len(buf) /\ z = fed - n /\ fed <= Len(source)
  <2>1. fed \in Nat /\ fed <= Len(source) /\ Len(buf) \in Nat
    BY SourceType DEF Inv, TypeOK
  <2>2. fed - Len(buf) \in Nat
    BY <2>1 DEF InStream
  <2> QED
    BY <2>1, <2>2
<1>2. source \in Seq(Byte) /\ p \in Nat /\ p < n /\ fed \in Nat
  BY <1>1, SourceType DEF Inv, TypeOK, Parse
<1>3. /\ \A i \in 1..n : buf[i] = source[z + i]
      /\ ref = Run(source)[z + p]
  BY <1>1 DEF InStream
<1>4. buf' = buf /\ source' = source /\ fed' = fed
  BY DEF Parse, chunk
<1>5. /\ p + 1 \in 1..n /\ z + (p + 1) \in 1..Len(source) /\ (z + (p + 1)) - 1 = z + p
  BY <1>1, <1>2
<1>6. Run(source)[z + (p + 1)] = Advance(ref, Cur)
  <2>1. Run(source)[z + (p + 1)] = Advance(Run(source)[(z + (p + 1)) - 1], source[z + (p + 1)])
    BY <1>2, <1>5, RunDef
  <2>2. Cur = source[z + (p + 1)]
    BY <1>3, <1>5 DEF Cur
  <2> QED
    BY <1>3, <1>5, <2>1, <2>2
<1>7. ref' = Run(source)[z + p']
  <2>1. CASE Consume1
    BY <1>6, <2>1 DEF Consume1
  <2>2. CASE ~AtLast /\ Consume2
    <3>1. /\ p + 2 \in 1..n /\ z + (p + 2) \in 1..Len(source)
          /\ (z + (p + 2)) - 1 = z + (p + 1)
      BY <1>1, <1>2, <2>2 DEF AtLast
    <3>2. Run(source)[z + (p + 2)]
            = Advance(Run(source)[(z + (p + 2)) - 1], source[z + (p + 2)])
      BY <1>2, <3>1, RunDef
    <3>3. Peek = source[z + (p + 2)]
      BY <1>3, <3>1 DEF Peek
    <3> QED
      BY <1>6, <2>2, <3>1, <3>2, <3>3 DEF Consume2
  <2>3. CASE p' = p /\ ref' = ref
    BY <1>3, <2>3
  <2> QED
    BY <2>1, <2>2, <2>3, ParseConsumes
<1> QED
  BY <1>1, <1>3, <1>4, <1>7 DEF InStream

LEMMA EndParseInStream ==
  ASSUME Inv, InStream, EndParse
  PROVE  InStream'
<1>1. /\ p = Len(buf) /\ buf' = <<>> /\ p' = 0
      /\ source' = source /\ fed' = fed /\ ref' = ref
  BY DEF EndParse
<1>2. Len(buf') = 0 /\ fed \in Nat /\ Len(buf) \in Nat
  BY <1>1, SourceType DEF Inv, TypeOK
<1>3. (fed - Len(buf)) + p = fed /\ (fed' - Len(buf')) + p' = fed
  BY <1>1, <1>2
<1>4. ref' = Run(source')[(fed' - Len(buf')) + p']
  BY <1>1, <1>3 DEF InStream
<1>5. Len(buf') <= fed' /\ \A i \in 1..Len(buf') : FALSE
  BY <1>1, <1>2
<1> QED
  BY <1>4, <1>5 DEF InStream

LEMMA ReadInStream ==
  ASSUME Inv, InStream, NEW n \in 1..Len(source) - fed, Read(n)
  PROVE  InStream'
<1>1. source \in Seq(Byte) /\ fed \in Nat /\ fed <= Len(source) /\ n \in Nat
  BY SourceType DEF Inv, TypeOK
<1>2. Len(buf) = 0 /\ p = 0
  BY DEF Inv, TypeOK, Read
<1>3. /\ buf' = SubSeq(source, fed + 1, fed + n) /\ fed' = fed + n
      /\ source' = source /\ ref' = ref /\ p' = p
  BY DEF Read
<1>4. /\ Len(buf') = n
      /\ \A i \in 1..n : buf'[i] = source[fed + i]
  <2>1. \A i \in fed + 1..fed + n : source[i] \in Byte
    BY <1>1
  <2>2. /\ fed + 1 \in Int /\ fed + n \in Int /\ fed + 1 <= fed + n
        /\ (fed + n) - (fed + 1) + 1 = n
        /\ \A i \in 1..n : (fed + 1) + i - 1 = fed + i
    BY <1>1
  <2>3. /\ Len(buf') = IF fed + 1 <= fed + n THEN (fed + n) - (fed + 1) + 1 ELSE 0
        /\ \A i \in 1..(fed + n) - (fed + 1) + 1 : buf'[i] = source[(fed + 1) + i - 1]
    BY <1>3, <2>1, <2>2, SubSeqProperties
  <2> QED
    BY <2>2, <2>3
<1>5. /\ (fed' - Len(buf')) = fed /\ Len(buf') <= fed'
      /\ (fed - Len(buf)) + p = fed /\ fed + p' = fed
  BY <1>1, <1>2, <1>3, <1>4
<1>6. ref = Run(source)[fed]
  BY <1>5 DEF InStream
<1> QED
  BY <1>3, <1>4, <1>5, <1>6 DEF InStream

LEMMA EstablishedInStream ==
  ASSUME Inv, ConnectionEstablished
  PROVE  InStream'
<1>1. /\ source' \in Resumed /\ fed' = 0 /\ ref' = RefStart /\ buf' = buf /\ p' = p
  BY DEF ConnectionEstablished
<1>2. Len(buf) = 0 /\ p = 0
  BY DEF Inv, TypeOK, ConnectionEstablished
<1>3. source' \in Seq(Byte)
  BY <1>1, ParserAssumption
<1>4. ref' = Run(source')[0]
  BY <1>1, <1>3, RunDef
<1> QED
  BY <1>1, <1>2, <1>4 DEF InStream

LEMMA NextInStream == Inv /\ InStream /\ [Next]_vars => InStream'
<1> SUFFICES ASSUME Inv, InStream, [Next]_vars PROVE InStream'
  OBVIOUS
<1>1. CASE Parse
  BY <1>1, ParseInStream
<1>2. CASE EndParse
  BY <1>2, EndParseInStream
<1>3. ASSUME NEW n \in 1..Len(source) - fed, Read(n)
      PROVE  InStream'
  BY <1>3, ReadInStream
<1>4. CASE ConnectionEstablished
  BY <1>4, EstablishedInStream
<1>5. CASE UNCHANGED vars
  BY <1>5 DEF vars, chunk, InStream
<1>6. QED
  BY <1>1, <1>2, <1>3, <1>4, <1>5 DEF Next

\* On every connection the reference parser is where the bytes that parse_input
\* has consumed of it have brought it, from a fresh start: nothing of a connection
\* broken off before is left.
THEOREM PlaceKept == Spec => []InStream
<1>1. Init => InStream
  BY InitInStream
<1>2. QED
  BY <1>1, NextInStream, Invariance, PTL DEF Spec

\* What SocketOutput::write_binary writes, BeastInput::parse_input reads: the same
\* messages in the same order, for every list of messages, bytes 1A in them or not,
\* noise before them and division into reads.
THEOREM RoundTripHolds == Spec => []RoundTrip
<1>1. Inv /\ InStream => RoundTrip
  <2> SUFFICES ASSUME Inv, InStream, NEW f \in Framed, source = f.bytes
               PROVE  /\ IsPrefix(dispatched, f.sent)
                      /\ fed = Len(source) /\ buf = <<>> => dispatched = f.sent
    BY DEF RoundTrip
  <2>1. PICK noise \in Noise, ms \in MessageLists :
          f = [bytes |-> noise \o Written(ms), sent |-> ms]
    BY DEF Framed
  <2>2. /\ noise \in Seq(Byte \ {ESC}) /\ ms \in Seq(Writable)
        /\ source = noise \o Written(ms) /\ f.sent = ms
    BY <2>1, FramingAssumption
  <2>3. /\ source \in Seq(Byte) /\ Run(source)[Len(source)].out = ms
        /\ \A k \in 0..Len(source) :
             \E l \in 0..Len(ms) : Run(source)[k].out = SubSeq(ms, 1, l)
    <3>1. source \in Seq(Byte) /\ Recovers(source, ms)
      BY <2>2, StreamRead
    <3> QED
      BY <3>1 DEF Recovers
  <2>4. PICK k \in Nat : k = (fed - Len(buf)) + p /\ k \in 0..Len(source)
    <3>1. /\ fed \in Nat /\ fed <= Len(source) /\ Len(source) \in Nat
          /\ Len(buf) \in Nat /\ p \in Nat /\ p <= Len(buf)
      BY <2>3 DEF Inv, TypeOK
    <3>2. Len(buf) <= fed
      BY DEF InStream
    <3>3. (fed - Len(buf)) + p \in 0..Len(source)
      BY <3>1, <3>2
    <3>4. (fed - Len(buf)) + p \in Nat
      BY <3>1, <3>3
    <3> QED
      BY <3>3, <3>4
  <2>5. dispatched = Run(source)[k].out
    BY <2>4 DEF Inv, Corresponds, InStream
  <2>6. IsPrefix(dispatched, ms)
    <3>1. PICK l \in 0..Len(ms) : dispatched = SubSeq(ms, 1, l)
      BY <2>3, <2>4, <2>5
    <3>2. l \in Nat /\ l <= Len(ms) /\ \A i \in 1..l : ms[i] \in Writable
      BY <2>2
    <3>3. dispatched \in Seq(Writable) /\ Len(dispatched) = l
      BY <3>1, <3>2, SubSeqProperties
    <3>4. SubSeq(dispatched, 1, Len(dispatched)) = dispatched
      BY <3>3, SubSeqFull
    <3> QED
      BY <3>1, <3>2, <3>3, <3>4 DEF IsPrefix
  <2>7. ASSUME fed = Len(source), buf = <<>> PROVE dispatched = ms
    <3>1. p = 0 /\ Len(buf) = 0 /\ Len(source) \in Nat
      BY <2>3, <2>7 DEF Inv, TypeOK
    <3>2. k = Len(source)
      BY <2>4, <2>7, <3>1
    <3> QED
      BY <2>3, <2>5, <3>2
  <2> QED
    BY <2>2, <2>6, <2>7
<1>2. QED
  BY <1>1, Invariance, PlaceKept, PTL
=============================================================================
