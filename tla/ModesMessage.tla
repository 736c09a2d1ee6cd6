---------------------------- MODULE ModesMessage ----------------------------
(***************************************************************************)
(* The CRC of Mode S (crc.h, crc.cc), modes::Message with what it computes *)
(* late and keeps (modes_message.h), and what Filter::operator() and       *)
(* SocketOutput::write make of it: one message off the air, with up to two *)
(* bits of it received wrong, is broadcast to any number of clients, which *)
(* share the one Message object.                                           *)
(*                                                                         *)
(* A word is the set of its bits that are 1, bit 0 the lowest.  The data   *)
(* of a message is the set of its bits that are 1, bit 0 the first sent.   *)
(***************************************************************************)
EXTENDS BeastSettings, FiniteSets

CONSTANTS
  Codewords,    \* what is sent; see Codeword
  Choices       \* the settings a client may have switched on

ASSUME MessageAssumption ==
  /\ DF = 0..31
  /\ Choices \subseteq SUBSET {"crc_disable", "fec_disable", "verbatim"}

Xor(a, b) == (a \ b) \cup (b \ a)

-----------------------------------------------------------------------------
(* crc.cc, crc.h *)

crc_polynomial == (12..23) \cup {10, 3, 0}      \* 0xfff409

\* One step of the template crcgen, and all eight.
Shift(c) == Xor({b + 1 : b \in c \ {23}}, IF 23 \in c THEN crc_polynomial ELSE {})

crcgen(c) == LET gen[k \in 0..8] == IF k = 0 THEN c ELSE Shift(gen[k - 1])
             IN  gen[8]

crc_table == [byte \in SUBSET (0..7) |-> crcgen({b + 16 : b \in byte})]

\* Byte k of data.
Byte(data, k) == {b \in 0..7 : 8 * k + 7 - b \in data}

\* One turn of the loop of crc().  (The mutation does not carry the top byte
\* over.)
CrcStep_dropped(c, byte) ==
  Xor({b + 8 : b \in c \cap (0..15)}, crc_table[byte])

CrcStep(c, byte) ==
  Xor({b + 8 : b \in c \cap (0..15)}, crc_table[Xor(byte, {b - 16 : b \in c \cap (16..23)})])

crc(data, bytes) ==
  LET c[k \in 0..bytes] == IF k = 0 THEN {} ELSE CrcStep(c[k - 1], Byte(data, k - 1))
  IN  c[bytes]

\* message_residual of n bits.
message_residual(data, n) ==
  Xor(crc(data, n \div 8 - 3), {b \in 0..23 : n - 1 - b \in data})

\* init_syndromes, for messages of n bits, and a look at the table.
Syndromes(n) == [i \in 5..n - 1 |-> message_residual({i}, n)]

syndromes_short == Syndromes(56)
syndromes_long  == Syndromes(112)

Find(table, residual) ==
  IF \E i \in DOMAIN table : table[i] = residual
  THEN CHOOSE i \in DOMAIN table : table[i] = residual
  ELSE -1

-----------------------------------------------------------------------------
(* What the transponder sends *)

\* The generator polynomial of Mode S, the remainder of x^k by it, and that of a
\* message of n bits, by the definition of polynomial division.
Generator == (12..24) \cup {10, 3, 0}

Power ==
  LET p[k \in 0..111] ==
        IF k = 0 THEN {0}
        ELSE LET q == {b + 1 : b \in p[k - 1]} IN IF 24 \in q THEN Xor(q, Generator) ELSE q
  IN  [k \in 0..111 |-> p[k]]

Remainder(data, n) ==
  {b \in 0..23 : Cardinality({i \in data : b \in Power[n - 1 - i]}) % 2 = 1}

Size(df) == IF df = 11 THEN 56 ELSE 112

\* A format, all other bits before the 24 of the parity, and for DF 11 the
\* interrogator's code, put over the last bits of the parity.  `errors' bounds the
\* bits received wrong.
Codeword ==
  {w \in [df : {11, 17, 18}, bits : SUBSET (5..87), iid : SUBSET (0..6), errors : 0..2] :
     /\ w.bits \subseteq 5..Size(w.df) - 25
     /\ w.df # 11 => w.iid = {}}

ASSUME CodewordAssumption == Codewords \subseteq Codeword

Encode(w) ==
  LET n       == Size(w.df)
      payload == {i \in 0..4 : (w.df \div 2^(4 - i)) % 2 = 1} \cup w.bits
  IN  payload \cup {n - 1 - b : b \in Xor(Remainder(payload, n), w.iid)}

-----------------------------------------------------------------------------
VARIABLES
  sent,              \* the codeword, and
  received,          \* its bits as they were received
  m_data, m_residual, m_correctable_bit, m_corrected_data,
  last               \* the last client handed a message: its settings and what
                     \* it got

\* (This module's Init, Next and Spec have names of their own: BroadcastProofs
\* extends FilterDistributor too.)
message     == <<m_data, m_residual, m_correctable_bit, m_corrected_data>>
messageVars == <<sent, received, message, last>>

Unknown == 0..31     \* 0xFFFFFFFF
Empty   == {}        \* the empty vector; no message has no bit set
Nobody  == [on |-> {}, data |-> {}]

n == Size(sent.df)

ErrorSets == {e \in {{}} \cup {{i, j} : i, j \in 0..n - 1} : Cardinality(e) <= sent.errors}

MessageInit ==
  /\ sent \in Codewords
  /\ \E e \in ErrorSets : received = Xor(Encode(sent), e)
  /\ m_data = received
  /\ m_residual = Unknown /\ m_correctable_bit = -2 /\ m_corrected_data = Empty
  /\ last = Nobody

-----------------------------------------------------------------------------
(* Message *)

df(data) == LET Bit(i) == IF i \in data THEN 2^(4 - i) ELSE 0
            IN  Bit(0) + Bit(1) + Bit(2) + Bit(3) + Bit(4)

\* crc_residual and crc_correctable_bit: what they return, which is what they
\* keep.  Below, r and bit are their values.
crc_residual ==
  IF m_residual = Unknown THEN message_residual(m_data, n) ELSE m_residual

crc_correctable_bit(r) ==
  IF m_correctable_bit # -2 THEN m_correctable_bit
  ELSE CASE df(m_data) = 11         -> Find(syndromes_short, r)
         [] df(m_data) \in {17, 18} -> Find(syndromes_long, r)
         [] OTHER                   -> -1

CrcBad(r) ==
  \/ df(m_data) = 11 /\ r \cap (7..23) # {}
  \/ df(m_data) \in {17, 18} /\ r # {}

\* corrected_data.  (The mutation corrects a message that is not bad.)
corrected_data_always(r, bit) ==
  IF m_corrected_data # Empty THEN m_corrected_data ELSE Xor(m_data, {bit})

corrected_data(r, bit) ==
  IF ~CrcBad(r) THEN m_data
  ELSE IF m_corrected_data # Empty \/ bit < 0 THEN m_corrected_data
  ELSE Xor(m_data, {bit})

-----------------------------------------------------------------------------
(* A client's turn in broadcast; `on' are the settings it switched on *)

ClientSettings(on) == [s \in SettingName |-> IF s \in on THEN "on" ELSE "dontcare"]

\* The filter of a client, as SocketOutput makes it of its settings, applied to
\* the message as ModesFilter sees it.
Wants(on, r, bit) ==
  LET class == IF ~CrcBad(r) THEN "good" ELSE IF bit >= 0 THEN "correctable" ELSE "bad"
  IN  Accepts(ToFilter(ClientSettings(on)), ModeS(df(m_data), class))

\* Filter::operator() comes to ask for crc_bad, and write for crc_correctable.
ChecksCrc(on) == on \cap {"crc_disable", "verbatim"} = {}
MayFec(on)    == on \cap {"fec_disable", "verbatim"} = {}

\* The data SocketOutput::write sends.  (The mutation corrects the message
\* itself.)
write_inplace(on, r, bit) ==
  LET needs_fec == MayFec(on) /\ bit >= 0
      data == IF needs_fec THEN corrected_data(r, bit) ELSE m_data
  IN  /\ last' = [on |-> on, data |-> data] /\ m_data' = data
      /\ m_corrected_data' = IF needs_fec /\ CrcBad(r) THEN data ELSE m_corrected_data

write(on, r, bit) ==
  LET needs_fec == MayFec(on) /\ bit >= 0
      data == IF needs_fec THEN corrected_data(r, bit) ELSE m_data
  IN  /\ last' = [on |-> on, data |-> data] /\ UNCHANGED m_data
      /\ m_corrected_data' = IF needs_fec /\ CrcBad(r) THEN data ELSE m_corrected_data

\* What the filter, and write if it is called, make the message keep.  Only a
\* format whose CRC is checked has its residual computed.
Keeps(on, r, bit, written) ==
  LET fec == \/ ChecksCrc(on) /\ CrcBad(r) /\ "fec_disable" \notin on
             \/ written /\ MayFec(on)
  IN  /\ m_residual' = IF df(m_data) \in CrcCheckedDF /\ (ChecksCrc(on) \/ fec)
                       THEN r ELSE m_residual
      /\ m_correctable_bit' = IF fec THEN bit ELSE m_correctable_bit

Delivered(on) ==
  LET r   == crc_residual
      bit == crc_correctable_bit(r)
  IN  /\ Wants(on, r, bit) /\ Keeps(on, r, bit, TRUE) /\ write(on, r, bit)
      /\ UNCHANGED <<sent, received>>

Withheld(on) ==
  LET r   == crc_residual
      bit == crc_correctable_bit(r)
  IN  /\ ~Wants(on, r, bit) /\ Keeps(on, r, bit, FALSE)
      /\ UNCHANGED <<sent, received, m_data, m_corrected_data, last>>

MessageNext == \/ \E on \in Choices : Delivered(on)
               \/ \E on \in Choices : Withheld(on)

MessageSpec == MessageInit /\ [][MessageNext]_messageVars

-----------------------------------------------------------------------------
(* Properties *)

\* Whatever was received, the residual that crc_residual keeps, worked out byte
\* by byte with the table generated at compile time, is the remainder of the
\* message by the Mode S polynomial.
ResidualIsRemainder == m_residual # Unknown => m_residual = Remainder(received, n)

\* A client that has the CRC checked (no f, no v) is only handed what was
\* sent.  A message that came through well is not touched, an interrogator code
\* that looks like an error included; one with up to two wrong bits is mended or
\* held back, whatever other clients were handed before: no two wrong bits pass
\* for one other.  (In DF 11 the last 7 bits have no parity of their own to be
\* checked by, and a format that no longer has its CRC checked is passed on.)
CleanData ==
  LET wrong == Xor(last.data, Encode(sent))
  IN  /\ last # Nobody /\ ChecksCrc(last.on) /\ df(received) \in CrcCheckedDF
      => wrong \subseteq IF sent.df = 11 /\ received # Encode(sent)
                         THEN n - 7..n - 1 ELSE {}

\* A client that asked for messages as they were received, or without error
\* correction, gets them so, even when the correction was worked out for a
\* client served before it.
AsReceived == last # Nobody /\ ~MayFec(last.on) => last.data = received
=============================================================================
