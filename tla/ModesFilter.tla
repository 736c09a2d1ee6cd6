---------------------------- MODULE ModesFilter ----------------------------
(***************************************************************************)
(* The message filter of modes_filter.h / modes_filter.cc and the part of  *)
(* a Mode S message (modes_message.h) that filtering looks at.             *)
(*                                                                         *)
(* A filter's receive_df array is the set of downlink formats it lets      *)
(* through, and its seven receive_* flags are the set of those that are    *)
(* true.  MODE_S_SHORT and MODE_S_LONG are filtered alike and are one type *)
(* here; the CRC residual is abstracted to what crc_bad() and              *)
(* crc_correctable() say of it.                                            *)
(***************************************************************************)
EXTENDS Integers

CONSTANT DF      \* the downlink formats the model tells apart

ASSUME DFAssumption == {0, 4, 5, 11, 17, 18} \subseteq DF /\ DF \subseteq 0..31

-----------------------------------------------------------------------------
(* Messages *)

NoDF == -1       \* Message::df() of anything that is not Mode S

\* The formats whose CRC can be checked without knowing the aircraft address.
CrcCheckedDF == {11, 17, 18}

Plain(t) == [type |-> t, df |-> NoDF, crc |-> "good"]

\* crc is "good" (not crc_bad), "correctable" (crc_bad with a single-bit
\* correction) or "bad" (crc_bad without one).
ModeS(d, c) == [type |-> "MODE_S", df |-> d, crc |-> c]

Message ==
  {Plain(t) : t \in {"MODE_AC", "STATUS", "POSITION"}}
    \cup {ModeS(d, "good") : d \in DF}
    \cup {ModeS(d, c) : d \in CrcCheckedDF, c \in {"correctable", "bad"}}

crc_bad(m)         == m.crc # "good"
crc_correctable(m) == m.crc = "correctable"

-----------------------------------------------------------------------------
(* Filters *)

FilterFlag == {"modeac", "bad_crc", "fec", "status", "gps_timestamps",
               "position", "verbatim"}

Filter == [receive_df : SUBSET DF, receive : SUBSET FilterFlag]

EmptyFilter == [receive_df |-> {}, receive |-> {}]

\* inplace_combine of every filter of S into an empty one: each receive_*
\* becomes the disjunction of the filters' own.
CombineAll(S) ==
  [receive_df |-> UNION {f.receive_df : f \in S},
   receive    |-> UNION {f.receive : f \in S}]

\* Filter::operator().
Accepts(f, m) ==
  \/ m.type = "MODE_AC"  /\ "modeac" \in f.receive
  \/ m.type = "STATUS"   /\ "status" \in f.receive
  \/ m.type = "POSITION" /\ "position" \in f.receive
  \/ /\ m.type = "MODE_S"
     /\ m.df \in f.receive_df
     /\ \/ "bad_crc" \in f.receive
        \/ "verbatim" \in f.receive
        \/ ~crc_bad(m)
        \/ "fec" \in f.receive /\ crc_correctable(m)
=============================================================================
