--------------------------- MODULE BeastSettings ---------------------------
(***************************************************************************)
(* beast::Settings (beast_settings.h, beast_settings.cc) and the option    *)
(* commands of SocketOutput::process_option_command.                       *)
(*                                                                         *)
(* A Settings object is a function from setting names to tristates.  The   *)
(* bytes 1A '1' <letter> of an option command are a record: the lower-case *)
(* letter and whether it was sent in upper case (on).  A settings message  *)
(* is the set of the commands it is made of: to_message puts no letter in  *)
(* it twice, and no command changes what another one of it does.           *)
(***************************************************************************)
EXTENDS ModesFilter

Tristate == {"on", "off", "dontcare"}

SettingName == {"radarcape", "binary_format", "filter_11_17_18", "avrmlat",
                "crc_disable", "gps_timestamps", "rts_handshake",
                "fec_disable", "modeac_enable", "filter_0_4_5",
                "position_enable", "verbatim"}

Settings == [SettingName -> Tristate]

\* The settings whose DONTCARE reads as true (template parameter D).
DefaultOn == {"binary_format", "avrmlat", "gps_timestamps", "rts_handshake"}

\* tristate(bool) and tristate::operator=(bool).
Tri(b) == IF b THEN "on" ELSE "off"

\* tristate::operator bool.
IsSet(s, n) == IF s[n] = "dontcare" THEN n \in DefaultOn ELSE s[n] = "on"

AllDontCare == [n \in SettingName |-> "dontcare"]

\* Settings::operator|: the left side wins where it cares.  position_enable is
\* not combined.
OrElse(s, t) ==
  [n \in SettingName |->
     IF s[n] = "dontcare" /\ n # "position_enable" THEN t[n] ELSE s[n]]

\* Settings(const std::string &).  `given' maps each setting the string names
\* to its last letter's value; there is no letter for position_enable.
FromString(given) ==
  LET s == [n \in SettingName |->
              IF n \in DOMAIN given THEN Tri(given[n]) ELSE "dontcare"]
  IN  CASE s.radarcape = "off" /\ s.gps_timestamps # "dontcare" ->
             [s EXCEPT !.gps_timestamps = "off"]
        [] s.radarcape = "on" /\ s.filter_0_4_5 # "dontcare" ->
             [s EXCEPT !.filter_0_4_5 = "off"]
        [] OTHER -> s

-----------------------------------------------------------------------------
(* Settings and filters *)

\* Settings(const Filter &): the settings that make a receiver send what the
\* filter lets through.  receive_df[5] is tested without negation, as in the
\* code.
FromFilter(f) ==
  [AllDontCare EXCEPT
     !.filter_11_17_18 = Tri(f.receive_df \subseteq {11, 17, 18}),
     !.crc_disable     = Tri("bad_crc" \in f.receive),
     !.gps_timestamps  = Tri("gps_timestamps" \in f.receive),
     !.fec_disable     = Tri("fec" \notin f.receive),
     !.modeac_enable   = Tri("modeac" \in f.receive),
     !.filter_0_4_5    = Tri(/\ 0 \notin f.receive_df /\ 4 \notin f.receive_df
                             /\ 5 \in f.receive_df),
     !.verbatim        = IF "verbatim" \in f.receive THEN "on" ELSE "dontcare"]

\* Settings::to_filter.
ToFilter(s) ==
  [receive_df |-> IF IsSet(s, "filter_11_17_18") THEN {11, 17, 18}
                  ELSE IF IsSet(s, "filter_0_4_5") THEN DF \ {0, 4, 5}
                  ELSE DF,
   receive |->
     {x \in FilterFlag :
        \/ x = "modeac"   /\ IsSet(s, "modeac_enable")
        \/ x = "bad_crc"  /\ IsSet(s, "crc_disable")
        \/ x = "fec"      /\ ~IsSet(s, "fec_disable")
        \/ x = "status"   /\ s.radarcape # "off"
        \/ x = "gps_timestamps" /\ s.radarcape # "off" /\ s.gps_timestamps # "off"
        \/ x = "position" /\ IsSet(s, "position_enable")
        \/ x = "verbatim" /\ IsSet(s, "verbatim")}]

-----------------------------------------------------------------------------
(* Option commands *)

\* The letter of each setting that has one of its own.  'g' stands for two.
PlainLetter == [binary_format |-> "c", filter_11_17_18 |-> "d", avrmlat |-> "e",
                crc_disable |-> "f", rts_handshake |-> "h", fec_disable |-> "i",
                modeac_enable |-> "j", verbatim |-> "v"]

Letter == {PlainLetter[n] : n \in DOMAIN PlainLetter} \cup {"g"}

Command == [letter : Letter, on : BOOLEAN]

\* Settings::to_message.
ToMessage(s) ==
  {[letter |-> PlainLetter[n], on |-> s[n] = "on"] :
     n \in {k \in DOMAIN PlainLetter : s[k] # "dontcare"}}
  \cup
  (IF ~IsSet(s, "radarcape") /\ s.filter_0_4_5 # "dontcare"
   THEN {[letter |-> "g", on |-> s.filter_0_4_5 = "on"]}
   ELSE IF IsSet(s, "radarcape") /\ s.gps_timestamps # "dontcare"
   THEN {[letter |-> "g", on |-> s.gps_timestamps = "on"]}
   ELSE {})

\* The setting an option letter stands for on a connection with settings s.
OptionTarget(s, letter) ==
  IF letter = "g"
  THEN IF IsSet(s, "radarcape") THEN "gps_timestamps" ELSE "filter_0_4_5"
  ELSE CHOOSE n \in DOMAIN PlainLetter : PlainLetter[n] = letter

\* SocketOutput::process_option_command for each of a set of commands with
\* distinct letters.  None of them changes radarcape, so their order is
\* immaterial.
ProcessOptions(s, cmds) ==
  [n \in SettingName |->
     IF \E c \in cmds : OptionTarget(s, c.letter) = n
     THEN Tri((CHOOSE c \in cmds : OptionTarget(s, c.letter) = n).on)
     ELSE s[n]]

-----------------------------------------------------------------------------
(* The status byte of a Radarcape status message, as the set of its bits *)

StatusBit == {"binary_format", "filter_11_17_18", "avrmlat", "crc_disable",
              "gps_timestamps", "rts_handshake", "fec_disable",
              "modeac_enable"}

\* Settings(std::uint8_t).
FromStatusByte(b) ==
  [n \in SettingName |-> IF n \in StatusBit THEN Tri(n \in b)
                         ELSE IF n = "radarcape" THEN "on" ELSE "dontcare"]

\* Settings::to_status_byte.
ToStatusByte(s) ==
  IF IsSet(s, "radarcape") THEN {n \in StatusBit : IsSet(s, n)} ELSE {}
=============================================================================
