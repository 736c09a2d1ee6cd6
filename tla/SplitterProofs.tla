--------------------------- MODULE SplitterProofs ---------------------------
(***************************************************************************)
(* For every number of clients, all command lines, receivers, settings and *)
(* commands: the settings loop keeps the distributor's clients those of    *)
(* the outputs, and the receiver asked for what they need.                 *)
(*                                                                         *)
(* What ties the receiver to the clients is the last settings message on   *)
(* the wire: it is the one of current_settings, and when the wire is empty *)
(* the receiver has obeyed it.  What the receiver does with a g or G       *)
(* depends on what it is, so the invariant also says when receiver_type    *)
(* may be wrong about that.                                                *)
(***************************************************************************)
EXTENDS Splitter, SequenceTheorems, TLAPS

-----------------------------------------------------------------------------
(* Settings *)

LEMMA TriType == \A b : Tri(b) \in Tristate
BY DEF Tri, Tristate

\* process_option_command leaves settings.
LEMMA OptionsType ==
  ASSUME NEW s \in Settings, NEW cmds
  PROVE  ProcessOptions(s, cmds) \in Settings
<1>1. \A n \in SettingName : s[n] \in Tristate
  BY DEF Settings
<1> QED
  BY <1>1, TriType DEF ProcessOptions, Settings

LEMMA PlainSettings ==
  DOMAIN PlainLetter = {"binary_format", "filter_11_17_18", "avrmlat", "crc_disable",
                        "rts_handshake", "fec_disable", "modeac_enable", "verbatim"}
BY DEF PlainLetter

\* The letters differ, and none of them is g.
LEMMA PlainLetters ==
  /\ \A n \in DOMAIN PlainLetter : PlainLetter[n] # "g"
  /\ \A n, k \in DOMAIN PlainLetter : PlainLetter[n] = PlainLetter[k] => n = k
BY DEF PlainLetter

LEMMA TargetOfPlain ==
  ASSUME NEW d, NEW n \in DOMAIN PlainLetter
  PROVE  OptionTarget(d, PlainLetter[n]) = n
BY PlainLetters DEF OptionTarget

LEMMA TargetOfG ==
  ASSUME NEW d
  PROVE  OptionTarget(d, "g") = IF IsSet(d, "radarcape") THEN "gps_timestamps" ELSE "filter_0_4_5"
BY DEF OptionTarget

\* A command is one of a setting with a letter of its own, or a g or G.
LEMMA CommandForms ==
  ASSUME NEW c \in Command
  PROVE  c.letter = "g" \/ \E n \in DOMAIN PlainLetter : c.letter = PlainLetter[n]
BY DEF Command, Letter

\* No command says what the receiver is.
LEMMA TypeKept ==
  ASSUME NEW s \in Settings, NEW cmds, cmds \subseteq Command
  PROVE  ProcessOptions(s, cmds).radarcape = s.radarcape
<1>1. ASSUME NEW c \in cmds PROVE OptionTarget(s, c.letter) # "radarcape"
  <2>1. CASE c.letter = "g"
    BY <2>1, TargetOfG
  <2>2. CASE \E n \in DOMAIN PlainLetter : c.letter = PlainLetter[n]
    BY <2>2, TargetOfPlain, PlainSettings
  <2> QED
    BY <2>1, <2>2, CommandForms
<1> QED
  BY <1>1 DEF ProcessOptions, SettingName

\* to_message: what it is made of.
LEMMA MessageForms ==
  ASSUME NEW s, NEW c
  PROVE  c \in ToMessage(s) <=>
           \/ \E n \in DOMAIN PlainLetter :
                s[n] # "dontcare" /\ c = [letter |-> PlainLetter[n], on |-> s[n] = "on"]
           \/ /\ ~IsSet(s, "radarcape") /\ s.filter_0_4_5 # "dontcare"
              /\ c = [letter |-> "g", on |-> s.filter_0_4_5 = "on"]
           \/ /\ IsSet(s, "radarcape") /\ s.gps_timestamps # "dontcare"
              /\ c = [letter |-> "g", on |-> s.gps_timestamps = "on"]
<1> DEFINE P == {[letter |-> PlainLetter[n], on |-> s[n] = "on"] :
                   n \in {k \in DOMAIN PlainLetter : s[k] # "dontcare"}}
           G == IF ~IsSet(s, "radarcape") /\ s.filter_0_4_5 # "dontcare"
                THEN {[letter |-> "g", on |-> s.filter_0_4_5 = "on"]}
                ELSE IF IsSet(s, "radarcape") /\ s.gps_timestamps # "dontcare"
                THEN {[letter |-> "g", on |-> s.gps_timestamps = "on"]}
                ELSE {}
<1>1. ToMessage(s) = P \cup G
  BY DEF ToMessage
<1>2. c \in P <=> \E n \in DOMAIN PlainLetter :
                    s[n] # "dontcare" /\ c = [letter |-> PlainLetter[n], on |-> s[n] = "on"]
  OBVIOUS
<1>3. c \in G <=> \/ /\ ~IsSet(s, "radarcape") /\ s.filter_0_4_5 # "dontcare"
                     /\ c = [letter |-> "g", on |-> s.filter_0_4_5 = "on"]
                  \/ /\ IsSet(s, "radarcape") /\ s.gps_timestamps # "dontcare"
                     /\ c = [letter |-> "g", on |-> s.gps_timestamps = "on"]
  OBVIOUS
<1> HIDE DEF P, G
<1> QED
  BY <1>1, <1>2, <1>3

LEMMA MessageType ==
  ASSUME NEW s
  PROVE  ToMessage(s) \subseteq Command
<1> SUFFICES ASSUME NEW c \in ToMessage(s) PROVE c \in Command
  OBVIOUS
<1>1. CASE \E n \in DOMAIN PlainLetter : c = [letter |-> PlainLetter[n], on |-> s[n] = "on"]
  BY <1>1 DEF Command, Letter
<1>2. CASE c = [letter |-> "g", on |-> s.filter_0_4_5 = "on"]
  BY <1>2 DEF Command, Letter
<1>3. CASE c = [letter |-> "g", on |-> s.gps_timestamps = "on"]
  BY <1>3 DEF Command, Letter
<1> QED
  BY <1>1, <1>2, <1>3, MessageForms

\* The receiver has obeyed the settings message of s.
Obeys(d, s) == ProcessOptions(d, ToMessage(s)) = d

LEMMA ObeysOnce ==
  ASSUME NEW d \in Settings, NEW s
  PROVE  Obeys(ProcessOptions(d, ToMessage(s)), s)
<1> DEFINE M == ToMessage(s)
           e == ProcessOptions(d, M)
<1>1. e \in Settings /\ e["radarcape"] = d["radarcape"]
  BY MessageType, OptionsType, TypeKept
<1>2. \A l : OptionTarget(e, l) = OptionTarget(d, l)
  BY <1>1 DEF OptionTarget, IsSet
<1>3. e = [n \in SettingName |->
             IF \E c \in M : OptionTarget(d, c.letter) = n
             THEN Tri((CHOOSE c \in M : OptionTarget(d, c.letter) = n).on) ELSE d[n]]
  BY DEF ProcessOptions
<1>4. ProcessOptions(e, M) =
        [n \in SettingName |->
             IF \E c \in M : OptionTarget(e, c.letter) = n
             THEN Tri((CHOOSE c \in M : OptionTarget(e, c.letter) = n).on) ELSE e[n]]
  BY DEF ProcessOptions
<1> HIDE DEF e, M
<1>5. ASSUME NEW n \in SettingName PROVE ProcessOptions(e, M)[n] = e[n]
  <2>1. (CHOOSE c \in M : OptionTarget(e, c.letter) = n)
          = (CHOOSE c \in M : OptionTarget(d, c.letter) = n)
    BY <1>2
  <2>2. /\ e[n] = IF \E c \in M : OptionTarget(d, c.letter) = n
                  THEN Tri((CHOOSE c \in M : OptionTarget(d, c.letter) = n).on) ELSE d[n]
        /\ ProcessOptions(e, M)[n] =
                  IF \E c \in M : OptionTarget(e, c.letter) = n
                  THEN Tri((CHOOSE c \in M : OptionTarget(e, c.letter) = n).on) ELSE e[n]
    BY <1>3, <1>4
  <2> QED
    BY <1>2, <2>1, <2>2
<1>6. ProcessOptions(e, M) = [n \in SettingName |-> ProcessOptions(e, M)[n]]
  BY <1>4
<1>7. e = [n \in SettingName |-> e[n]]
  BY <1>1 DEF Settings
<1>8. ProcessOptions(e, M) = e
  BY <1>5, <1>6, <1>7
<1> QED
  BY <1>8 DEF Obeys, e, M

\* Then each setting that s cares for, and that has a letter, is as s says.
LEMMA ObeyedPlain ==
  ASSUME NEW d, NEW s, Obeys(d, s), NEW n \in DOMAIN PlainLetter, s[n] # "dontcare"
  PROVE  d[n] = Tri(s[n] = "on")
<1> DEFINE c == [letter |-> PlainLetter[n], on |-> s[n] = "on"]
<1>1. c \in ToMessage(s) /\ c.on = (s[n] = "on") /\ OptionTarget(d, c.letter) = n
  BY MessageForms, TargetOfPlain
<1>2. ASSUME NEW e \in ToMessage(s), OptionTarget(d, e.letter) = n PROVE e = c
  <2>1. CASE e.letter = "g"
    BY <1>2, <2>1, TargetOfG, PlainSettings
  <2>2. CASE \E k \in DOMAIN PlainLetter : e = [letter |-> PlainLetter[k], on |-> s[k] = "on"]
    <3>1. PICK k \in DOMAIN PlainLetter : e = [letter |-> PlainLetter[k], on |-> s[k] = "on"]
      BY <2>2
    <3>2. e.letter = PlainLetter[k]
      BY <3>1
    <3>3. k = n
      BY <1>2, <3>2, TargetOfPlain
    <3> QED
      BY <3>1, <3>3
  <2> QED
    BY <2>1, <2>2, MessageForms
<1> HIDE DEF c
<1>3. (CHOOSE e \in ToMessage(s) : OptionTarget(d, e.letter) = n) = c
  BY <1>1, <1>2
<1>4. n \in SettingName
  BY PlainSettings DEF SettingName
<1>5. ProcessOptions(d, ToMessage(s))[n] = Tri(c.on)
  BY <1>1, <1>3, <1>4 DEF ProcessOptions
<1> QED
  BY <1>1, <1>5 DEF Obeys

\* And so is filter_0_4_5, where the receiver and s agree on what it is.
LEMMA ObeyedSurveillance ==
  ASSUME NEW d, NEW s, Obeys(d, s), ~IsSet(d, "radarcape"), ~IsSet(s, "radarcape"),
         s.filter_0_4_5 # "dontcare"
  PROVE  d.filter_0_4_5 = Tri(s.filter_0_4_5 = "on")
<1> DEFINE c == [letter |-> "g", on |-> s.filter_0_4_5 = "on"]
<1>1. c \in ToMessage(s) /\ c.on = (s.filter_0_4_5 = "on")
      /\ OptionTarget(d, c.letter) = "filter_0_4_5"
  BY MessageForms, TargetOfG
<1>2. ASSUME NEW e \in ToMessage(s), OptionTarget(d, e.letter) = "filter_0_4_5" PROVE e = c
  <2>1. CASE \E k \in DOMAIN PlainLetter : e = [letter |-> PlainLetter[k], on |-> s[k] = "on"]
    <3>1. PICK k \in DOMAIN PlainLetter : e.letter = PlainLetter[k]
      BY <2>1
    <3> QED
      BY <1>2, <3>1, TargetOfPlain, PlainSettings
  <2> QED
    BY <2>1, MessageForms
<1> HIDE DEF c
<1>3. (CHOOSE e \in ToMessage(s) : OptionTarget(d, e.letter) = "filter_0_4_5") = c
  BY <1>1, <1>2
<1>4. ProcessOptions(d, ToMessage(s))["filter_0_4_5"] = Tri(c.on)
  BY <1>1, <1>3 DEF ProcessOptions, SettingName
<1> QED
  BY <1>1, <1>4 DEF Obeys

\* A receiver that reads g as gps_timestamps keeps its filter_0_4_5.
LEMMA SurveillanceKept ==
  ASSUME NEW d, d.radarcape = "on", NEW cmds, cmds \subseteq Command
  PROVE  ProcessOptions(d, cmds).filter_0_4_5 = d.filter_0_4_5
<1>1. IsSet(d, "radarcape")
  BY DEF IsSet
<1>2. ASSUME NEW c \in cmds PROVE OptionTarget(d, c.letter) # "filter_0_4_5"
  <2>1. CASE c.letter = "g"
    BY <1>1, <2>1, TargetOfG
  <2>2. CASE \E n \in DOMAIN PlainLetter : c.letter = PlainLetter[n]
    BY <2>2, TargetOfPlain, PlainSettings
  <2> QED
    BY <2>1, <2>2, CommandForms
<1> QED
  BY <1>2 DEF ProcessOptions, SettingName

-----------------------------------------------------------------------------
(* What is asked for *)

\* A command line and a receiver for which asking is enough: the receiver says
\* whether it is a Radarcape, --force is not wrong about it, and --force keeps
\* from the receiver nothing that the clients want.
AsksForNoLess(c) ==
  /\ c.receiver.radarcape # "dontcare"
  /\ c.fixed.radarcape = "on" => c.receiver.radarcape = "on"
  /\ c.receiver.radarcape = "on" => c.receiver.filter_0_4_5 # "on"
  /\ \A n \in {"filter_11_17_18", "filter_0_4_5", "fec_disable"} : c.fixed[n] # "on"
  /\ \A n \in {"crc_disable", "modeac_enable", "verbatim"} : c.fixed[n] # "off"

\* No filter that clients can ask for has DF5 without DF0, so that the test of
\* receive_df[5] in Settings(const Filter &) never asks for too little.
Shaped(f) == 5 \in f.receive_df => 0 \in f.receive_df

\* The settings of FromFilter that only `--force' can override.
Asked == {"filter_11_17_18", "filter_0_4_5", "fec_disable", "crc_disable", "modeac_enable"}

LEMMA FromFilterValues ==
  ASSUME NEW f
  PROVE  /\ FromFilter(f) \in Settings
         /\ FromFilter(f)["filter_11_17_18"] = Tri(f.receive_df \subseteq {11, 17, 18})
         /\ FromFilter(f)["crc_disable"] = Tri("bad_crc" \in f.receive)
         /\ FromFilter(f)["fec_disable"] = Tri("fec" \notin f.receive)
         /\ FromFilter(f)["modeac_enable"] = Tri("modeac" \in f.receive)
         /\ FromFilter(f)["filter_0_4_5"] = Tri(/\ 0 \notin f.receive_df /\ 4 \notin f.receive_df
                                               /\ 5 \in f.receive_df)
         /\ FromFilter(f)["verbatim"] = IF "verbatim" \in f.receive THEN "on" ELSE "dontcare"
<1>1. AllDontCare \in Settings
  BY DEF AllDontCare, Settings, Tristate
<1> HIDE DEF AllDontCare
<1>2. FromFilter(f) \in Settings
  BY <1>1, TriType DEF FromFilter, Settings, Tristate
<1> QED
  BY <1>1, <1>2 DEF FromFilter, Settings, SettingName

LEMMA WantedValues ==
  ASSUME NEW f, NEW rt, cfg \in Config
  PROVE  LET w == WantedSettings(f, rt) IN
         /\ w \in Settings
         /\ w["radarcape"] = Tri(rt = "RADARCAPE") /\ w["binary_format"] = "on"
         /\ \A n \in Asked :
              w[n] = IF cfg.fixed[n] = "dontcare" THEN FromFilter(f)[n] ELSE cfg.fixed[n]
         /\ w["verbatim"] = IF cfg.kind = "serial" THEN "dontcare"
                            ELSE IF cfg.fixed["verbatim"] = "dontcare" THEN FromFilter(f)["verbatim"]
                            ELSE cfg.fixed["verbatim"]
<1> DEFINE o == OrElse(cfg.fixed, FromFilter(f))
           s == [o EXCEPT !.radarcape = Tri(rt = "RADARCAPE"), !.binary_format = "on"]
           w == WantedSettings(f, rt)
<1>1. cfg.fixed \in Settings
  BY DEF Config
<1>2. /\ o \in Settings
      /\ \A n \in Asked \cup {"verbatim"} :
           o[n] = IF cfg.fixed[n] = "dontcare" THEN FromFilter(f)[n] ELSE cfg.fixed[n]
  BY <1>1, FromFilterValues DEF OrElse, Settings, SettingName, Asked
<1>3. w = IF cfg.kind = "serial" THEN [s EXCEPT !.rts_handshake = "on", !.verbatim = "dontcare"] ELSE s
  BY DEF WantedSettings
<1> HIDE DEF o, w
<1>4. /\ s \in Settings /\ s["radarcape"] = Tri(rt = "RADARCAPE") /\ s["binary_format"] = "on"
      /\ \A n \in Asked \cup {"verbatim"} : s[n] = o[n]
  BY <1>2, TriType DEF Settings, SettingName, Tristate, Asked
<1> HIDE DEF s
<1>5. CASE cfg.kind = "serial"
  <2>1. w = [s EXCEPT !.rts_handshake = "on", !.verbatim = "dontcare"]
    BY <1>3, <1>5
  <2>2. w \in Settings
    BY <1>4, <2>1 DEF Settings, SettingName, Tristate
  <2>3. /\ w["radarcape"] = s["radarcape"] /\ w["binary_format"] = s["binary_format"]
        /\ w["verbatim"] = "dontcare" /\ \A n \in Asked : w[n] = s[n]
    BY <1>4, <2>1 DEF Settings, SettingName, Asked
  <2> QED
    BY <1>2, <1>4, <1>5, <2>2, <2>3 DEF w
<1>6. CASE cfg.kind # "serial"
  <2>1. w = s
    BY <1>3, <1>6
  <2> QED
    BY <1>2, <1>4, <1>6, <2>1 DEF w
<1> QED
  BY <1>5, <1>6

\* It makes no difference whether a receiver that is no Radarcape is known.
LEMMA UnknownIsBeast ==
  ASSUME NEW f
  PROVE  WantedSettings(f, "UNKNOWN") = WantedSettings(f, "BEAST")
BY DEF WantedSettings

LEMMA SomethingWanted ==
  ASSUME NEW f, NEW rt, cfg \in Config
  PROVE  WantedSettings(f, rt) # AllDontCare
<1>1. WantedSettings(f, rt)["binary_format"] = "on"
  BY WantedValues
<1>2. AllDontCare["binary_format"] = "dontcare"
  BY DEF AllDontCare, SettingName
<1> QED
  BY <1>1, <1>2

\* A receiver that has obeyed the settings wanted for filter f passes whatever
\* f lets through.
LEMMA ObeyedCovers ==
  ASSUME NEW d \in Settings, NEW f \in Filter, Shaped(f), NEW rt,
         cfg \in Config, AsksForNoLess(cfg), Obeys(d, WantedSettings(f, rt)),
         d.radarcape = cfg.receiver.radarcape,
         rt = "RADARCAPE" => d.radarcape # "off" \/ cfg.fixed.radarcape = "on",
         d.radarcape = "on" => d.filter_0_4_5 = cfg.receiver.filter_0_4_5,
         NEW m \in Message, m.type \in {"MODE_AC", "MODE_S"}, Accepts(Requestable(f), m)
  PROVE  Accepts(ToFilter(d), m)
<1> DEFINE w == WantedSettings(f, rt)
<1>1. /\ w \in Settings /\ w["radarcape"] = Tri(rt = "RADARCAPE")
      /\ \A n \in Asked :
           w[n] = IF cfg.fixed[n] = "dontcare" THEN FromFilter(f)[n] ELSE cfg.fixed[n]
      /\ w["verbatim"] = IF cfg.kind = "serial" THEN "dontcare"
                         ELSE IF cfg.fixed["verbatim"] = "dontcare" THEN FromFilter(f)["verbatim"]
                         ELSE cfg.fixed["verbatim"]
  BY WantedValues
<1>2. cfg.fixed \in Settings /\ \A n \in SettingName : cfg.fixed[n] \in {"on", "off", "dontcare"}
  BY DEF Config, Settings, Tristate
<1> HIDE DEF w
<1>3. \A n \in Asked : w[n] # "dontcare"
  BY <1>1, FromFilterValues DEF Asked, Tri
<1>4. \A n \in DOMAIN PlainLetter : w[n] # "dontcare" => d[n] = Tri(w[n] = "on")
  BY ObeyedPlain DEF w
<1>5. f.receive_df \subseteq DF /\ f.receive \subseteq FilterFlag
  BY DEF Filter
<1>6. IsSet(d, "filter_11_17_18") => f.receive_df \subseteq {11, 17, 18}
  <2>1. d["filter_11_17_18"] = Tri(w["filter_11_17_18"] = "on")
    BY <1>3, <1>4, PlainSettings DEF Asked
  <2> QED
    BY <1>1, <2>1, FromFilterValues DEF IsSet, Tri, Asked, AsksForNoLess, DefaultOn
<1>7. ~IsSet(d, "filter_0_4_5")
  <2>1. CASE d.radarcape = "on"
    BY <2>1 DEF AsksForNoLess, IsSet, DefaultOn
  <2>2. CASE d.radarcape = "off"
    <3>1. rt # "RADARCAPE"
      BY <2>2 DEF AsksForNoLess
    <3>2. ~IsSet(d, "radarcape") /\ ~IsSet(w, "radarcape")
      BY <1>1, <2>2, <3>1 DEF IsSet, Tri
    <3>3. w["filter_0_4_5"] # "dontcare"
      BY <1>3 DEF Asked
    <3>4. d["filter_0_4_5"] = Tri(w["filter_0_4_5"] = "on")
      BY <3>2, <3>3, ObeyedSurveillance DEF w
    <3>5. w["filter_0_4_5"] # "on"
      BY <1>1, FromFilterValues DEF Asked, AsksForNoLess, Shaped, Tri
    <3> QED
      BY <3>4, <3>5 DEF Tri, IsSet
  <2> QED
    BY <2>1, <2>2 DEF AsksForNoLess, Settings, SettingName, Tristate
<1>8. "modeac" \in f.receive => IsSet(d, "modeac_enable")
  <2>1. d["modeac_enable"] = Tri(w["modeac_enable"] = "on")
    BY <1>3, <1>4, PlainSettings DEF Asked
  <2> QED
    BY <1>1, <1>2, <2>1, FromFilterValues DEF IsSet, Tri, Asked, AsksForNoLess, SettingName
<1>9. "bad_crc" \in f.receive => IsSet(d, "crc_disable")
  <2>1. d["crc_disable"] = Tri(w["crc_disable"] = "on")
    BY <1>3, <1>4, PlainSettings DEF Asked
  <2> QED
    BY <1>1, <1>2, <2>1, FromFilterValues DEF IsSet, Tri, Asked, AsksForNoLess, SettingName
<1>10. "fec" \in f.receive => ~IsSet(d, "fec_disable")
  <2>1. d["fec_disable"] = Tri(w["fec_disable"] = "on")
    BY <1>3, <1>4, PlainSettings DEF Asked
  <2> QED
    BY <1>1, <1>2, <2>1, FromFilterValues DEF IsSet, Tri, Asked, AsksForNoLess, SettingName, DefaultOn
<1>11. "verbatim" \in f.receive /\ cfg.kind # "serial" => IsSet(d, "verbatim")
  <2> SUFFICES ASSUME "verbatim" \in f.receive, cfg.kind # "serial" PROVE IsSet(d, "verbatim")
    OBVIOUS
  <2>1. w["verbatim"] = "on"
    BY <1>1, <1>2, FromFilterValues DEF AsksForNoLess, SettingName
  <2>2. d["verbatim"] = "on"
    BY <1>4, <2>1, PlainSettings DEF Tri
  <2> QED
    BY <2>2 DEF IsSet
<1> DEFINE q == Requestable(f)
<1>12. /\ q.receive_df = f.receive_df /\ q.receive \subseteq f.receive
       /\ "verbatim" \in q.receive => cfg.kind # "serial"
  BY DEF Requestable, Filter
<1> HIDE DEF q
<1>13. Accepts(q, m)
  BY DEF q
<1>14. q.receive_df \subseteq ToFilter(d).receive_df
  BY <1>5, <1>6, <1>7, <1>12 DEF ToFilter
<1>15. \A x \in {"modeac", "bad_crc", "fec", "verbatim"} :
          x \in q.receive => x \in ToFilter(d).receive
  BY <1>8, <1>9, <1>10, <1>11, <1>12 DEF ToFilter, FilterFlag
<1> QED
  BY <1>13, <1>14, <1>15 DEF Accepts

-----------------------------------------------------------------------------
(* The distributor *)

FilterIsCombination == filter = D!upstream_filter(clients)

\* The filters of all clients, the deleted ones too, are as outputs ask for them.
ClientsShaped == \A h \in DOMAIN clients : Shaped(clients[h].filter)

\* The StatusWriter's handle is no output's.
WriterApart == cfg.status_file => 0 \notin DOMAIN outputs /\ next_handle > 0

HubTypeOK ==
  /\ next_handle \in 0..MaxHandle
  /\ DOMAIN clients \subseteq 0..next_handle-1
  /\ clients \in [DOMAIN clients -> D!Client]
  /\ filter \in Filter
  /\ DOMAIN outputs \subseteq 0..next_handle-1
  /\ outputs \in [DOMAIN outputs -> [settings : Settings, open : BOOLEAN]]

HubInv ==
  /\ HubTypeOK /\ FilterIsCombination /\ ClientsShaped /\ WriterApart
  /\ OutputsMatchClients

LEMMA SameFilters == D!Filter = Filter
BY DEF D!Filter, D!FilterFlag, Filter, FilterFlag

LEMMA ClientType == D!Client = [filter : Filter, deleted : BOOLEAN]
BY SameFilters DEF D!Client

LEMMA UpstreamType ==
  ASSUME NEW c, c \in [DOMAIN c -> D!Client]
  PROVE  D!upstream_filter(c) \in Filter
<1> DEFINE S == {c[h].filter : h \in D!LiveIn(c)}
<1>1. S \subseteq Filter
  BY ClientType DEF D!LiveIn
<1>2. D!upstream_filter(c) = [receive_df |-> UNION {f.receive_df : f \in S},
                             receive    |-> UNION {f.receive : f \in S}]
  BY DEF D!upstream_filter, D!CombineAll
<1> HIDE DEF S
<1> QED
  BY <1>1, <1>2 DEF Filter

\* The upstream filter has every receive_* of a live client's.
LEMMA UpstreamHas ==
  ASSUME NEW c, NEW h \in D!LiveIn(c)
  PROVE  /\ c[h].filter.receive_df \subseteq D!upstream_filter(c).receive_df
         /\ c[h].filter.receive \subseteq D!upstream_filter(c).receive
BY DEF D!upstream_filter, D!CombineAll

LEMMA UpstreamShaped ==
  ASSUME NEW c, \A h \in DOMAIN c : Shaped(c[h].filter)
  PROVE  Shaped(D!upstream_filter(c))
BY DEF D!upstream_filter, D!CombineAll, D!LiveIn, Shaped

\* to_filter: a filter, and one of the shape.
LEMMA ToFilterType ==
  ASSUME NEW s
  PROVE  ToFilter(s) \in Filter /\ Shaped(ToFilter(s))
<1>1. {0, 4, 5, 11, 17, 18} \subseteq DF
  BY DFAssumption
<1>2. ToFilter(s).receive_df \in {{11, 17, 18}, DF \ {0, 4, 5}, DF}
  BY DEF ToFilter
<1>3. ToFilter(s).receive \subseteq FilterFlag
  BY DEF ToFilter
<1>4. ToFilter(s) = [receive_df |-> ToFilter(s).receive_df, receive |-> ToFilter(s).receive]
  BY DEF ToFilter
<1>5. ToFilter(s).receive_df \subseteq DF
  BY <1>1, <1>2
<1>6. ToFilter(s) \in Filter
  BY <1>3, <1>4, <1>5 DEF Filter
<1>7. Shaped(ToFilter(s))
  BY <1>1, <1>2 DEF Shaped
<1> QED
  BY <1>6, <1>7

\* The clients the process starts with, and starts again with.
LEMMA StartHub ==
  ASSUME cfg \in Config, NEW cl, NEW nh, NEW fi, NEW ou,
         cl = StartClients, nh = (IF cfg.status_file THEN 1 ELSE 0),
         fi = D!upstream_filter(cl), ou = NoOutputs
  PROVE  /\ nh \in 0..MaxHandle /\ DOMAIN cl \subseteq 0..nh-1
         /\ cl \in [DOMAIN cl -> D!Client] /\ fi \in Filter
         /\ DOMAIN ou = {} /\ ou \in [DOMAIN ou -> [settings : Settings, open : BOOLEAN]]
         /\ \A h \in DOMAIN cl : Shaped(cl[h].filter)
         /\ cfg.status_file => nh > 0
         /\ D!LiveIn(cl) = IF cfg.status_file THEN {0} ELSE {}
<1>1. [filter |-> StatusFilter, deleted |-> FALSE] \in D!Client
  BY ClientType DEF StatusFilter, Filter, FilterFlag
<1>2. Shaped(StatusFilter)
  BY DEF Shaped, StatusFilter
<1>3. cfg.status_file \in BOOLEAN
  BY DEF Config
<1>4. cl = [h \in IF cfg.status_file THEN {0} ELSE {} |-> [filter |-> StatusFilter, deleted |-> FALSE]]
  BY DEF StartClients
<1>5. cl \in [DOMAIN cl -> D!Client] /\ DOMAIN cl = (IF cfg.status_file THEN {0} ELSE {})
  BY <1>1, <1>4
<1>6. nh \in 0..MaxHandle /\ DOMAIN cl \subseteq 0..nh-1 /\ (cfg.status_file => nh > 0)
  BY <1>3, <1>5, SplitterAssumption
<1>7. fi \in Filter
  BY <1>5, UpstreamType
<1>8. DOMAIN ou = {} /\ ou \in [DOMAIN ou -> [settings : Settings, open : BOOLEAN]]
  BY DEF NoOutputs
<1>9. /\ \A h \in DOMAIN cl : Shaped(cl[h].filter)
      /\ D!LiveIn(cl) = IF cfg.status_file THEN {0} ELSE {}
  BY <1>2, <1>4 DEF D!LiveIn
<1> QED
  BY <1>5, <1>6, <1>7, <1>8, <1>9

LEMMA AcceptHub ==
  ASSUME HubInv, NEW s \in Settings, cfg' = cfg, D!add_client(ToFilter(s)),
         outputs' = [h \in DOMAIN outputs \cup {next_handle} |->
                       IF h = next_handle THEN [settings |-> s, open |-> TRUE] ELSE outputs[h]]
  PROVE  HubInv'
<1> USE DEF HubInv, HubTypeOK
<1>1. /\ next_handle < MaxHandle /\ next_handle' = next_handle + 1
      /\ clients' = [h \in DOMAIN clients \cup {next_handle} |->
                       IF h = next_handle THEN [filter |-> ToFilter(s), deleted |-> FALSE]
                                          ELSE clients[h]]
      /\ filter' = D!upstream_filter(clients')
  BY DEF D!add_client
<1>2. /\ next_handle' \in 0..MaxHandle /\ next_handle \in Nat
      /\ next_handle \notin DOMAIN clients /\ next_handle \notin DOMAIN outputs
      /\ 0..next_handle'-1 = 0..next_handle-1 \cup {next_handle} /\ next_handle' > 0
  BY <1>1, SplitterAssumption
<1>3. /\ DOMAIN clients' \subseteq 0..next_handle'-1 /\ DOMAIN outputs' \subseteq 0..next_handle'-1
  BY <1>1, <1>2
<1>4. clients' \in [DOMAIN clients' -> D!Client]
  <2>1. [filter |-> ToFilter(s), deleted |-> FALSE] \in D!Client
    BY ToFilterType, ClientType
  <2> QED
    BY <1>1, <2>1
<1>5. outputs' \in [DOMAIN outputs' -> [settings : Settings, open : BOOLEAN]]
  OBVIOUS
<1>6. HubTypeOK' /\ FilterIsCombination'
  BY <1>1, <1>2, <1>3, <1>4, <1>5, UpstreamType DEF FilterIsCombination
<1>7. ClientsShaped'
  BY <1>1, ToFilterType DEF ClientsShaped
<1>8. WriterApart'
  BY <1>2 DEF WriterApart
<1>9. OutputsMatchClients'
  <2>1. D!LiveIn(clients') = D!Live \cup {next_handle}
    BY <1>1, <1>2 DEF D!LiveIn, D!Live
  <2>2. {h \in DOMAIN outputs' : outputs'[h].open}
           = {h \in DOMAIN outputs : outputs[h].open} \cup {next_handle}
    BY <1>2
  <2>3. ASSUME NEW h \in DOMAIN outputs', outputs'[h].open
        PROVE  clients'[h].filter = ToFilter(outputs'[h].settings)
    <3>1. CASE h = next_handle
      BY <1>1, <3>1
    <3>2. CASE h # next_handle
      <4>1. h \in DOMAIN outputs /\ outputs'[h] = outputs[h] /\ outputs[h].open
        BY <2>3, <3>2
      <4>2. h \in D!Live /\ clients[h].filter = ToFilter(outputs[h].settings)
        BY <4>1 DEF OutputsMatchClients
      <4>3. h \in DOMAIN clients
        BY <4>2 DEF D!Live, D!LiveIn
      <4> QED
        BY <1>1, <3>2, <4>1, <4>2, <4>3
    <3> QED
      BY <3>1, <3>2
  <2> QED
    BY <2>1, <2>2, <2>3 DEF OutputsMatchClients, D!Live
<1> QED
  BY <1>6, <1>7, <1>8, <1>9

LEMMA OpenIsLive ==
  ASSUME HubInv, NEW h \in DOMAIN outputs, outputs[h].open
  PROVE  /\ h \in D!Live /\ h \in DOMAIN clients /\ clients[h].filter = ToFilter(outputs[h].settings)
         /\ cfg.status_file => h # 0
BY DEF HubInv, OutputsMatchClients, WriterApart, D!Live, D!LiveIn

LEMMA ProcessHub ==
  ASSUME HubInv, NEW h \in DOMAIN outputs, outputs[h].open, NEW s \in Settings, cfg' = cfg,
         outputs' = [outputs EXCEPT ![h].settings = s],
         \/ D!update_client_filter(h, ToFilter(s))
         \/ ToFilter(s) = clients[h].filter /\ UNCHANGED hub
  PROVE  HubInv'
<1> USE DEF HubInv, HubTypeOK
<1>0. h \in DOMAIN clients /\ h \in D!Live
  BY OpenIsLive
<1>1. /\ clients' = [clients EXCEPT ![h].filter = ToFilter(s)]
      /\ next_handle' = next_handle /\ filter' = D!upstream_filter(clients')
  <2>1. CASE D!update_client_filter(h, ToFilter(s))
    BY <2>1 DEF D!update_client_filter
  <2>2. CASE ToFilter(s) = clients[h].filter /\ UNCHANGED hub
    <3>1. clients[h] \in [filter : Filter, deleted : BOOLEAN]
      BY <1>0, ClientType
    <3>2. [clients[h] EXCEPT !.filter = ToFilter(s)] = clients[h]
      BY <2>2, <3>1
    <3>3. [clients EXCEPT ![h].filter = ToFilter(s)] = clients
      BY <3>2
    <3> QED
      BY <2>2, <3>3 DEF hub, FilterIsCombination
  <2> QED
    BY <2>1, <2>2
<1>2. ToFilter(s) \in Filter /\ Shaped(ToFilter(s))
  BY ToFilterType
<1>3. /\ clients' \in [DOMAIN clients -> D!Client] /\ DOMAIN clients' = DOMAIN clients
      /\ clients'[h].filter = ToFilter(s)
      /\ \A k \in DOMAIN clients : clients'[k].deleted = clients[k].deleted
      /\ \A k \in DOMAIN clients : k # h => clients'[k] = clients[k]
  BY <1>0, <1>1, <1>2, ClientType
<1>4. /\ outputs' \in [DOMAIN outputs -> [settings : Settings, open : BOOLEAN]]
      /\ DOMAIN outputs' = DOMAIN outputs /\ outputs'[h].settings = s
      /\ \A k \in DOMAIN outputs : outputs'[k].open = outputs[k].open
      /\ \A k \in DOMAIN outputs : k # h => outputs'[k] = outputs[k]
  OBVIOUS
<1>5. HubTypeOK' /\ FilterIsCombination'
  <2>1. filter' \in Filter
    BY <1>1, <1>3, UpstreamType
  <2> QED
    BY <1>1, <1>3, <1>4, <2>1 DEF FilterIsCombination
<1>6. ClientsShaped'
  BY <1>2, <1>3 DEF ClientsShaped
<1>7. WriterApart'
  BY <1>1, <1>4 DEF WriterApart
<1>8. OutputsMatchClients'
  <2>1. D!LiveIn(clients') = D!Live
    BY <1>3 DEF D!LiveIn, D!Live
  <2>2. {k \in DOMAIN outputs' : outputs'[k].open} = {k \in DOMAIN outputs : outputs[k].open}
    BY <1>4
  <2>3. ASSUME NEW k \in DOMAIN outputs', outputs'[k].open
        PROVE  clients'[k].filter = ToFilter(outputs'[k].settings)
    <3>1. CASE k = h
      BY <1>3, <1>4, <3>1
    <3>2. CASE k # h
      <4>1. k \in DOMAIN outputs /\ outputs'[k] = outputs[k] /\ outputs[k].open
        BY <1>4, <2>3, <3>2
      <4> QED
        BY <1>3, <3>2, <4>1, OpenIsLive
    <3> QED
      BY <3>1, <3>2
  <2> QED
    BY <2>1, <2>2, <2>3 DEF OutputsMatchClients, D!Live
<1> QED
  BY <1>5, <1>6, <1>7, <1>8

LEMMA CloseHub ==
  ASSUME HubInv, NEW h \in DOMAIN outputs, outputs[h].open, cfg' = cfg,
         outputs' = [outputs EXCEPT ![h].open = FALSE], D!remove_client(h)
  PROVE  HubInv'
<1> USE DEF HubInv, HubTypeOK
<1>0. h \in DOMAIN clients /\ h \in D!Live /\ (cfg.status_file => h # 0)
  BY OpenIsLive
<1>1. /\ clients' = [clients EXCEPT ![h].deleted = TRUE]
      /\ next_handle' = next_handle /\ filter' = D!upstream_filter(clients')
  BY DEF D!remove_client
<1>2. /\ clients' \in [DOMAIN clients -> D!Client] /\ DOMAIN clients' = DOMAIN clients
      /\ clients'[h].deleted = TRUE
      /\ \A k \in DOMAIN clients : clients'[k].filter = clients[k].filter
      /\ \A k \in DOMAIN clients : k # h => clients'[k] = clients[k]
  BY <1>0, <1>1, ClientType
<1>3. /\ outputs' \in [DOMAIN outputs -> [settings : Settings, open : BOOLEAN]]
      /\ DOMAIN outputs' = DOMAIN outputs /\ outputs'[h].open = FALSE
      /\ \A k \in DOMAIN outputs : k # h => outputs'[k] = outputs[k]
  OBVIOUS
<1>4. HubTypeOK' /\ FilterIsCombination'
  <2>1. filter' \in Filter
    BY <1>1, <1>2, UpstreamType
  <2> QED
    BY <1>1, <1>2, <1>3, <2>1 DEF FilterIsCombination
<1>5. ClientsShaped'
  BY <1>2 DEF ClientsShaped
<1>6. WriterApart'
  BY <1>1, <1>3 DEF WriterApart
<1>7. OutputsMatchClients'
  <2>1. D!LiveIn(clients') = D!Live \ {h}
    BY <1>2 DEF D!LiveIn, D!Live
  <2>2. {k \in DOMAIN outputs' : outputs'[k].open} = {k \in DOMAIN outputs : outputs[k].open} \ {h}
    BY <1>3
  <2>3. ASSUME NEW k \in DOMAIN outputs', outputs'[k].open
        PROVE  clients'[k].filter = ToFilter(outputs'[k].settings)
    <3>1. k # h
      BY <1>3, <2>3
    <3>2. k \in DOMAIN outputs /\ outputs'[k] = outputs[k] /\ outputs[k].open
      BY <1>3, <2>3, <3>1
    <3> QED
      BY <1>2, <3>1, <3>2, OpenIsLive
  <2>4. h \notin IF cfg.status_file THEN {0} ELSE {}
    BY <1>0
  <2> QED
    BY <2>1, <2>2, <2>3, <2>4 DEF OutputsMatchClients, D!Live
<1> QED
  BY <1>4, <1>5, <1>6, <1>7

\* A closed output's handle is no live client's: nothing is notified.
LEMMA FinishHub ==
  ASSUME HubInv, NEW h \in DOMAIN outputs, ~outputs[h].open, cfg' = cfg,
         outputs' = [k \in DOMAIN outputs \ {h} |-> outputs[k]], UNCHANGED hub
  PROVE  HubInv'
<1> USE DEF HubInv, HubTypeOK, hub
<1>1. HubTypeOK' /\ FilterIsCombination'
  BY DEF FilterIsCombination
<1>2. ClientsShaped' /\ WriterApart'
  BY DEF ClientsShaped, WriterApart
<1>3. OutputsMatchClients'
  <2>1. {k \in DOMAIN outputs' : outputs'[k].open} = {k \in DOMAIN outputs : outputs[k].open}
    OBVIOUS
  <2>2. \A k \in DOMAIN outputs' : outputs'[k] = outputs[k]
    OBVIOUS
  <2> QED
    BY <2>1, <2>2 DEF OutputsMatchClients, D!Live
<1> QED
  BY <1>1, <1>2, <1>3

LEMMA ClosedNotLive ==
  ASSUME HubInv, NEW h \in DOMAIN outputs, ~outputs[h].open
  PROVE  h \notin D!Live
BY DEF HubInv, OutputsMatchClients, WriterApart

\* Erasing the deleted clients leaves the live ones and their filters.
LEMMA PurgeHub ==
  ASSUME HubInv, clients' \in {clients, D!Purged}, UNCHANGED <<cfg, next_handle, filter, outputs>>
  PROVE  HubInv'
<1> USE DEF HubInv, HubTypeOK
<1>1. /\ DOMAIN clients' \subseteq DOMAIN clients
      /\ \A h \in DOMAIN clients' : clients'[h] = clients[h]
      /\ D!LiveIn(clients') = D!Live /\ clients' = [h \in DOMAIN clients' |-> clients'[h]]
  BY DEF D!Purged, D!Live, D!LiveIn
<1>2. clients' \in [DOMAIN clients' -> D!Client]
  BY <1>1
<1>3. HubTypeOK'
  BY <1>1, <1>2
<1>4. \A h \in D!Live : h \in DOMAIN clients' /\ clients'[h] = clients[h]
  BY <1>1 DEF D!LiveIn
<1>5. D!upstream_filter(clients') = D!upstream_filter(clients)
  <2>1. {clients'[h].filter : h \in D!LiveIn(clients')} = {clients[h].filter : h \in D!LiveIn(clients)}
    BY <1>1, <1>4 DEF D!Live
  <2> QED
    BY <2>1 DEF D!upstream_filter
<1>6. FilterIsCombination' /\ ClientsShaped' /\ WriterApart'
  BY <1>1, <1>5 DEF FilterIsCombination, ClientsShaped, WriterApart
<1>7. OutputsMatchClients'
  BY <1>1, <1>4 DEF OutputsMatchClients, D!Live
<1> QED
  BY <1>3, <1>6, <1>7

\* The process starts again.
LEMMA RestartHub ==
  ASSUME cfg \in Config, cfg' = cfg, clients' = StartClients,
         next_handle' = (IF cfg.status_file THEN 1 ELSE 0),
         filter' = D!upstream_filter(StartClients), outputs' = NoOutputs
  PROVE  HubInv'
<1>1. /\ next_handle' \in 0..MaxHandle /\ DOMAIN clients' \subseteq 0..next_handle'-1
      /\ clients' \in [DOMAIN clients' -> D!Client] /\ filter' \in Filter
      /\ DOMAIN outputs' = {} /\ outputs' \in [DOMAIN outputs' -> [settings : Settings, open : BOOLEAN]]
      /\ \A h \in DOMAIN clients' : Shaped(clients'[h].filter)
      /\ cfg.status_file => next_handle' > 0
      /\ D!LiveIn(clients') = IF cfg.status_file THEN {0} ELSE {}
  BY StartHub
<1>2. HubTypeOK' /\ ClientsShaped' /\ WriterApart'
  BY <1>1 DEF HubTypeOK, ClientsShaped, WriterApart
<1>3. FilterIsCombination'
  BY DEF FilterIsCombination
<1>4. OutputsMatchClients'
  BY <1>1 DEF OutputsMatchClients, D!Live
<1> QED
  BY <1>2, <1>3, <1>4 DEF HubInv

-----------------------------------------------------------------------------
(* The input and the receiver *)

InputTypeOK ==
  /\ link \in {"down", "connecting", "up"}
  /\ receiver_type \in {"UNKNOWN", "BEAST", "RADARCAPE"}
  /\ current_settings \in Settings
  /\ receiving_gps_timestamps \in BOOLEAN
  /\ autodetect \in [armed : BOOLEAN, fired : BOOLEAN]
  /\ to_dev \in Seq(SUBSET Command)
  /\ dev \in Settings

\* How much detection can still add to what is on the wire: a message for the
\* Radarcape, if it has not been found; and, while the autodetect timer runs or
\* its handler is queued, one to take that back and one for the Radarcape
\* again.
Wire ==
  LET detecting == autodetect.armed \/ autodetect.fired
      found     == receiver_type = "RADARCAPE"
  IN  /\ Len(to_dev) <= MaxWire + 4
      /\ ~found => Len(to_dev) <= MaxWire + 3
      /\ detecting => Len(to_dev) <= MaxWire + 2
      /\ detecting /\ ~found => Len(to_dev) <= MaxWire + 1
      /\ autodetect.armed => ~found
      /\ link = "down" => to_dev = <<>> /\ ~autodetect.armed
      /\ link = "connecting" => Len(to_dev) <= MaxWire /\ ~detecting

\* The last message on the wire is that of current_settings; when there is none
\* the receiver has obeyed it.
LastAsked ==
  link = "up" => IF to_dev = <<>> THEN Obeys(dev, current_settings)
                 ELSE to_dev[Len(to_dev)] = ToMessage(current_settings)

\* What does not change about the receiver, and what is known of it.
Receiver ==
  /\ dev.radarcape = cfg.receiver.radarcape
  /\ receiver_type = "RADARCAPE" => dev.radarcape # "off" \/ cfg.fixed.radarcape = "on"
  /\ dev.radarcape = "on" => dev.filter_0_4_5 = cfg.receiver.filter_0_4_5

InputInv == InputTypeOK /\ Wire /\ SettingsCurrent /\ LastAsked /\ Receiver

Inv == cfg \in Configs /\ HubInv /\ InputInv

LEMMA ConfigType ==
  ASSUME Inv
  PROVE  cfg \in Config /\ cfg.receiver \in Settings /\ cfg.fixed \in Settings
BY SplitterAssumption DEF Inv, Config

\* send_settings_message.
LEMMA Sent ==
  ASSUME cfg \in Config, NEW f, NEW rt, NEW current \in Settings,
         NEW w \in Seq(SUBSET Command), NEW l, SendSettings(f, rt, current, w, l)
  PROVE  /\ current_settings' \in Settings /\ to_dev' \in Seq(SUBSET Command)
         /\ l # "down" => current_settings' = WantedSettings(f, rt)
         /\ \/ current_settings' = current /\ to_dev' = w
            \/ /\ l # "down" /\ current # WantedSettings(f, rt)
               /\ Len(to_dev') = Len(w) + 1 /\ to_dev' # <<>>
               /\ to_dev'[Len(to_dev')] = ToMessage(current_settings')
<1> DEFINE s == WantedSettings(f, rt)
<1>1. s \in Settings
  BY WantedValues
<1>2. /\ current_settings' = IF s # current /\ l # "down" THEN s ELSE current
      /\ to_dev' = IF s # current /\ l # "down" THEN Append(w, ToMessage(s)) ELSE w
  BY DEF SendSettings
<1> HIDE DEF s
<1>3. CASE s # current /\ l # "down"
  <2>1. current_settings' = s /\ to_dev' = Append(w, ToMessage(s))
    BY <1>2, <1>3
  <2>2. ToMessage(s) \in SUBSET Command
    BY MessageType
  <2>3. /\ to_dev' \in Seq(SUBSET Command) /\ Len(to_dev') = Len(w) + 1
        /\ to_dev'[Len(w) + 1] = ToMessage(s) /\ to_dev' # <<>>
    BY <2>1, <2>2, AppendProperties
  <2> QED
    BY <1>1, <1>3, <2>1, <2>3 DEF s
<1>4. CASE ~(s # current /\ l # "down")
  <2>1. current_settings' = current /\ to_dev' = w
    BY <1>2, <1>4
  <2> QED
    BY <1>4, <2>1 DEF s
<1> QED
  BY <1>3, <1>4

\* A change of clients, as far as the input goes.
LEMMA SetFilterInv ==
  ASSUME Inv, HubInv', Room, SetFilter, InputOtherwiseUnchanged
  PROVE  Inv'
<1>1. UNCHANGED <<cfg, link, receiver_type, receiving_gps_timestamps, autodetect, dev>>
  BY DEF InputOtherwiseUnchanged
<1>2. /\ current_settings \in Settings /\ to_dev \in Seq(SUBSET Command) /\ Len(to_dev) \in Nat
      /\ Len(to_dev) < MaxWire /\ MaxWire \in Nat
  BY SplitterAssumption DEF Inv, InputInv, InputTypeOK, Room
<1>3. CASE filter' = filter
  <2>1. UNCHANGED <<current_settings, to_dev>>
    BY <1>3 DEF SetFilter
  <2> QED
    BY <1>1, <1>3, <2>1 DEF Inv, InputInv, InputTypeOK, Wire, SettingsCurrent, WantedSettings,
                           LastAsked, Receiver
<1>4. CASE filter' # filter
  <2>1. SendSettings(filter', receiver_type, current_settings, to_dev, link)
    BY <1>4 DEF SetFilter
  <2>2. /\ current_settings' \in Settings /\ to_dev' \in Seq(SUBSET Command)
        /\ link # "down" => current_settings' = WantedSettings(filter', receiver_type)
        /\ \/ current_settings' = current_settings /\ to_dev' = to_dev
           \/ /\ link # "down" /\ Len(to_dev') = Len(to_dev) + 1 /\ to_dev' # <<>>
              /\ to_dev'[Len(to_dev')] = ToMessage(current_settings')
    BY <1>2, <2>1, ConfigType, Sent
  <2>3. InputTypeOK' /\ Receiver'
    BY <1>1, <2>2 DEF Inv, InputInv, InputTypeOK, Receiver
  <2>4. SettingsCurrent'
    BY <1>1, <2>2 DEF SettingsCurrent, WantedSettings
  <2>5. LastAsked'
    BY <1>1, <2>2 DEF Inv, InputInv, LastAsked
  <2>6. Wire'
    <3>1. Len(to_dev') <= MaxWire
      BY <1>2, <2>2
    <3>2. link = "down" => to_dev' = <<>>
      BY <2>2 DEF Inv, InputInv, Wire
    <3>3. Len(to_dev') \in Nat
      BY <2>2
    <3>4. \A k \in 1..4 : Len(to_dev') <= MaxWire + k
      BY <1>2, <3>1, <3>3
    <3> QED
      BY <1>1, <3>1, <3>2, <3>4 DEF Inv, InputInv, Wire
  <2> QED
    BY <1>1, <2>3, <2>4, <2>5, <2>6 DEF Inv, InputInv
<1> QED
  BY <1>3, <1>4

LEMMA HubKept ==
  ASSUME HubInv, UNCHANGED <<cfg, hub, outputs>>
  PROVE  HubInv'
BY PurgeHub DEF hub

\* The input's state, in parts.
LEMMA InputFields ==
  ASSUME Inv
  PROVE  /\ link \in {"down", "connecting", "up"}
         /\ receiver_type \in {"UNKNOWN", "BEAST", "RADARCAPE"}
         /\ current_settings \in Settings /\ dev \in Settings
         /\ autodetect \in [armed : BOOLEAN, fired : BOOLEAN]
         /\ autodetect.armed \in BOOLEAN /\ autodetect.fired \in BOOLEAN
         /\ to_dev \in Seq(SUBSET Command) /\ Len(to_dev) \in Nat
         /\ MaxWire \in Nat /\ MaxWire >= 1
BY SplitterAssumption DEF Inv, InputInv, InputTypeOK

LEMMA TryToConnectInv ==
  ASSUME Inv, TryToConnect
  PROVE  Inv'
<1>1. /\ link = "down" /\ link' = "connecting" /\ ~autodetect.fired
      /\ UNCHANGED <<cfg, hub, outputs, receiver_type, current_settings,
                     receiving_gps_timestamps, autodetect, to_dev, dev>>
  BY DEF TryToConnect
<1>2. to_dev = <<>> /\ ~autodetect.armed /\ Len(to_dev) = 0
  BY <1>1 DEF Inv, InputInv, Wire
<1>3. HubInv'
  BY <1>1, HubKept DEF Inv
<1>4. InputTypeOK' /\ SettingsCurrent' /\ LastAsked' /\ Receiver'
  BY <1>1 DEF Inv, InputInv, InputTypeOK, SettingsCurrent, LastAsked, Receiver
<1>5. Wire'
  BY <1>1, <1>2, SplitterAssumption DEF Inv, InputInv, Wire
<1> QED
  BY <1>1, <1>3, <1>4, <1>5 DEF Inv, InputInv

LEMMA ConnectionEstablishedInv ==
  ASSUME Inv, ConnectionEstablished
  PROVE  Inv'
<1> DEFINE w  == IF cfg.kind = "net" THEN to_dev ELSE <<>>
           rt == CASE cfg.fixed.radarcape = "on"  -> "RADARCAPE"
                   [] cfg.fixed.radarcape = "off" -> "BEAST"
                   [] OTHER -> "UNKNOWN"
<1>1. /\ \/ cfg.kind = "net" /\ link = "connecting"
         \/ cfg.kind = "serial"
      /\ link' = "up" /\ receiving_gps_timestamps' = FALSE /\ receiver_type' = rt
      /\ autodetect' = [autodetect EXCEPT !.armed = cfg.fixed.radarcape = "dontcare"]
      /\ dev' \in {dev, cfg.receiver}
      /\ SendSettings(filter, receiver_type', AllDontCare, w, "up")
      /\ UNCHANGED <<cfg, hub, outputs>>
  BY DEF ConnectionEstablished, ResetSettings
<1>2. /\ rt \in {"UNKNOWN", "BEAST", "RADARCAPE"}
      /\ rt = "RADARCAPE" => cfg.fixed.radarcape = "on"
      /\ cfg.fixed.radarcape = "dontcare" => rt # "RADARCAPE"
  OBVIOUS
<1>3. /\ w \in Seq(SUBSET Command) /\ Len(w) \in Nat /\ Len(w) <= MaxWire
      /\ autodetect.fired = TRUE => Len(w) = 0
  <2>1. CASE cfg.kind = "net"
    <3>1. link = "connecting"
      BY <1>1, <2>1
    <3>2. Len(to_dev) <= MaxWire /\ ~autodetect.fired
      BY <3>1 DEF Inv, InputInv, Wire
    <3> QED
      BY <2>1, <3>2, InputFields
  <2>2. CASE cfg.kind # "net"
    BY <2>2, InputFields
  <2> QED
    BY <2>1, <2>2
<1>4. AllDontCare \in Settings
  BY DEF AllDontCare, Settings, Tristate
<1> HIDE DEF w, rt
<1>5. /\ current_settings' \in Settings /\ to_dev' \in Seq(SUBSET Command)
      /\ current_settings' = WantedSettings(filter, rt)
      /\ \/ current_settings' = AllDontCare /\ to_dev' = w
         \/ /\ Len(to_dev') = Len(w) + 1 /\ to_dev' # <<>>
            /\ to_dev'[Len(to_dev')] = ToMessage(current_settings')
  BY <1>1, <1>3, <1>4, ConfigType, Sent
<1>6. /\ Len(to_dev') = Len(w) + 1 /\ to_dev' # <<>>
      /\ to_dev'[Len(to_dev')] = ToMessage(current_settings')
  <2>1. current_settings' # AllDontCare
    BY <1>5, ConfigType, SomethingWanted
  <2> QED
    BY <1>5, <2>1
<1>7. /\ autodetect' \in [armed : BOOLEAN, fired : BOOLEAN]
      /\ autodetect'.armed = (cfg.fixed.radarcape = "dontcare")
      /\ autodetect'.fired = autodetect.fired
  BY <1>1, InputFields
<1>8. InputTypeOK'
  <2>1. dev' \in Settings
    BY <1>1, ConfigType, InputFields
  <2> QED
    BY <1>1, <1>2, <1>5, <1>7, <2>1 DEF InputTypeOK
<1>9. Receiver'
  <2>1. cfg.receiver.radarcape = dev'.radarcape
        /\ (dev'.radarcape = "on" => dev'.filter_0_4_5 = cfg.receiver.filter_0_4_5)
    BY <1>1 DEF Inv, InputInv, Receiver
  <2> QED
    BY <1>1, <1>2, <2>1 DEF Receiver
<1>10. SettingsCurrent'
  <2>1. filter' = filter
    BY <1>1 DEF hub
  <2> QED
    BY <1>1, <1>5, <2>1 DEF SettingsCurrent, WantedSettings
<1>11. LastAsked'
  BY <1>6 DEF LastAsked
<1>12. Wire'
  <2>1. Len(to_dev') <= MaxWire + 1 /\ Len(to_dev') <= MaxWire + 2
        /\ Len(to_dev') <= MaxWire + 3 /\ Len(to_dev') <= MaxWire + 4
    BY <1>3, <1>6, InputFields
  <2>2. autodetect'.armed => receiver_type' # "RADARCAPE"
    BY <1>1, <1>2, <1>7
  <2> QED
    BY <1>1, <2>1, <2>2 DEF Wire
<1>13. HubInv'
  BY <1>1, HubKept DEF Inv
<1> QED
  BY <1>1, <1>8, <1>9, <1>10, <1>11, <1>12, <1>13 DEF Inv, InputInv

LEMMA ConnectionFailedInv ==
  ASSUME Inv, ConnectionFailed
  PROVE  Inv'
<1>1. /\ link' = "down" /\ autodetect' = [autodetect EXCEPT !.armed = FALSE] /\ to_dev' = <<>>
      /\ UNCHANGED <<cfg, hub, outputs, receiver_type, current_settings,
                     receiving_gps_timestamps, dev>>
  BY DEF ConnectionFailed
<1>2. autodetect' \in [armed : BOOLEAN, fired : BOOLEAN] /\ autodetect'.armed = FALSE
  BY <1>1, InputFields
<1>3. InputTypeOK' /\ SettingsCurrent' /\ LastAsked' /\ Receiver'
  BY <1>1, <1>2 DEF Inv, InputInv, InputTypeOK, SettingsCurrent, LastAsked, Receiver
<1>4. Wire'
  <2>1. Len(to_dev') = 0
    BY <1>1
  <2> QED
    BY <1>1, <1>2, <2>1, InputFields DEF Wire
<1> QED
  BY <1>1, <1>3, <1>4, HubKept DEF Inv, InputInv

LEMMA AutodetectExpiresInv ==
  ASSUME Inv, AutodetectExpires
  PROVE  Inv'
<1>1. /\ autodetect.armed /\ autodetect' = [armed |-> FALSE, fired |-> TRUE]
      /\ UNCHANGED <<cfg, hub, outputs, link, receiver_type, current_settings,
                     receiving_gps_timestamps, to_dev, dev>>
  BY DEF AutodetectExpires
<1>2. autodetect'.armed = FALSE /\ autodetect'.fired = TRUE
      /\ autodetect' \in [armed : BOOLEAN, fired : BOOLEAN]
  BY <1>1
<1>3. InputTypeOK' /\ LastAsked' /\ Receiver'
  BY <1>1, <1>2 DEF Inv, InputInv, InputTypeOK, LastAsked, Receiver
<1>4. SettingsCurrent'
  BY <1>1 DEF Inv, InputInv, SettingsCurrent, WantedSettings, hub
<1>5. Wire'
  BY <1>1, <1>2 DEF Inv, InputInv, Wire
<1> QED
  BY <1>1, <1>3, <1>4, <1>5, HubKept DEF Inv, InputInv

LEMMA AutodetectHandlerInv ==
  ASSUME Inv, AutodetectHandler
  PROVE  Inv'
<1>1. /\ autodetect.fired /\ autodetect' = [autodetect EXCEPT !.fired = FALSE]
      /\ receiver_type' = "BEAST"
      /\ SendSettings(filter, "BEAST", current_settings, to_dev, link)
      /\ UNCHANGED <<cfg, hub, outputs, link, receiving_gps_timestamps, dev>>
  BY DEF AutodetectHandler
<1>2. /\ autodetect' \in [armed : BOOLEAN, fired : BOOLEAN]
      /\ autodetect'.fired = FALSE /\ autodetect'.armed = autodetect.armed
  BY <1>1, InputFields
<1>3. /\ current_settings' \in Settings /\ to_dev' \in Seq(SUBSET Command)
      /\ link # "down" => current_settings' = WantedSettings(filter, "BEAST")
      /\ \/ current_settings' = current_settings /\ to_dev' = to_dev
         \/ /\ link # "down" /\ current_settings # WantedSettings(filter, "BEAST")
            /\ Len(to_dev') = Len(to_dev) + 1 /\ to_dev' # <<>>
            /\ to_dev'[Len(to_dev')] = ToMessage(current_settings')
  BY <1>1, ConfigType, InputFields, Sent
<1>4. link # "connecting"
  BY <1>1 DEF Inv, InputInv, Wire
<1>5. CASE receiver_type # "RADARCAPE"
  <2>1. link = "up" => current_settings = WantedSettings(filter, "BEAST")
    <3>1. receiver_type \in {"UNKNOWN", "BEAST"}
      BY <1>5, InputFields
    <3> QED
      BY <3>1, UnknownIsBeast DEF Inv, InputInv, SettingsCurrent
  <2>2. to_dev' = to_dev /\ current_settings' = current_settings
    BY <1>3, <1>4, <2>1, InputFields
  <2>3. Wire'
    BY <1>1, <1>2, <1>5, <2>2 DEF Inv, InputInv, Wire
  <2>4. LastAsked'
    BY <1>1, <2>2 DEF Inv, InputInv, LastAsked
  <2> QED
    BY <2>3, <2>4, <1>1, <1>2, <1>3, HubKept
    DEF Inv, InputInv, InputTypeOK, SettingsCurrent, WantedSettings, Receiver, hub
<1>6. CASE receiver_type = "RADARCAPE"
  <2>1. autodetect'.armed = FALSE
    BY <1>2, <1>6, InputFields DEF Inv, InputInv, Wire
  <2>2. Len(to_dev) <= MaxWire + 2
    BY <1>1 DEF Inv, InputInv, Wire
  <2>3. Len(to_dev') <= MaxWire + 3 /\ Len(to_dev') <= MaxWire + 4
    BY <1>3, <2>2, InputFields
  <2>4. link = "down" => to_dev' = <<>>
    BY <1>3 DEF Inv, InputInv, Wire
  <2>5. Wire'
    BY <1>1, <1>2, <1>4, <2>1, <2>3, <2>4 DEF Wire
  <2>6. LastAsked'
    BY <1>1, <1>3 DEF Inv, InputInv, LastAsked
  <2> QED
    BY <2>5, <2>6, <1>1, <1>2, <1>3, HubKept
    DEF Inv, InputInv, InputTypeOK, SettingsCurrent, WantedSettings, Receiver, hub
<1> QED
  BY <1>5, <1>6

LEMMA DeviceAppliesInv ==
  ASSUME Inv, DeviceApplies
  PROVE  Inv'
<1>1. /\ link = "up" /\ to_dev # <<>>
      /\ dev' = ProcessOptions(dev, Head(to_dev)) /\ to_dev' = Tail(to_dev)
      /\ UNCHANGED <<cfg, hub, outputs, link, receiver_type, current_settings,
                     receiving_gps_timestamps, autodetect>>
  BY DEF DeviceApplies
<1>2. /\ Head(to_dev) \in SUBSET Command /\ Head(to_dev) = to_dev[1]
      /\ to_dev' \in Seq(SUBSET Command) /\ Len(to_dev') = Len(to_dev) - 1 /\ Len(to_dev) > 0
      /\ \A i \in 1..Len(to_dev) - 1 : to_dev'[i] = to_dev[i + 1]
  BY <1>1, InputFields, HeadTailProperties
<1>3. /\ dev' \in Settings /\ dev'.radarcape = dev.radarcape
      /\ dev.radarcape = "on" => dev'.filter_0_4_5 = dev.filter_0_4_5
  BY <1>1, <1>2, InputFields, OptionsType, TypeKept, SurveillanceKept
<1>4. InputTypeOK' /\ Receiver'
  BY <1>1, <1>2, <1>3 DEF Inv, InputInv, InputTypeOK, Receiver
<1>5. SettingsCurrent'
  BY <1>1 DEF Inv, InputInv, SettingsCurrent, WantedSettings, hub
<1>6. LastAsked'
  <2>1. to_dev[Len(to_dev)] = ToMessage(current_settings)
    BY <1>1 DEF Inv, InputInv, LastAsked
  <2>2. CASE Len(to_dev) = 1
    <3>1. Head(to_dev) = ToMessage(current_settings)
      BY <1>2, <2>1, <2>2
    <3>2. Obeys(dev', current_settings)
      BY <1>1, <3>1, InputFields, ObeysOnce
    <3>3. to_dev' = <<>>
      BY <1>2, <2>2
    <3> QED
      BY <1>1, <3>2, <3>3 DEF LastAsked, Obeys
  <2>3. CASE Len(to_dev) # 1
    <3>1. Len(to_dev') \in 1..Len(to_dev) - 1 /\ Len(to_dev') + 1 = Len(to_dev)
      BY <1>2, <2>3, InputFields
    <3>2. to_dev'[Len(to_dev')] = to_dev[Len(to_dev)]
      BY <1>2, <3>1
    <3>3. to_dev' # <<>>
      BY <3>1
    <3> QED
      BY <1>1, <2>1, <3>2, <3>3 DEF LastAsked
  <2> QED
    BY <2>2, <2>3
<1>7. Wire'
  <2>1. \A k \in 0..4 : Len(to_dev) <= MaxWire + k => Len(to_dev') <= MaxWire + k
    BY <1>2, InputFields
  <2> QED
    BY <1>1, <2>1 DEF Inv, InputInv, Wire
<1> QED
  BY <1>1, <1>4, <1>5, <1>6, <1>7, HubKept DEF Inv, InputInv

LEMMA DispatchMessageInv ==
  ASSUME Inv, NEW m \in Messages, DispatchMessage(m)
  PROVE  Inv'
<1>1. /\ link = "up" /\ Emits(m) /\ receiving_gps_timestamps' = LabelAfter(m)
      /\ receiver_type' = IF Detects(m) THEN "RADARCAPE" ELSE receiver_type
      /\ UNCHANGED <<cfg, next_handle, filter, outputs, link, dev>>
  BY DEF DispatchMessage
<1>2. receiving_gps_timestamps' \in BOOLEAN
  BY <1>1 DEF LabelAfter, Inv, InputInv, InputTypeOK
<1>3. HubInv'
  <2>1. clients' \in {clients, D!Purged}
    BY DEF DispatchMessage
  <2> QED
    BY <1>1, <2>1, PurgeHub DEF Inv
<1>4. CASE ~Detects(m)
  <2>1. UNCHANGED <<autodetect, current_settings, to_dev, receiver_type>>
    BY <1>1, <1>4 DEF DispatchMessage
  <2> QED
    BY <1>1, <1>2, <1>3, <2>1
    DEF Inv, InputInv, InputTypeOK, Wire, SettingsCurrent, WantedSettings, LastAsked, Receiver
<1>5. CASE Detects(m)
  <2>1. /\ receiver_type' = "RADARCAPE" /\ autodetect' = [autodetect EXCEPT !.armed = FALSE]
        /\ SendSettings(filter, "RADARCAPE", current_settings, to_dev, link)
        /\ m.type = "STATUS" /\ receiver_type # "RADARCAPE"
    BY <1>1, <1>5 DEF DispatchMessage, Detects
  <2>2. dev.radarcape # "off"
    BY <1>1, <2>1 DEF Emits
  <2>3. /\ autodetect' \in [armed : BOOLEAN, fired : BOOLEAN]
        /\ autodetect'.armed = FALSE /\ autodetect'.fired = autodetect.fired
    BY <2>1, InputFields
  <2>4. /\ current_settings' \in Settings /\ to_dev' \in Seq(SUBSET Command)
        /\ current_settings' = WantedSettings(filter, "RADARCAPE")
        /\ \/ current_settings' = current_settings /\ to_dev' = to_dev
           \/ /\ Len(to_dev') = Len(to_dev) + 1 /\ to_dev' # <<>>
              /\ to_dev'[Len(to_dev')] = ToMessage(current_settings')
    BY <1>1, <2>1, ConfigType, InputFields, Sent
  <2>5. InputTypeOK' /\ Receiver'
    BY <1>1, <1>2, <2>1, <2>2, <2>3, <2>4 DEF Inv, InputInv, InputTypeOK, Receiver
  <2>6. SettingsCurrent'
    BY <1>1, <2>1, <2>4 DEF SettingsCurrent, WantedSettings
  <2>7. LastAsked'
    BY <1>1, <2>4 DEF Inv, InputInv, LastAsked
  <2>8. Wire'
    <3>1. /\ Len(to_dev) <= MaxWire + 3
          /\ autodetect.fired => Len(to_dev) <= MaxWire + 1
      BY <2>1 DEF Inv, InputInv, Wire
    <3>2. Len(to_dev') <= MaxWire + 4
      BY <2>4, <3>1, InputFields
    <3>3. autodetect.fired => Len(to_dev') <= MaxWire + 2
      BY <2>4, <3>1, InputFields
    <3> QED
      BY <1>1, <2>1, <2>3, <3>2, <3>3 DEF Wire
  <2> QED
    BY <1>1, <1>3, <2>5, <2>6, <2>7, <2>8 DEF Inv, InputInv
<1> QED
  BY <1>4, <1>5

LEMMA DontCareType == AllDontCare \in Settings
BY DEF AllDontCare, Settings, Tristate

LEMMA RestartInv ==
  ASSUME Inv, Restart
  PROVE  Inv'
<1> USE DEF Restart
<1>1. HubInv'
  BY ConfigType, RestartHub
<1>2. /\ autodetect'.armed = FALSE /\ autodetect'.fired = FALSE
      /\ autodetect' \in [armed : BOOLEAN, fired : BOOLEAN]
  OBVIOUS
<1>3. InputTypeOK'
  BY <1>2, DontCareType, ConfigType, EmptySeq DEF Inv, InputInv, InputTypeOK
<1>4. SettingsCurrent' /\ LastAsked' /\ Receiver'
  BY DEF Inv, InputInv, SettingsCurrent, LastAsked, Receiver
<1>5. Wire'
  <2>1. Len(to_dev') = 0
    OBVIOUS
  <2> QED
    BY <1>2, <2>1, InputFields DEF Wire
<1> QED
  BY <1>1, <1>3, <1>4, <1>5 DEF Inv, InputInv

LEMMA InitInv == Init => Inv
<1> SUFFICES ASSUME Init PROVE Inv
  OBVIOUS
<1> USE DEF Init
<1>0. cfg \in Config /\ cfg.receiver \in Settings
  BY SplitterAssumption DEF Config
<1>1. HubInv
  <2>1. /\ next_handle \in 0..MaxHandle /\ DOMAIN clients \subseteq 0..next_handle-1
        /\ clients \in [DOMAIN clients -> D!Client] /\ filter \in Filter
        /\ DOMAIN outputs = {} /\ outputs \in [DOMAIN outputs -> [settings : Settings, open : BOOLEAN]]
        /\ \A h \in DOMAIN clients : Shaped(clients[h].filter)
        /\ cfg.status_file => next_handle > 0
        /\ D!LiveIn(clients) = IF cfg.status_file THEN {0} ELSE {}
    BY <1>0, StartHub
  <2>2. HubTypeOK /\ ClientsShaped /\ WriterApart
    BY <2>1 DEF HubTypeOK, ClientsShaped, WriterApart
  <2>3. FilterIsCombination
    BY DEF FilterIsCombination
  <2>4. OutputsMatchClients
    BY <2>1 DEF OutputsMatchClients, D!Live
  <2> QED
    BY <2>2, <2>3, <2>4 DEF HubInv
<1>2. /\ autodetect.armed = FALSE /\ autodetect.fired = FALSE
      /\ autodetect \in [armed : BOOLEAN, fired : BOOLEAN]
  OBVIOUS
<1>3. InputTypeOK
  BY <1>0, <1>2, DontCareType, EmptySeq DEF InputTypeOK
<1>4. SettingsCurrent /\ LastAsked /\ Receiver
  BY DEF SettingsCurrent, LastAsked, Receiver
<1>5. Wire
  <2>1. Len(to_dev) = 0
    OBVIOUS
  <2> QED
    BY <1>2, <2>1, SplitterAssumption DEF Wire
<1> QED
  BY <1>1, <1>3, <1>4, <1>5 DEF Inv, InputInv

\* The outputs' actions: what they do to the hub, then set_filter.
LEMMA OutputInv ==
  ASSUME Inv, NEW h \in DOMAIN outputs, NEW cmds \in CommandSets,
         ProcessCommands(h, cmds) \/ FinishOutput(h, cmds) \/ CloseOutput(h)
  PROVE  Inv'
<1>1. outputs[h].settings \in Settings
  BY DEF Inv, HubInv, HubTypeOK
<1>2. ProcessOptions(outputs[h].settings, cmds) \in Settings
  BY <1>1, OptionsType
<1>3. CASE ProcessCommands(h, cmds)
  <2>1. HubInv'
    BY <1>2, <1>3, ProcessHub DEF Inv, ProcessCommands, InputOtherwiseUnchanged
  <2> QED
    BY <1>3, <2>1, SetFilterInv DEF ProcessCommands
<1>4. CASE FinishOutput(h, cmds)
  <2>1. h \notin D!Live
    BY <1>4, ClosedNotLive DEF Inv, FinishOutput
  <2>2. UNCHANGED hub
    BY <1>4, <2>1 DEF FinishOutput
  <2>3. HubInv'
    BY <1>4, <2>2, FinishHub DEF Inv, FinishOutput, InputOtherwiseUnchanged
  <2> QED
    BY <1>4, <2>3, SetFilterInv DEF FinishOutput
<1>5. CASE CloseOutput(h)
  <2>1. HubInv'
    BY <1>5, CloseHub DEF Inv, CloseOutput, InputOtherwiseUnchanged
  <2> QED
    BY <1>5, <2>1, SetFilterInv DEF CloseOutput
<1> QED
  BY <1>3, <1>4, <1>5

LEMMA NextInv == Inv /\ [Next]_vars => Inv'
<1> SUFFICES ASSUME Inv, [Next]_vars PROVE Inv'
  OBVIOUS
<1>1. CASE TryToConnect
  BY <1>1, TryToConnectInv
<1>2. CASE ConnectionEstablished
  BY <1>2, ConnectionEstablishedInv
<1>3. CASE ConnectionFailed
  BY <1>3, ConnectionFailedInv
<1>4. CASE AutodetectExpires
  BY <1>4, AutodetectExpiresInv
<1>5. CASE AutodetectHandler
  BY <1>5, AutodetectHandlerInv
<1>6. CASE DeviceApplies
  BY <1>6, DeviceAppliesInv
<1>7. ASSUME NEW m \in Messages, DispatchMessage(m) \/ DispatchAborts(m) PROVE Inv'
  BY <1>7, DispatchMessageInv, RestartInv DEF DispatchAborts
<1>8. ASSUME NEW s \in ClientSettings, AcceptConnection(s) PROVE Inv'
  <2>1. s \in Settings
    BY SplitterAssumption
  <2>2. HubInv'
    BY <1>8, <2>1, AcceptHub DEF Inv, AcceptConnection, InputOtherwiseUnchanged
  <2> QED
    BY <1>8, <2>2, SetFilterInv DEF AcceptConnection
<1>9. CASE AcceptThrows
  BY <1>9, RestartInv DEF AcceptThrows
<1>10. ASSUME NEW h \in DOMAIN outputs,
              \/ \E cmds \in CommandSets : ProcessCommands(h, cmds) \/ FinishOutput(h, cmds)
              \/ CloseOutput(h)
       PROVE  Inv'
  <2>1. CASE CloseOutput(h)
    <3>1. HubInv'
      BY <2>1, CloseHub DEF Inv, CloseOutput, InputOtherwiseUnchanged
    <3> QED
      BY <2>1, <3>1, SetFilterInv DEF CloseOutput
  <2> QED
    BY <1>10, <2>1, OutputInv
<1>11. CASE UNCHANGED vars
  <2> USE <1>11 DEF vars, input
  <2>1. HubInv'
    BY HubKept DEF Inv
  <2>2. InputTypeOK' /\ LastAsked' /\ Receiver' /\ Wire'
    BY DEF Inv, InputInv, InputTypeOK, LastAsked, Receiver, Wire
  <2>3. SettingsCurrent'
    BY DEF Inv, InputInv, SettingsCurrent, WantedSettings, hub
  <2> QED
    BY <2>1, <2>2, <2>3 DEF Inv, InputInv
<1> QED
  BY <1>1, <1>2, <1>3, <1>4, <1>5, <1>6, <1>7, <1>8, <1>9, <1>10, <1>11 DEF Next

-----------------------------------------------------------------------------

\* The invariant: the hub's clients are those of the outputs, and what was last
\* asked of the receiver is what they need.
THEOREM Invariance == Spec => []Inv
BY InitInv, NextInv, PTL DEF Spec

\* The composed state keeps its types, and detection adds at most four settings
\* messages to what is on the wire.
THEOREM TypeCorrect == Spec => []TypeOK
<1>1. Inv => TypeOK
  BY DEF Inv, HubInv, HubTypeOK, InputInv, InputTypeOK, Wire, TypeOK
<1> QED
  BY <1>1, Invariance, PTL

\* The distributor's live clients are the open outputs and the StatusWriter,
\* each with the filter of its present settings (OutputsMatchClients).
THEOREM OutputsMatchClientsHolds == Spec => []OutputsMatchClients
<1>1. Inv => OutputsMatchClients
  BY DEF Inv, HubInv
<1> QED
  BY <1>1, Invariance, PTL

\* While connected, current_settings is what the clients, --force and the
\* receiver type call for (SettingsCurrent): no path forgets to send.
THEOREM SettingsCurrentHolds == Spec => []SettingsCurrent
<1>1. Inv => SettingsCurrent
  BY DEF Inv, InputInv
<1> QED
  BY <1>1, Invariance, PTL

\* Filter::operator() accepts no less for more receive_*.
LEMMA AcceptsMonotone ==
  ASSUME NEW f, NEW g, NEW m,
         f.receive_df \subseteq g.receive_df, f.receive \subseteq g.receive, Accepts(f, m)
  PROVE  Accepts(g, m)
BY DEF Accepts

LEMMA RequestableMonotone ==
  ASSUME NEW f \in Filter, NEW g \in Filter,
         f.receive_df \subseteq g.receive_df, f.receive \subseteq g.receive
  PROVE  /\ Requestable(f).receive_df \subseteq Requestable(g).receive_df
         /\ Requestable(f).receive \subseteq Requestable(g).receive
BY DEF Requestable, Filter

\* A receiver that has read all it was sent passes what the clients accept.
LEMMA Covered ==
  ASSUME Inv, AsksForNoLess(cfg), link = "up", to_dev = <<>>
  PROVE  /\ IsSet(dev, "binary_format")
         /\ \A h \in D!Live : \A m \in Message :
              /\ m.type \in {"MODE_AC", "MODE_S"}
              /\ Accepts(Requestable(clients[h].filter), m)
              => Accepts(ToFilter(dev), m)
<1> DEFINE w == WantedSettings(filter, receiver_type)
<1>1. cfg \in Config /\ dev \in Settings /\ filter \in Filter
  BY ConfigType DEF Inv, InputInv, InputTypeOK, HubInv, HubTypeOK
<1>2. Obeys(dev, w)
  BY DEF Inv, InputInv, LastAsked, SettingsCurrent
<1>3. w["binary_format"] = "on"
  BY <1>1, WantedValues
<1>4. Shaped(filter)
  BY UpstreamShaped DEF Inv, HubInv, FilterIsCombination, ClientsShaped
<1>5. /\ dev.radarcape = cfg.receiver.radarcape
      /\ receiver_type = "RADARCAPE" => dev.radarcape # "off" \/ cfg.fixed.radarcape = "on"
      /\ dev.radarcape = "on" => dev.filter_0_4_5 = cfg.receiver.filter_0_4_5
  BY DEF Inv, InputInv, Receiver
<1>6. IsSet(dev, "binary_format")
  <2> HIDE DEF w
  <2>1. dev["binary_format"] = Tri(w["binary_format"] = "on")
    BY <1>2, <1>3, ObeyedPlain, PlainSettings
  <2> QED
    BY <1>3, <2>1 DEF IsSet, Tri
<1>7. ASSUME NEW h \in D!Live, NEW m \in Message, m.type \in {"MODE_AC", "MODE_S"},
             Accepts(Requestable(clients[h].filter), m)
      PROVE  Accepts(ToFilter(dev), m)
  <2> DEFINE f == clients[h].filter
  <2>1. h \in D!LiveIn(clients) /\ h \in DOMAIN clients
    BY DEF D!Live, D!LiveIn
  <2>2. f \in Filter
    BY <2>1, ClientType DEF Inv, HubInv, HubTypeOK
  <2>3. /\ f.receive_df \subseteq filter.receive_df
        /\ f.receive \subseteq filter.receive
    BY <2>1, UpstreamHas DEF Inv, HubInv, FilterIsCombination
  <2>4. Accepts(Requestable(f), m)
    BY <1>7
  <2> HIDE DEF f, w
  <2>5. Accepts(Requestable(filter), m)
    <3>1. /\ Requestable(f).receive_df \subseteq Requestable(filter).receive_df
          /\ Requestable(f).receive \subseteq Requestable(filter).receive
      BY <1>1, <2>2, <2>3, RequestableMonotone
    <3> QED
      BY <2>4, <3>1, AcceptsMonotone
  <2> QED
    BY <1>1, <1>2, <1>4, <1>5, <1>7, <2>5, ObeyedCovers DEF w
<1> QED
  BY <1>6, <1>7

\* For every receiver that says what it is and every command line whose --force
\* keeps nothing from the clients: once the receiver has read what it was sent
\* it passes what any client accepts (ClientsCovered).
THEOREM ClientsCoveredHolds == Spec => [](AsksForNoLess(cfg) => ClientsCovered)
<1>1. Inv => (AsksForNoLess(cfg) => ClientsCovered)
  BY Covered DEF ClientsCovered
<1> QED
  BY <1>1, Invariance, PTL
=============================================================================
