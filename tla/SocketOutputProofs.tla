------------------------- MODULE SocketOutputProofs -------------------------
(***************************************************************************)
(* For every number of messages, all settings and whatever bytes a client  *)
(* sends: SocketOutput has at most one flush under way, hands its peer the *)
(* messages in the order they were written, and obeys a request however it *)
(* is cut into reads.                                                      *)
(*                                                                         *)
(* What is on its way to the peer is received, then what is left of the    *)
(* one write under way, then outbuf: together the messages written so far, *)
(* as long as the socket is open.  For the commands, the state of the      *)
(* parser is what a count of bytes modulo 3 says, and the settings are     *)
(* those asked for so far.                                                 *)
(***************************************************************************)
EXTENDS SocketOutput, SequenceTheorems, WellFoundedInduction, TLAPS

-----------------------------------------------------------------------------
(* Induction over the natural numbers, for a set instead of a predicate *)

LEMMA LeastNumber ==
  ASSUME NEW T, T \subseteq Nat, T # {}
  PROVE  \E x \in T : \A y \in T : x <= y
<1>1. PICK x \in T : \A y \in T : <<y, x>> \notin OpToRel(<, Nat)
  BY NatLessThanWellFounded, WFMin
<1>2. \A y \in T : ~(y < x)
  BY <1>1 DEF OpToRel
<1> QED
  BY <1>2

LEMMA Induction ==
  ASSUME NEW S, 0 \in S, \A n \in Nat : n \in S => n + 1 \in S
  PROVE  Nat \subseteq S
<1> SUFFICES ASSUME Nat \ S # {} PROVE FALSE
  OBVIOUS
<1>1. PICK x \in Nat \ S : \A y \in Nat \ S : x <= y
  BY LeastNumber
<1>2. x # 0 /\ x - 1 \in Nat /\ x - 1 \in S
  BY <1>1
<1> QED
  BY <1>1, <1>2

-----------------------------------------------------------------------------
(* The loop of process_commands *)

\* Parsing is the function its recursive definition says.
LEMMA ParsingDef ==
  ASSUME NEW start, NEW data, Len(data) \in Nat
  PROVE  LET p == Parsing(start, data)
         IN  p = [k \in 0..Len(data) |->
                    IF k = 0 THEN start ELSE CommandStep(p[k - 1], data[k])]
<1> DEFINE Rec(f, m) ==
      f = [k \in 0..m |-> IF k = 0 THEN start ELSE CommandStep(f[k - 1], data[k])]
<1> DEFINE S == {m \in Nat : \E f : Rec(f, m)}
<1>1. 0 \in S
  <2>1. Rec([k \in 0..0 |-> start], 0)
    OBVIOUS
  <2> QED
    BY <2>1
<1>2. ASSUME NEW m \in Nat, m \in S PROVE m + 1 \in S
  <2>1. PICK f : Rec(f, m)
    BY <1>2
  <2> DEFINE g == [k \in 0..m+1 |-> IF k <= m THEN f[k] ELSE CommandStep(f[m], data[m + 1])]
  <2>2. ASSUME NEW k \in 0..m+1
        PROVE  g[k] = IF k = 0 THEN start ELSE CommandStep(g[k - 1], data[k])
    <3>1. CASE k = m + 1
      <4>1. k # 0 /\ k - 1 = m /\ g[k] = CommandStep(f[m], data[k]) /\ g[m] = f[m]
        BY <3>1
      <4> QED
        BY <4>1
    <3>2. CASE k # m + 1
      <4>1. k \in 0..m /\ g[k] = f[k]
        BY <3>2
      <4>2. k # 0 => g[k - 1] = f[k - 1]
        BY <4>1
      <4> QED
        BY <2>1, <4>1, <4>2
    <3> QED
      BY <3>1, <3>2
  <2>3. Rec(g, m + 1)
    <3>1. g = [k \in 0..m+1 |-> g[k]]
      OBVIOUS
    <3> HIDE DEF g
    <3> QED
      BY <2>2, <3>1
  <2>4. \E h : Rec(h, m + 1)
    <3> HIDE DEF g, Rec
    <3> QED
      BY <2>3
  <2> QED
    BY <2>4
<1>3. Len(data) \in S
  <2> HIDE DEF S
  <2> QED
    BY <1>1, <1>2, Induction
<1>4. \E f : Rec(f, Len(data))
  BY <1>3
<1> QED
  BY <1>4 DEF Parsing

\* The parser's state as process_commands carries it along.
Parse == [state : {"FIND_1A", "READ_1", "READ_OPTION"}, settings : Settings, got : BOOLEAN]

LEMMA ParseFields ==
  ASSUME NEW a \in Parse
  PROVE  a.state \in {"FIND_1A", "READ_1", "READ_OPTION"} /\ a.settings \in Settings
BY DEF Parse

\* process_option_command leaves settings.
LEMMA OptionsType ==
  ASSUME NEW s \in Settings, NEW cmds
  PROVE  ProcessOptions(s, cmds) \in Settings
<1>1. \A b : Tri(b) \in Tristate
  BY DEF Tri, Tristate
<1>2. \A n \in SettingName : s[n] \in Tristate
  BY DEF Settings
<1> QED
  BY <1>1, <1>2 DEF ProcessOptions, Settings

\* The three cases of one byte.
LEMMA StepFind ==
  ASSUME NEW a \in Parse, NEW c, a.state = "FIND_1A"
  PROVE  /\ CommandStep(a, c) \in Parse
         /\ CommandStep(a, c).settings = a.settings /\ CommandStep(a, c).got = a.got
         /\ c = Byte1A => CommandStep(a, c).state = "READ_1"
<1>1. CommandStep(a, c) = IF c = Byte1A THEN [a EXCEPT !.state = "READ_1"] ELSE a
  BY DEF CommandStep
<1>2. [a EXCEPT !.state = "READ_1"] \in Parse
  BY DEF Parse
<1>3. /\ [a EXCEPT !.state = "READ_1"].state = "READ_1"
      /\ [a EXCEPT !.state = "READ_1"].settings = a.settings
      /\ [a EXCEPT !.state = "READ_1"].got = a.got
  BY DEF Parse
<1> QED
  BY <1>1, <1>2, <1>3

LEMMA StepRead ==
  ASSUME NEW a \in Parse, NEW c, a.state = "READ_1"
  PROVE  /\ CommandStep(a, c) \in Parse
         /\ CommandStep(a, c).settings = a.settings /\ CommandStep(a, c).got = a.got
         /\ c = Byte1 => CommandStep(a, c).state = "READ_OPTION"
<1>1. PICK st : st = IF c = Byte1 THEN "READ_OPTION" ELSE "FIND_1A"
  OBVIOUS
<1>2. CommandStep(a, c) = [a EXCEPT !.state = st]
  BY <1>1 DEF CommandStep
<1>3. [a EXCEPT !.state = st] \in Parse
  BY <1>1 DEF Parse
<1>4. /\ [a EXCEPT !.state = st].state = st
      /\ [a EXCEPT !.state = st].settings = a.settings
      /\ [a EXCEPT !.state = st].got = a.got
  BY DEF Parse
<1>5. c = Byte1 => CommandStep(a, c).state = "READ_OPTION"
  BY <1>1, <1>2, <1>4
<1> QED
  BY <1>2, <1>3, <1>4, <1>5

LEMMA StepOption ==
  ASSUME NEW a \in Parse, NEW c, a.state = "READ_OPTION"
  PROVE  /\ CommandStep(a, c) \in Parse
         /\ CommandStep(a, c).settings = process_option_command(a.settings, c)
         /\ CommandStep(a, c).got = TRUE
         /\ CommandStep(a, c).state = "FIND_1A"
<1>1. CommandStep(a, c) = [state |-> "FIND_1A", got |-> TRUE,
                           settings |-> process_option_command(a.settings, c)]
  BY DEF CommandStep
<1>2. process_option_command(a.settings, c) \in Settings
  BY ParseFields, OptionsType DEF process_option_command
<1>3. CommandStep(a, c) \in Parse
  BY <1>1, <1>2 DEF Parse
<1> QED
  BY <1>1, <1>3

\* Whatever the bytes are, the settings change only with a command, and the
\* distributor is told of one.
LEMMA ChunkParsed ==
  ASSUME NEW start \in Parse, NEW data, Len(data) \in Nat
  PROVE  LET after == Parsing(start, data)[Len(data)]
         IN  after \in Parse /\ (after.got \/ after.settings = start.settings)
<1> DEFINE p == Parsing(start, data)
<1> DEFINE Good(k) == p[k] \in Parse /\ (p[k].got \/ p[k].settings = start.settings)
<1> DEFINE S == {k \in Nat : k <= Len(data) => Good(k)}
<1>1. \A k \in 0..Len(data) : p[k] = IF k = 0 THEN start ELSE CommandStep(p[k - 1], data[k])
  <2> HIDE DEF p
  <2>1. p = [k \in 0..Len(data) |-> IF k = 0 THEN start ELSE CommandStep(p[k - 1], data[k])]
    BY ParsingDef DEF p
  <2> QED
    BY <2>1
<1> HIDE DEF p
<1>2. 0 \in S
  BY <1>1
<1>3. ASSUME NEW k \in Nat, k \in S PROVE k + 1 \in S
  <2> SUFFICES ASSUME k + 1 <= Len(data) PROVE Good(k + 1)
    OBVIOUS
  <2>1. Good(k) /\ p[k + 1] = CommandStep(p[k], data[k + 1])
    BY <1>1, <1>3
  <2>2. CASE p[k].state = "FIND_1A"
    BY <2>1, <2>2, StepFind
  <2>3. CASE p[k].state = "READ_1"
    BY <2>1, <2>3, StepRead
  <2>4. CASE p[k].state = "READ_OPTION"
    BY <2>1, <2>4, StepOption
  <2> QED
    BY <2>1, <2>2, <2>3, <2>4, ParseFields
<1>4. Len(data) \in S
  <2> HIDE DEF S
  <2> QED
    BY <1>2, <1>3, Induction
<1>5. Good(Len(data))
  BY <1>4
<1> QED
  BY <1>5 DEF p

-----------------------------------------------------------------------------
(* Option commands *)

\* What an option letter stands for: each letter for a setting of its own, and
\* none for the receiver type.
LEMMA Target ==
  ASSUME NEW s, NEW l \in Letter
  PROVE  \/ /\ l # "g" /\ OptionTarget(s, l) \in DOMAIN PlainLetter
            /\ PlainLetter[OptionTarget(s, l)] = l
         \/ l = "g" /\ OptionTarget(s, l) \in {"gps_timestamps", "filter_0_4_5"}
<1>1. CASE l = "g"
  BY <1>1 DEF OptionTarget
<1>2. CASE l # "g"
  <2>1. \E n \in DOMAIN PlainLetter : PlainLetter[n] = l
    BY <1>2 DEF Letter
  <2> QED
    BY <1>2, <2>1 DEF OptionTarget
<1> QED
  BY <1>1, <1>2

LEMMA PlainSettings ==
  DOMAIN PlainLetter = {"binary_format", "filter_11_17_18", "avrmlat", "crc_disable",
                        "rts_handshake", "fec_disable", "modeac_enable", "verbatim"}
BY DEF PlainLetter

LEMMA TargetsDiffer ==
  ASSUME NEW s, NEW c \in Letter, NEW d \in Letter, OptionTarget(s, c) = OptionTarget(s, d)
  PROVE  c = d
BY Target, PlainSettings

LEMMA TargetNotType ==
  ASSUME NEW s, NEW c \in Letter
  PROVE  OptionTarget(s, c) # "radarcape"
BY Target, PlainSettings

\* One command more, obeyed after the others or together with them.
LEMMA OneMore ==
  ASSUME NEW s \in Settings, NEW C, NEW c, C \cup {c} \subseteq Command,
         \A d, e \in C \cup {c} : d.letter = e.letter => d = e
  PROVE  ProcessOptions(ProcessOptions(s, C), {c}) = ProcessOptions(s, C \cup {c})
<1> DEFINE t == ProcessOptions(s, C)
<1>1. \A d \in C \cup {c} : d.letter \in Letter
  BY DEF Command
<1>2. t["radarcape"] = s["radarcape"]
  BY <1>1, TargetNotType DEF ProcessOptions, SettingName
<1>3. \A l : OptionTarget(t, l) = OptionTarget(s, l)
  BY <1>2 DEF OptionTarget, IsSet
<1>4. \A d, e \in C \cup {c} : OptionTarget(s, d.letter) = OptionTarget(s, e.letter) => d = e
  BY <1>1, TargetsDiffer
<1>5. ASSUME NEW n \in SettingName
      PROVE  ProcessOptions(t, {c})[n] = ProcessOptions(s, C \cup {c})[n]
  <2>1. CASE OptionTarget(s, c.letter) = n
    <3>1. ProcessOptions(t, {c})[n] = Tri(c.on)
      BY <1>3, <2>1 DEF ProcessOptions
    <3>2. (CHOOSE d \in C \cup {c} : OptionTarget(s, d.letter) = n) = c
      BY <1>4, <2>1
    <3>3. ProcessOptions(s, C \cup {c})[n] = Tri(c.on)
      BY <2>1, <3>2 DEF ProcessOptions
    <3> QED
      BY <3>1, <3>3
  <2>2. CASE OptionTarget(s, c.letter) # n
    <3>1. ProcessOptions(t, {c})[n] = t[n]
      BY <1>3, <2>2 DEF ProcessOptions
    <3>2. CASE \E d \in C : OptionTarget(s, d.letter) = n
      <4>1. PICK d \in C : OptionTarget(s, d.letter) = n
        BY <3>2
      <4>2. /\ (CHOOSE e \in C : OptionTarget(s, e.letter) = n) = d
            /\ (CHOOSE e \in C \cup {c} : OptionTarget(s, e.letter) = n) = d
        BY <1>4, <4>1
      <4>3. t[n] = Tri(d.on)
        BY <4>1, <4>2 DEF ProcessOptions
      <4>4. ProcessOptions(s, C \cup {c})[n] = Tri(d.on)
        BY <4>1, <4>2 DEF ProcessOptions
      <4> QED
        BY <3>1, <4>3, <4>4
    <3>3. CASE ~\E d \in C : OptionTarget(s, d.letter) = n
      BY <2>2, <3>1, <3>3 DEF ProcessOptions
    <3> QED
      BY <3>2, <3>3
  <2> QED
    BY <2>1, <2>2
<1>6. \A u, D : ProcessOptions(u, D) = [n \in SettingName |-> ProcessOptions(u, D)[n]]
  BY DEF ProcessOptions
<1> HIDE DEF t
<1>7. ProcessOptions(t, {c}) = ProcessOptions(s, C \cup {c})
  BY <1>5, <1>6
<1> QED
  BY <1>7 DEF t

-----------------------------------------------------------------------------
(* A well-formed request *)

\* Where the parser is after k bytes of a well-formed request.
Stage(k) == IF k % 3 = 0 THEN "FIND_1A" ELSE IF k % 3 = 1 THEN "READ_1" ELSE "READ_OPTION"

\* The parser has got as far as k bytes, and has done what they ask for.
UpTo(a, k) ==
  a \in Parse /\ a.state = Stage(k) /\ a.settings = ProcessOptions(InitialSettings, Asked(k))

LEMMA ByteObeyed ==
  ASSUME request \in Seq(CommandByte), WellFormed(request),
         NEW k \in Nat, k + 1 \in DOMAIN request, NEW a, UpTo(a, k)
  PROVE  UpTo(CommandStep(a, request[k + 1]), k + 1)
<1> DEFINE c == request[k + 1]
<1> USE DEF UpTo
<1>1. CASE k % 3 = 0
  <2>1. (k + 1) % 3 = 1
    BY <1>1
  <2>2. Asked(k + 1) = Asked(k)
    BY <2>1 DEF Asked
  <2>3. c = Byte1A
    BY <2>1 DEF WellFormed
  <2> QED
    BY <1>1, <2>1, <2>2, <2>3, StepFind DEF Stage
<1>2. CASE k % 3 = 1
  <2>1. (k + 1) % 3 = 2
    BY <1>2
  <2>2. Asked(k + 1) = Asked(k)
    BY <2>1 DEF Asked
  <2>3. c = Byte1
    BY <2>1 DEF WellFormed
  <2> QED
    BY <1>2, <2>1, <2>2, <2>3, StepRead DEF Stage
<1>3. CASE k % 3 = 2
  <2>1. (k + 1) % 3 = 0
    BY <1>3
  <2>2. Asked(k + 1) = Asked(k) \cup {c}
    BY <2>1 DEF Asked
  <2>3. Asked(k + 1) \subseteq Command /\ c \in Command
    BY <2>1 DEF WellFormed, Asked
  <2>4. \A d, e \in Asked(k + 1) : d.letter = e.letter => d = e
    BY DEF WellFormed, Asked
  <2>5. ProcessOptions(a.settings, {c}) = ProcessOptions(InitialSettings, Asked(k + 1))
    <3> HIDE DEF c
    <3>1. /\ InitialSettings \in Settings /\ Asked(k) \cup {c} \subseteq Command
          /\ \A d, e \in Asked(k) \cup {c} : d.letter = e.letter => d = e
      BY <2>2, <2>3, <2>4, SocketOutputAssumption
    <3>2. ProcessOptions(ProcessOptions(InitialSettings, Asked(k)), {c})
            = ProcessOptions(InitialSettings, Asked(k) \cup {c})
      BY <3>1, OneMore
    <3> QED
      BY <2>2, <3>2
  <2>6. a.state = "READ_OPTION"
    BY <1>3 DEF Stage
  <2>7. process_option_command(a.settings, c) = ProcessOptions(a.settings, {c})
    BY <2>3 DEF process_option_command
  <2> QED
    BY <2>1, <2>5, <2>6, <2>7, StepOption DEF Stage
<1> QED
  BY <1>1, <1>2, <1>3

\* A chunk of the request, wherever it begins and ends.
LEMMA ChunkObeyed ==
  ASSUME request \in Seq(CommandByte), WellFormed(request),
         NEW u \in 0..Len(request), NEW n \in 1..Len(request) - u,
         NEW start, UpTo(start, u)
  PROVE  LET data == SubSeq(request, u + 1, u + n)
         IN  UpTo(Parsing(start, data)[Len(data)], u + n)
<1> DEFINE data == SubSeq(request, u + 1, u + n)
<1> DEFINE p == Parsing(start, data)
<1> DEFINE S == {k \in Nat : k <= n => UpTo(p[k], u + k)}
<1>1. Len(data) = n /\ n \in Nat /\ \A i \in 1..n : data[i] = request[u + i]
  OBVIOUS
<1>2. \A k \in 0..n : p[k] = IF k = 0 THEN start ELSE CommandStep(p[k - 1], data[k])
  <2> HIDE DEF p, data
  <2>1. p = [k \in 0..Len(data) |-> IF k = 0 THEN start ELSE CommandStep(p[k - 1], data[k])]
    <3>1. Len(data) \in Nat
      BY <1>1
    <3> QED
      BY <3>1, ParsingDef DEF p
  <2> QED
    BY <1>1, <2>1
<1> HIDE DEF p, data
<1>3. 0 \in S
  BY <1>2
<1>4. ASSUME NEW k \in Nat, k \in S PROVE k + 1 \in S
  <2> SUFFICES ASSUME k + 1 <= n PROVE UpTo(p[k + 1], u + (k + 1))
    OBVIOUS
  <2>1. UpTo(p[k], u + k) /\ p[k + 1] = CommandStep(p[k], data[k + 1])
    BY <1>2, <1>4
  <2>2. data[k + 1] = request[(u + k) + 1] /\ (u + k) + 1 \in DOMAIN request /\ u + k \in Nat
    BY <1>1
  <2>3. UpTo(p[k + 1], (u + k) + 1)
    BY <2>1, <2>2, ByteObeyed
  <2>4. (u + k) + 1 = u + (k + 1)
    OBVIOUS
  <2> QED
    BY <2>3, <2>4
<1>5. n \in S
  <2> HIDE DEF S
  <2> QED
    BY <1>3, <1>4, Induction
<1>6. UpTo(p[Len(data)], u + n)
  BY <1>1, <1>5
<1> QED
  BY <1>6 DEF p, data

-----------------------------------------------------------------------------
(* The invariant *)

\* What is left to write of the write under way.
InFlight == IF writes = <<>> THEN <<>> ELSE writes[1].left

\* The messages that were written are received, in flight or buffered, in order.
AllAccounted ==
  LET r == Len(received)  f == Len(InFlight)
  IN  /\ \A i \in DOMAIN InFlight : InFlight[i] = r + i
      /\ \A i \in DOMAIN outbuf.data : outbuf.data[i] = r + f + i
      /\ written = r + f + Len(outbuf.data)

\* There is something to flush when a flush is posted, and nothing in a buffer
\* that is not there.
BufferSound ==
  /\ posted > 0 => outbuf.data # <<>>
  /\ outbuf.null = TRUE => outbuf.data = <<>>

\* What was read of a well-formed request has been obeyed.
Obeyed ==
  WellFormed(request) =>
    state = Stage(used) /\ settings = ProcessOptions(InitialSettings, Asked(used))

Inv ==
  /\ TypeOK /\ OneFlush /\ BufferSound /\ InOrder
  /\ socket = "open" => AllAccounted
  /\ Obeyed /\ notified = settings

LEMMA InitInv == Init => Inv
<1> SUFFICES ASSUME Init PROVE Inv
  OBVIOUS
<1> USE SocketOutputAssumption DEF Init
<1>1. TypeOK
  <2>1. request \in Seq(CommandByte) /\ used \in 0..Len(request)
    OBVIOUS
  <2>2. outbuf \in [null : BOOLEAN, data : Seq(Nat)]
    BY DEF NullBuffer
  <2>3. writes \in Seq([buf : Seq(Nat), left : Seq(Nat)]) /\ received \in Seq(Nat)
    OBVIOUS
  <2>4. closes \in 0..2 /\ posted \in 0..1 /\ written \in 0..MaxMessages
    OBVIOUS
  <2> QED
    BY <2>1, <2>2, <2>3, <2>4 DEF TypeOK
<1>2. OneFlush /\ BufferSound /\ InOrder
  BY DEF OneFlush, BufferSound, InOrder, NullBuffer
<1>3. AllAccounted
  BY DEF AllAccounted, InFlight, NullBuffer
<1>4. Obeyed
  <2>1. Asked(0) = {}
    BY DEF Asked
  <2>2. ProcessOptions(InitialSettings, {}) = InitialSettings
    BY DEF ProcessOptions, Settings
  <2>3. Stage(0) = "FIND_1A"
    BY DEF Stage
  <2> QED
    BY <2>1, <2>2, <2>3 DEF Obeyed
<1> QED
  BY <1>1, <1>2, <1>3, <1>4 DEF Inv

LEMMA ReadCompletesInv ==
  ASSUME Inv, NEW n \in 1..Len(request) - used, ReadCompletes(n)
  PROVE  Inv'
<1> DEFINE data  == SubSeq(request, used + 1, used + n)
           start == [state |-> state, settings |-> settings, got |-> FALSE]
           after == Parsing(start, data)[Len(data)]
<1>1. request \in Seq(CommandByte) /\ used \in 0..Len(request)
  BY SocketOutputAssumption DEF Inv, TypeOK
<1>2. Len(data) = n
  BY <1>1
<1>3. start \in Parse /\ start.state = state /\ start.settings = settings
  BY DEF Inv, TypeOK, Parse
<1>4. /\ state' = after.state /\ settings' = after.settings
      /\ notified' = IF after.got THEN after.settings ELSE notified
      /\ used' = used + n /\ reading' \in {"waiting", "doomed"}
      /\ UNCHANGED <<socket, closes, request, output>>
  BY DEF ReadCompletes, process_commands
<1> HIDE DEF start, data
<1>5. after \in Parse /\ (after.got \/ after.settings = settings)
  BY <1>2, <1>3, ChunkParsed
<1>6. WellFormed(request) => UpTo(after, used + n)
  <2> SUFFICES ASSUME WellFormed(request) PROVE UpTo(after, used + n)
    OBVIOUS
  <2>1. UpTo(start, used)
    BY <1>3 DEF UpTo, Inv, Obeyed
  <2> QED
    BY <1>1, <2>1, ChunkObeyed DEF data
<1> HIDE DEF after
<1>7. TypeOK'
  <2>1. used' \in 0..Len(request')
    BY <1>1, <1>4 DEF output
  <2> QED
    BY <1>4, <1>5, <2>1, ParseFields DEF Inv, TypeOK, output
<1>8. notified' = settings'
  BY <1>4, <1>5 DEF Inv
<1>9. Obeyed'
  BY <1>4, <1>6 DEF Obeyed, UpTo, Asked, output
<1>10. /\ OneFlush' /\ BufferSound' /\ InOrder'
       /\ (socket = "open" => AllAccounted)'
  BY <1>4 DEF Inv, output, OneFlush, BufferSound, InOrder, AllAccounted, InFlight
<1> QED
  BY <1>7, <1>8, <1>9, <1>10 DEF Inv

LEMMA SumIsOne ==
  ASSUME NEW p \in 0..1, NEW n \in Nat, NEW i \in 1..n
  PROVE  p + n # 0 /\ (p + n = 1 => i = 1 /\ n = 1 /\ p = 0)
OBVIOUS

\* One write at most is under way, and then nothing is posted.
LEMMA OneWrite ==
  ASSUME Inv, NEW i \in DOMAIN writes
  PROVE  /\ i = 1 /\ Len(writes) = 1 /\ posted = 0 /\ flush_pending = TRUE
         /\ writes[1] \in [buf : Seq(Nat), left : Seq(Nat)]
<1>1. writes \in Seq([buf : Seq(Nat), left : Seq(Nat)])
  BY DEF Inv, TypeOK
<1>2. /\ i \in 1..Len(writes) /\ Len(writes) \in Nat
      /\ posted \in 0..1 /\ flush_pending \in BOOLEAN
  BY <1>1 DEF Inv, TypeOK
<1>3. flush_pending = FALSE => posted + Len(writes) = 0
  BY DEF Inv, OneFlush
<1>4. flush_pending = TRUE => posted + Len(writes) = 1
  BY DEF Inv, OneFlush
<1>5. flush_pending = TRUE
  <2>1. posted + Len(writes) # 0
    BY <1>2, SumIsOne
  <2> QED
    BY <1>2, <1>3, <2>1, Zenon
<1>6. i = 1 /\ Len(writes) = 1 /\ posted = 0
  <2>1. posted + Len(writes) = 1
    BY <1>4, <1>5, Zenon
  <2> QED
    BY <1>2, <2>1, SumIsOne
<1>7. writes[1] \in [buf : Seq(Nat), left : Seq(Nat)]
  <2>1. 1 \in 1..Len(writes)
    BY <1>6
  <2> QED
    BY <1>1, <2>1, ElementOfSeq
<1> QED
  BY <1>5, <1>6, <1>7

LEMMA InFlightType ==
  ASSUME Inv
  PROVE  InFlight \in Seq(Nat)
<1>1. CASE writes = <<>>
  BY <1>1 DEF InFlight
<1>2. CASE writes # <<>>
  <2>1. 1 \in DOMAIN writes
    BY <1>2 DEF Inv, TypeOK
  <2>2. writes[1].left \in Seq(Nat)
    BY <2>1, OneWrite
  <2> QED
    BY <1>2, <2>2 DEF InFlight
<1> QED
  BY <1>1, <1>2

\* None of the commands' variables is touched.
LEMMA CommandsKept ==
  ASSUME Inv, UNCHANGED commands
  PROVE  Obeyed' /\ notified' = settings'
BY DEF Inv, commands, Obeyed, Asked

LEMMA CloseSocketType ==
  ASSUME TypeOK, CloseSocket
  PROVE  socket' = "closed" /\ closes' \in 0..2
BY DEF TypeOK, CloseSocket

LEMMA ReadFailsInv ==
  ASSUME Inv, ReadFails
  PROVE  Inv'
<1>1. /\ socket' = "closed" /\ closes' \in 0..2 /\ reading' = "none"
      /\ UNCHANGED <<commands, output>>
  BY CloseSocketType DEF Inv, ReadFails
<1>2. TypeOK'
  BY <1>1 DEF Inv, TypeOK, commands, output
<1>3. OneFlush' /\ BufferSound' /\ InOrder'
  BY <1>1 DEF Inv, output, OneFlush, BufferSound, InOrder
<1> QED
  BY <1>1, <1>2, <1>3, CommandsKept DEF Inv

LEMMA AppendNumber ==
  ASSUME NEW q \in Seq(Nat), NEW x \in Nat
  PROVE  /\ Append(q, x) \in Seq(Nat) /\ Len(Append(q, x)) = Len(q) + 1 /\ Append(q, x) # <<>>
         /\ \A i \in 1..Len(q) : Append(q, x)[i] = q[i]
         /\ Append(q, x)[Len(q) + 1] = x
BY AppendProperties

\* A message goes to the end of the stream.
LEMMA WriteInv ==
  ASSUME Inv, write
  PROVE  Inv'
<1> DEFINE data == Append(outbuf.data, written + 1)
<1>1. /\ outbuf.data \in Seq(Nat) /\ written \in Nat /\ MaxMessages \in Nat
      /\ posted \in 0..1 /\ flush_pending \in BOOLEAN /\ received \in Seq(Nat)
  BY SocketOutputAssumption DEF Inv, TypeOK
<1>2. /\ data \in Seq(Nat) /\ Len(data) = Len(outbuf.data) + 1 /\ data # <<>>
      /\ \A i \in 1..Len(outbuf.data) : data[i] = outbuf.data[i]
      /\ data[Len(outbuf.data) + 1] = written + 1
  <2>1. written + 1 \in Nat
    BY <1>1
  <2>2. outbuf.data \in Seq(Nat)
    BY <1>1
  <2> QED
    BY <2>1, <2>2, AppendNumber, Zenon
<1>3. outbuf' = [null |-> FALSE, data |-> data]
  BY DEF write, Buffer
<1> HIDE DEF data
<1>4. outbuf'.data = data /\ outbuf' \in [null : BOOLEAN, data : Seq(Nat)]
  BY <1>2, <1>3
<1>5. TypeOK' /\ OneFlush'
  <2>1. posted' \in 0..1 /\ OneFlush'
    BY <1>1 DEF Inv, TypeOK, write, OneFlush
  <2> QED
    BY <1>1, <1>4, <2>1 DEF Inv, TypeOK, write, commands
<1>6. BufferSound' /\ InOrder'
  <2>1. outbuf'.null = FALSE
    BY <1>3
  <2> QED
    BY <1>2, <1>4, <2>1 DEF Inv, write, BufferSound, InOrder
<1>7. AllAccounted'
  <2>1. UNCHANGED <<received, InFlight>> /\ written' = written + 1
    BY DEF write, InFlight
  <2>2. Len(InFlight) \in Nat /\ Len(received) \in Nat
    BY InFlightType DEF Inv, TypeOK
  <2>3. AllAccounted
    BY DEF Inv, write
  <2>4. /\ written = Len(received) + Len(InFlight) + Len(outbuf.data)
        /\ \A i \in 1..Len(outbuf.data) : outbuf.data[i] = Len(received) + Len(InFlight) + i
    BY <1>1, <2>3 DEF AllAccounted
  <2>5. /\ Len(outbuf.data) \in Nat /\ DOMAIN data = 1..Len(outbuf.data) + 1
        /\ Len(data) = Len(outbuf.data) + 1
    BY <1>1, <1>2
  <2>6. PICK r \in Nat, f \in Nat, b \in Nat :
             r = Len(received) /\ f = Len(InFlight) /\ b = Len(outbuf.data)
    BY <2>2, <2>5
  <2>7. written = r + f + b /\ written + 1 = r + f + (b + 1)
    <3>1. written = Len(received) + Len(InFlight) + Len(outbuf.data)
      BY <2>4
    <3>2. written = r + f + b
      BY <2>6, <3>1, Zenon
    <3> QED
      BY <3>2
  <2>8. written + 1 = Len(received) + Len(InFlight) + Len(data)
    BY <2>5, <2>6, <2>7
  <2>9. ASSUME NEW i \in DOMAIN data PROVE data[i] = Len(received) + Len(InFlight) + i
    <3>1. i \in 1..b \/ i = b + 1
      BY <2>5, <2>6
    <3>2. CASE i \in 1..b
      BY <1>2, <2>4, <2>6, <3>2
    <3>3. CASE i = b + 1
      BY <1>2, <2>6, <2>7, <3>3
    <3> QED
      BY <3>1, <3>2, <3>3
  <2> QED
    BY <1>4, <2>1, <2>3, <2>8, <2>9 DEF AllAccounted
<1> QED
  BY <1>5, <1>6, <1>7, CommandsKept DEF Inv, write

\* What is buffered becomes what is in flight.
LEMMA FlushInv ==
  ASSUME Inv, flush_outbuf
  PROVE  Inv'
<1> DEFINE w == [buf |-> outbuf.data, left |-> outbuf.data]
<1>1. writes = <<>>
  <2>1. ASSUME writes # <<>> PROVE FALSE
    <3>1. 1 \in DOMAIN writes
      BY <2>1 DEF Inv, TypeOK
    <3>2. posted = 0
      BY <3>1, OneWrite
    <3> QED
      BY <3>2 DEF flush_outbuf
  <2> QED
    BY <2>1
<1>2. outbuf.data # <<>> /\ outbuf.data \in Seq(Nat)
  BY DEF Inv, TypeOK, BufferSound, flush_outbuf
<1>3. writes' = <<w>> /\ outbuf' = NullBuffer
  BY <1>1, <1>2 DEF flush_outbuf
<1>4. outbuf'.data = <<>> /\ outbuf' \in [null : BOOLEAN, data : Seq(Nat)]
  BY <1>3 DEF NullBuffer
<1>5. /\ w \in [buf : Seq(Nat), left : Seq(Nat)] /\ w.left = outbuf.data
  BY <1>2
<1> HIDE DEF w
<1>6. writes' \in Seq([buf : Seq(Nat), left : Seq(Nat)]) /\ Len(writes') = 1 /\ writes'[1] = w
  BY <1>3, <1>5
<1>7. posted = 1 /\ posted' = 0 /\ flush_pending = TRUE
  <2>1. posted \in 0..1 /\ posted > 0 /\ flush_pending \in BOOLEAN /\ posted' = posted - 1
    BY DEF Inv, TypeOK, flush_outbuf
  <2>2. flush_pending = FALSE => posted + Len(writes) = 0
    BY DEF Inv, OneFlush
  <2>3. posted = 1 /\ posted' = 0 /\ Len(writes) = 0
    BY <1>1, <2>1
  <2>4. posted + Len(writes) # 0
    BY <2>3
  <2> QED
    BY <2>1, <2>2, <2>3, <2>4, Zenon
<1>8. TypeOK'
  BY <1>4, <1>6, <1>7 DEF Inv, TypeOK, flush_outbuf, commands
<1>9. OneFlush' /\ BufferSound' /\ InOrder'
  <2>1. flush_pending' = TRUE
    BY <1>7 DEF flush_outbuf
  <2>2. OneFlush'
    BY <1>6, <1>7, <2>1 DEF OneFlush
  <2>3. BufferSound'
    BY <1>4, <1>7 DEF BufferSound
  <2>4. InOrder'
    BY DEF Inv, InOrder, flush_outbuf
  <2> QED
    BY <2>2, <2>3, <2>4
<1>10. socket' = "open" => AllAccounted'
  <2> SUFFICES ASSUME socket' = "open" PROVE AllAccounted'
    OBVIOUS
  <2>1. AllAccounted
    BY DEF Inv, flush_outbuf
  <2>2. InFlight = <<>> /\ InFlight' = outbuf.data
    <3>1. writes' # <<>>
      BY <1>6
    <3> QED
      BY <1>1, <1>5, <1>6, <3>1 DEF InFlight
  <2>3. Len(received) \in Nat /\ Len(outbuf.data) \in Nat
    BY <1>2 DEF Inv, TypeOK
  <2>4. /\ \A i \in DOMAIN outbuf.data : outbuf.data[i] = Len(received) + i
        /\ written = Len(received) + Len(outbuf.data)
    <3>1. /\ \A i \in DOMAIN outbuf.data : outbuf.data[i] = Len(received) + 0 + i
          /\ written = Len(received) + 0 + Len(outbuf.data)
      BY <2>1, <2>2 DEF AllAccounted
    <3> QED
      BY <2>3, <3>1
  <2>5. UNCHANGED <<received, written>>
    BY DEF flush_outbuf
  <2>6. written = Len(received) + Len(outbuf.data) + 0
    BY <2>3, <2>4
  <2> QED
    BY <1>4, <2>2, <2>4, <2>5, <2>6 DEF AllAccounted
<1> QED
  BY <1>8, <1>9, <1>10, CommandsKept DEF Inv, flush_outbuf

\* The first message in flight is the next one for the peer.
LEMMA WriteProgressesInv ==
  ASSUME Inv, NEW i \in DOMAIN writes, WriteProgresses(i)
  PROVE  Inv'
<1> DEFINE left == writes[1].left
<1>1. i = 1 /\ Len(writes) = 1 /\ posted = 0 /\ flush_pending = TRUE
  BY OneWrite
<1>2. writes[1] \in [buf : Seq(Nat), left : Seq(Nat)]
  BY OneWrite
<1>3. left \in Seq(Nat) /\ left # <<>> /\ received \in Seq(Nat)
  BY <1>1, <1>2 DEF Inv, TypeOK, WriteProgresses
<1>4. /\ socket = "open" /\ UNCHANGED <<socket, closes, reading, commands, written, outbuf,
                                       flush_pending, posted>>
      /\ received' = Append(received, Head(left))
      /\ writes' = [writes EXCEPT ![1] = [writes[1] EXCEPT !.left = Tail(left)]]
  BY <1>1 DEF WriteProgresses
<1>5. InFlight = left
  <2>1. writes # <<>>
    BY <1>1
  <2> QED
    BY <2>1 DEF InFlight
<1>6. Head(left) \in Nat /\ Head(left) = left[1] /\ Tail(left) \in Seq(Nat)
      /\ Len(left) \in Nat /\ Len(left) > 0
      /\ Len(Tail(left)) = Len(left) - 1
      /\ \A k \in 1..Len(left) - 1 : Tail(left)[k] = left[k + 1]
  BY <1>3, HeadTailProperties
<1>7. /\ received' \in Seq(Nat) /\ Len(received') = Len(received) + 1
      /\ \A k \in 1..Len(received) : received'[k] = received[k]
      /\ received'[Len(received) + 1] = left[1]
  BY <1>3, <1>4, <1>6, AppendProperties
<1>8. /\ writes' \in Seq([buf : Seq(Nat), left : Seq(Nat)])
      /\ Len(writes') = 1 /\ InFlight' = Tail(left)
  <2> DEFINE w == [writes[1] EXCEPT !.left = Tail(left)]
  <2>1. w \in [buf : Seq(Nat), left : Seq(Nat)] /\ w.left = Tail(left)
    BY <1>2, <1>6
  <2>2. writes \in Seq([buf : Seq(Nat), left : Seq(Nat)])
    BY DEF Inv, TypeOK
  <2> HIDE DEF w
  <2>3. writes' = [writes EXCEPT ![1] = w]
    BY <1>4 DEF w
  <2>4. /\ writes' \in Seq([buf : Seq(Nat), left : Seq(Nat)]) /\ Len(writes') = 1
        /\ writes'[1] = w
    <3>1. 1 \in 1..Len(writes)
      BY <1>1
    <3>2. /\ [writes EXCEPT ![1] = w] \in Seq([buf : Seq(Nat), left : Seq(Nat)])
          /\ Len([writes EXCEPT ![1] = w]) = Len(writes)
          /\ [writes EXCEPT ![1] = w][1] = w
      BY <2>1, <2>2, <3>1, ExceptSeq
    <3> QED
      BY <1>1, <2>3, <3>2
  <2>5. writes' # <<>>
    BY <2>4
  <2> QED
    BY <2>1, <2>4, <2>5 DEF InFlight
<1> HIDE DEF left
<1>9. AllAccounted
  BY <1>4 DEF Inv
<1>10. PICK r \in Nat, f \in Nat, b \in Nat :
         r = Len(received) /\ f = Len(left) /\ b = Len(outbuf.data)
  <2>1. Len(received) \in Nat /\ Len(outbuf.data) \in Nat
    BY <1>3 DEF Inv, TypeOK
  <2> QED
    BY <1>6, <2>1
<1>11. /\ \A k \in 1..f : left[k] = r + k
       /\ \A k \in DOMAIN outbuf.data : outbuf.data[k] = r + f + k
       /\ written = r + f + b
  <2>1. /\ \A k \in DOMAIN left : left[k] = Len(received) + k
        /\ \A k \in DOMAIN outbuf.data : outbuf.data[k] = Len(received) + Len(left) + k
        /\ written = Len(received) + Len(left) + Len(outbuf.data)
    BY <1>5, <1>9 DEF AllAccounted
  <2>2. DOMAIN left = 1..f
    BY <1>3, <1>10
  <2> QED
    BY <1>10, <2>1, <2>2, Zenon
<1>12. /\ Len(received') = r + 1 /\ Len(InFlight') = f - 1 /\ f > 0 /\ left[1] = r + 1
       /\ DOMAIN InFlight' = 1..f-1 /\ \A k \in 1..f-1 : InFlight'[k] = left[k + 1]
  <2>1. f > 0 /\ 1 \in 1..f
    BY <1>6, <1>10
  <2>2. left[1] = r + 1
    BY <1>11, <2>1
  <2>3. Len(received') = r + 1
    BY <1>7, <1>10, Zenon
  <2>4. Len(InFlight') = f - 1 /\ DOMAIN InFlight' = 1..f-1
    BY <1>6, <1>8, <1>10
  <2>5. \A k \in 1..f-1 : InFlight'[k] = left[k + 1]
    BY <1>6, <1>8, <1>10, Zenon
  <2> QED
    BY <2>1, <2>2, <2>3, <2>4, <2>5
<1>13. AllAccounted'
  <2>1. ASSUME NEW k \in DOMAIN InFlight' PROVE InFlight'[k] = r + 1 + k
    <3>1. k \in 1..f-1 /\ k + 1 \in 1..f
      BY <1>12
    <3>2. InFlight'[k] = r + (k + 1)
      BY <1>11, <1>12, <3>1
    <3> QED
      BY <3>1, <3>2
  <2>2. \A k \in DOMAIN outbuf.data : r + 1 + (f - 1) + k = r + f + k
    <3>1. DOMAIN outbuf.data = 1..b
      BY <1>10 DEF Inv, TypeOK
    <3> QED
      BY <3>1
  <2>3. r + 1 + (f - 1) + b = r + f + b
    OBVIOUS
  <2> QED
    BY <1>4, <1>10, <1>11, <1>12, <2>1, <2>2, <2>3 DEF AllAccounted
<1>14. InOrder'
  <2>1. DOMAIN received' = 1..r+1 /\ DOMAIN received = 1..r
    BY <1>3, <1>7, <1>10, <1>12
  <2> QED
    BY <1>7, <1>10, <1>12, <2>1 DEF Inv, InOrder
<1>15. TypeOK'
  BY <1>4, <1>7, <1>8 DEF Inv, TypeOK, commands
<1>16. OneFlush' /\ BufferSound'
  BY <1>1, <1>4, <1>8 DEF Inv, OneFlush, BufferSound
<1> QED
  BY <1>4, <1>13, <1>14, <1>15, <1>16, CommandsKept DEF Inv

\* What the end of a write leaves, however it ends.
LEMMA FlushDoneInv ==
  ASSUME Inv, NEW i \in DOMAIN writes, FlushDone(i), UNCHANGED <<posted, received, commands, written>>
  PROVE  /\ writes' = <<>> /\ outbuf'.data = outbuf.data
         /\ outbuf' \in [null : BOOLEAN, data : Seq(Nat)]
         /\ flush_pending' = FALSE /\ posted' = 0
         /\ OneFlush' /\ BufferSound' /\ InOrder'
<1>1. i = 1 /\ Len(writes) = 1 /\ posted = 0
  BY OneWrite
<1>2. writes' = <<>>
  <2>1. writes' = RemoveAt(writes, 1)
    BY <1>1 DEF FlushDone
  <2>2. RemoveAt(writes, 1) = SubSeq(writes, 1, 0) \o SubSeq(writes, 2, 1)
    BY <1>1 DEF RemoveAt
  <2>3. SubSeq(writes, 1, 0) = <<>> /\ SubSeq(writes, 2, 1) = <<>>
    BY DEF Inv, TypeOK
  <2> QED
    BY <2>1, <2>2, <2>3
<1>3. outbuf'.data = outbuf.data /\ outbuf' \in [null : BOOLEAN, data : Seq(Nat)]
  BY DEF FlushDone, Buffer, Inv, TypeOK, BufferSound
<1>4. flush_pending' = FALSE /\ posted' = 0
  BY <1>1 DEF FlushDone
<1>5. OneFlush'
  <2>1. Len(writes') = 0
    BY <1>2
  <2> QED
    BY <1>4, <2>1 DEF OneFlush
<1>6. BufferSound' /\ InOrder'
  BY <1>3, <1>4 DEF FlushDone, Buffer, BufferSound, InOrder, Inv
<1> QED
  BY <1>2, <1>3, <1>4, <1>5, <1>6

LEMMA WriteCompletesInv ==
  ASSUME Inv, NEW i \in DOMAIN writes, WriteCompletes(i)
  PROVE  Inv'
<1>1. /\ writes[i].left = <<>> /\ FlushDone(i)
      /\ UNCHANGED <<socket, closes, reading, commands, written, posted, received>>
  BY DEF WriteCompletes
<1>2. /\ writes' = <<>> /\ outbuf'.data = outbuf.data
      /\ outbuf' \in [null : BOOLEAN, data : Seq(Nat)]
      /\ flush_pending' = FALSE /\ posted' = 0
      /\ OneFlush' /\ BufferSound' /\ InOrder'
  BY <1>1, FlushDoneInv
<1>3. TypeOK'
  <2>1. writes' \in Seq([buf : Seq(Nat), left : Seq(Nat)])
    BY <1>2
  <2> QED
    BY <1>1, <1>2, <2>1 DEF Inv, TypeOK, commands
<1>4. InFlight = <<>> /\ InFlight' = <<>>
  <2>1. i = 1 /\ Len(writes) = 1
    BY OneWrite
  <2> QED
    BY <1>1, <1>2, <2>1 DEF InFlight
<1>5. (socket = "open" => AllAccounted)'
  BY <1>1, <1>2, <1>4 DEF Inv, AllAccounted
<1> QED
  BY <1>1, <1>2, <1>3, <1>5, CommandsKept DEF Inv

LEMMA WriteFailsInv ==
  ASSUME Inv, NEW i \in DOMAIN writes, WriteFails(i)
  PROVE  Inv'
<1>1. /\ FlushDone(i) /\ CloseSocket
      /\ UNCHANGED <<reading, commands, written, posted, received>>
  BY DEF WriteFails
<1>2. /\ writes' = <<>> /\ outbuf' \in [null : BOOLEAN, data : Seq(Nat)]
      /\ flush_pending' = FALSE /\ posted' = 0
      /\ OneFlush' /\ BufferSound' /\ InOrder'
  BY <1>1, FlushDoneInv
<1>3. socket' = "closed" /\ closes' \in 0..2
  BY <1>1, CloseSocketType DEF Inv
<1>4. TypeOK'
  <2>1. writes' \in Seq([buf : Seq(Nat), left : Seq(Nat)])
    BY <1>2
  <2> QED
    BY <1>1, <1>2, <1>3, <2>1 DEF Inv, TypeOK, commands
<1> QED
  BY <1>1, <1>2, <1>3, <1>4, CommandsKept DEF Inv

LEMMA NextInv == Inv /\ [Next]_vars => Inv'
<1> SUFFICES ASSUME Inv, [Next]_vars PROVE Inv'
  OBVIOUS
<1>1. ASSUME NEW n \in 1..Len(request) - used, ReadCompletes(n) PROVE Inv'
  BY <1>1, ReadCompletesInv
<1>2. CASE ReadFails
  BY <1>2, ReadFailsInv
<1>3. CASE write
  BY <1>3, WriteInv
<1>4. CASE flush_outbuf
  BY <1>4, FlushInv
<1>5. ASSUME NEW i \in DOMAIN writes, WriteProgresses(i) \/ WriteCompletes(i) \/ WriteFails(i)
      PROVE  Inv'
  BY <1>5, WriteProgressesInv, WriteCompletesInv, WriteFailsInv
<1>6. CASE UNCHANGED vars
  BY <1>6 DEF vars, commands, output, Inv, TypeOK, OneFlush, BufferSound, InOrder,
              AllAccounted, InFlight, Obeyed, Asked
<1> QED
  BY <1>1, <1>2, <1>3, <1>4, <1>5, <1>6 DEF Next

-----------------------------------------------------------------------------
(* The theorems *)

\* The invariant: every message written is received, being written or in outbuf,
\* and the parser is as far in the request as the bytes read say.
THEOREM Invariance == Spec => []Inv
BY InitInv, NextInv, PTL DEF Spec

\* SocketOutput's members keep the values the code gives them.
THEOREM TypeCorrect == Spec => []TypeOK
<1>1. Inv => TypeOK
  BY DEF Inv
<1> QED
  BY <1>1, Invariance, PTL

\* flush_pending says whether a flush is under way, and two never are: the
\* completion of async_write resets what the posting of flush_outbuf set.
THEOREM OneFlushHolds == Spec => []OneFlush
<1>1. Inv => OneFlush
  BY DEF Inv
<1> QED
  BY <1>1, Invariance, PTL

\* The peer receives the messages as write was called with them: none is lost
\* in the hand-over of outbuf, sent twice or overtaken by a later one.
THEOREM InOrderHolds == Spec => []InOrder
<1>1. Inv => InOrder
  BY DEF Inv
<1> QED
  BY <1>1, Invariance, PTL

\* process_commands obeys a request of any length, cut into reads of any
\* length, and tells the settings notifier of every change.
THEOREM RequestObeyedHolds == Spec => []RequestObeyed
<1>1. Inv => RequestObeyed
  BY DEF Inv, Obeyed, RequestObeyed
<1> QED
  BY <1>1, Invariance, PTL
=============================================================================
