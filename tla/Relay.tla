------------------------------- MODULE Relay -------------------------------
(***************************************************************************)
(* Two splitters in a row, as far as time and GPS status go: a receiver,   *)
(* the input of the first splitter, which labels what it receives as 12MHz *)
(* or GPS time; one of its SocketOutputs, which scales timestamps and      *)
(* rewrites status messages (SocketOutput::write, write_message); the      *)
(* input of the second splitter, which is that output's client and labels  *)
(* what it receives in its turn; and the second splitter's StatusWriter.   *)
(*                                                                         *)
(* The handlers of the two programs on the way of one message are one      *)
(* step: nothing here depends on what waits in a socket between them.      *)
(***************************************************************************)
EXTENDS BeastSettings, StatusWriter, Timestamps

VARIABLES
  mode,           \* the receiver is in GPS timestamp mode
  listener,       \* the settings of the first splitter's --listen
  settings,       \* those of the SocketOutput of the present connection
  gps1, gps2,     \* receiving_gps_timestamps of the two inputs
  receiver_type,  \* of the second input
  good_sync,      \* of the second input
  settled,        \* history: a status message came since the receiver's mode,
                  \* the settings or a connection last changed
  stale,          \* history: ticks since is_connected changed, and since the
  silent          \* StatusWriter saw a status message (up to Late)

writer == <<timeout_timer, file, intact>>
ages   == <<stale, silent>>
input2 == <<gps2, receiver_type, good_sync>>
vars   == <<mode, listener, settings, gps1, input2, settled, writer, ages>>

Late == timeout_interval + 1

\* BeastInput::is_connected of the second input.
is_connected == good_sync /\ receiver_type # "UNKNOWN"

\* The strings that set radarcape and gps_timestamps, or leave them alone.
Listeners == {FromString(g) : g \in UNION {[S -> BOOLEAN] :
                S \in SUBSET {"radarcape", "gps_timestamps"}}}

\* Type correctness; the status timer never runs for longer than its interval.
TypeOK ==
  /\ mode \in BOOLEAN /\ gps1 \in BOOLEAN /\ gps2 \in BOOLEAN
  /\ listener \in Settings /\ settings \in Settings
  /\ receiver_type \in {"UNKNOWN", "BEAST", "RADARCAPE"}
  /\ good_sync \in BOOLEAN /\ settled \in BOOLEAN
  /\ stale \in 0..Late /\ silent \in 0..Late
  /\ WriterTypeOK

Init ==
  /\ mode \in BOOLEAN
  /\ listener \in Listeners /\ settings = listener
  /\ gps1 = FALSE /\ gps2 = FALSE
  /\ receiver_type = "UNKNOWN" /\ good_sync = FALSE
  /\ settled = FALSE /\ stale = 0 /\ silent = Late
  /\ WriterInit

-----------------------------------------------------------------------------
(* What SocketOutput makes of a message *)

\* write_message: a timestamp, labelled GPS or not by the input.
Rescaled(s, gps, t) ==
  OnWire(CASE ~gps /\ s.radarcape # "off" /\ s.gps_timestamps = "on" -> ToGps(t)
           [] gps /\ (s.radarcape = "off" \/ s.gps_timestamps = "off") -> To12MHz(t)
           [] OTHER -> t)

\* write: byte 0 and the flags of a status message.  (The mutation says
\* nothing of timestamps made up from the 12MHz clock.)
StatusByte(s, b) == ToStatusByte(OrElse(s, FromStatusByte(b)))

StatusFlags_plain(s, b, flags) == flags

StatusFlags(s, b, flags) ==
  IF s.gps_timestamps = "on" /\ "gps_timestamps" \notin b
  THEN flags \cup {"80", "20"} ELSE flags

\* The output's filter asks for status messages unless it plays a Beast.
WantsStatus(s) == "status" \in ToFilter(s).receive

-----------------------------------------------------------------------------
(* Actions *)

\* How is_connected, set to c, ages what the file says of it.
Turns(c) == stale' = IF c = is_connected THEN stale ELSE 0

\* The receiver's byte 0 (the bits that matter here), GPS status flags and PPS
\* offset: an old-style message; synchronized; more than 45ns off; not in GPS
\* time.
FlagSets == {{}, {"80", "10"}, {"80"}, {"80", "20"}}

Offsets == {-100, 0, 100}

\* dispatch_message of the two inputs, write of the output and of the writer.
Status(flags, pps) ==
  LET b  == {"binary_format"} \cup (IF mode THEN {"gps_timestamps"} ELSE {})
      b2 == StatusByte(settings, b)
  IN  /\ gps1' = mode
      /\ IF WantsStatus(settings)
         THEN /\ gps2' = ("gps_timestamps" \in b2)
              /\ receiver_type' = "RADARCAPE" /\ good_sync' = TRUE
              /\ write("gps_timestamps" \in b2, pps, StatusFlags(settings, b, flags))
              /\ Turns(TRUE) /\ silent' = 0
         ELSE UNCHANGED <<input2, writer, ages>>
      /\ settled' = TRUE
      /\ UNCHANGED <<mode, listener, settings>>

\* The receiver is told, or switched, to the other mode.
ModeChanges ==
  /\ mode' = ~mode /\ settled' = FALSE
  /\ UNCHANGED <<listener, settings, gps1, input2, writer, ages>>

\* A g or G command from the second splitter: process_option_command.
SettingsCommand(on) ==
  /\ settings' = ProcessOptions(settings, {[letter |-> "g", on |-> on]})
  /\ settled' = (settled /\ settings' = settings)
  /\ UNCHANGED <<mode, listener, gps1, input2, writer, ages>>

\* The first input's connection is made anew: connection_established.
Reconnects1 ==
  /\ gps1' = FALSE /\ settled' = FALSE
  /\ UNCHANGED <<mode, listener, settings, input2, writer, ages>>

\* The second input's connection is: it meets a new SocketOutput, which has
\* the listener's settings.  What the receiver is may be fixed.
Reconnects2(rt) ==
  /\ settings' = listener
  /\ gps2' = FALSE /\ receiver_type' = rt /\ good_sync' = FALSE /\ settled' = FALSE
  /\ Turns(FALSE)
  /\ UNCHANGED <<mode, listener, gps1, writer, silent>>

\* The second input loses sync, or its connection.
LosesSync ==
  /\ good_sync' = FALSE /\ Turns(FALSE)
  /\ UNCHANGED <<mode, listener, settings, gps1, gps2, receiver_type, settled, writer, silent>>

\* It sees a good message that is no status message; a receiver that sends no
\* status messages has been taken for a Beast by then, or will be.
SeesMessage(rt) ==
  /\ rt = receiver_type \/ (receiver_type = "UNKNOWN" /\ rt = "BEAST")
  /\ good_sync' = TRUE /\ receiver_type' = rt
  /\ Turns(rt # "UNKNOWN")
  /\ UNCHANGED <<mode, listener, settings, gps1, gps2, settled, writer, silent>>

StatusTimeout ==
  /\ status_timeout(is_connected, receiver_type = "RADARCAPE")
  /\ UNCHANGED <<mode, listener, settings, gps1, input2, settled, ages>>

\* A second passes; handlers that are due do not wait for long.
Tick ==
  /\ ~timeout_timer.queued
  /\ timeout_timer' = Elapse(timeout_timer)
  /\ stale'  = IF stale  = Late THEN Late ELSE stale + 1
  /\ silent' = IF silent = Late THEN Late ELSE silent + 1
  /\ UNCHANGED <<mode, listener, settings, gps1, input2, settled, file, intact>>

Next ==
  \/ \E flags \in FlagSets, pps \in Offsets : Status(flags, pps)
  \/ ModeChanges
  \/ \E on \in BOOLEAN : SettingsCommand(on)
  \/ Reconnects1
  \/ \E rt \in {"UNKNOWN", "BEAST", "RADARCAPE"} : Reconnects2(rt)
  \/ LosesSync
  \/ \E rt \in {"UNKNOWN", "BEAST", "RADARCAPE"} : SeesMessage(rt)
  \/ StatusTimeout
  \/ Tick

Spec == Init /\ [][Next]_vars

-----------------------------------------------------------------------------
(* Properties *)

\* The stamps a receiver may send in GPS mode or not, and the nanoseconds
\* that one means.
Stamps(gps) ==
  IF gps THEN {s * NanoRange + n : s \in 0..SecondsPerDay - 1, n \in 0..NsPerSecond - 1}
  ELSE 0..StampRange - 1

Nanoseconds(gps, t) ==
  IF gps THEN (t \div NanoRange) * NsPerSecond + (t % NanoRange)
  ELSE (t * NsNum) \div NsDen

\* Two times of day that are less than one count of the 12MHz clock and one
\* nanosecond apart: there is a rounding to each.
Day == SecondsPerDay * NsPerSecond

Near(x, y) ==
  LET d == (x - y) % Day
  IN  d * NsDen < NsNum + NsDen \/ (Day - d) * NsDen < NsNum + NsDen

\* Once a status message has passed, whatever the receiver's mode, the
\* listener's settings and the g/G commands, a timestamp means to the second
\* splitter the time of day that it meant at the receiver: the scaling in
\* write_message, the status byte write sends ahead and the label
\* dispatch_message takes from it agree, over every stamp there is.
TimeKept ==
  settled => \A t \in Stamps(mode) :
               Near(Nanoseconds(gps2, Rescaled(settings, gps1, t)), Nanoseconds(mode, t))

\* The status file of the second splitter says green or amber, in time with
\* GPS, only if the receiver is in GPS mode and its time comes through as GPS
\* time; time that an output on the way makes up from a 12MHz clock is marked
\* as such and shown red.
GreenMeansGps ==
  settled /\ intact /\ file.gps \in {"green", "amber"} => mode /\ gps2

\* The status file is never long out of date, if it can be written at all:
\* what it says of the connection was true no more than timeout_interval ago,
\* and a good GPS status is taken back when no status message came for as long,
\* however often connections, sync and the timer's handlers interleave.
FileCurrent ==
  intact => /\ (file.radio = "green") # is_connected => stale <= timeout_interval
            /\ file.gps \in {"green", "amber"} => silent <= timeout_interval
=============================================================================
