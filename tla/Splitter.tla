------------------------------ MODULE Splitter ------------------------------
(***************************************************************************)
(* The settings loop of beast-splitter: what the clients ask for            *)
(* (SocketOutput), how it is combined (FilterDistributor), what the input  *)
(* asks of the receiver (BeastInput::send_settings_message) on connections *)
(* that come and go, how the input finds out what the receiver is          *)
(* (connection_established, dispatch_message, the autodetect timer), and   *)
(* which of the receiver's messages reach the clients.                     *)
(*                                                                         *)
(* All handlers run on the one thread of io_service::run; an action is one *)
(* handler with everything it calls.  The receiver is outside the program: *)
(* it reads settings messages off the connection in order and obeys them.  *)
(***************************************************************************)
EXTENDS BeastSettings, Sequences

CONSTANTS
  MaxHandle,       \* bound: clients added in a behaviour
  MaxWire,         \* bound: client changes wait while so many settings
                   \* messages are on the way to the receiver
  Configs,         \* command lines and receivers; see Config
  ClientSettings,  \* initial settings of --listen and --connect
  CommandSets,     \* option commands a client sends in one chunk
  Messages         \* what the receiver may send

\* A command line (--serial or --net, --force, --status-file) together with
\* the receiver it is used with.  A receiver is described by the settings it
\* has when it is switched on; `radarcape' says how it reads the g/G command.
\* A splitter at the other end is the SocketOutput it has for this connection.
Config == [kind : {"serial", "net"}, fixed : Settings, status_file : BOOLEAN,
           receiver : Settings]

ASSUME SplitterAssumption ==
  /\ MaxHandle \in Nat \ {0} /\ MaxWire \in Nat \ {0}
  /\ Configs \subseteq Config
  /\ ClientSettings \subseteq Settings
  /\ \A cmds \in CommandSets : cmds \subseteq Command
  /\ Messages \subseteq Message

VARIABLES
  cfg,               \* chosen once
  clients, next_handle, filter,    \* see FilterDistributor
  outputs,           \* handle -> [settings, open], the SocketOutputs
  link,              \* the input's socket or port: "down", "connecting", "up"
  receiver_type,
  current_settings,
  receiving_gps_timestamps,
  autodetect,        \* [armed, fired]: a wait pending, a handler queued
  to_dev,            \* settings messages written and not yet read
  dev                \* the receiver's settings

\* Who is handed a message is FilterDistributor's subject; here the record of
\* deliveries is left out.
D == INSTANCE FilterDistributor WITH Filters <- Filter, delivered <- <<>>

hub   == <<clients, next_handle, filter>>
input == <<link, receiver_type, current_settings,
           receiving_gps_timestamps, autodetect, to_dev>>
vars  == <<cfg, hub, outputs, input, dev>>

-----------------------------------------------------------------------------
(* The process *)

StatusFilter == [receive_df |-> {}, receive |-> {"status"}]

NoOutputs == [h \in {} |-> [settings |-> AllDontCare, open |-> FALSE]]

\* The distributor's clients when realmain enters io_service::run: with
\* --status-file the StatusWriter is the first.
StartClients ==
  [h \in IF cfg.status_file THEN {0} ELSE {} |->
     [filter |-> StatusFilter, deleted |-> FALSE]]

Init ==
  /\ cfg \in Configs
  /\ dev = cfg.receiver
  /\ clients = StartClients
  /\ next_handle = (IF cfg.status_file THEN 1 ELSE 0)
  /\ filter = D!upstream_filter(clients)
  /\ outputs = NoOutputs
  /\ link = "down"
  /\ receiver_type = "UNKNOWN"
  /\ current_settings = AllDontCare
  /\ receiving_gps_timestamps = FALSE
  /\ autodetect = [armed |-> FALSE, fired |-> FALSE]
  /\ to_dev = <<>>

\* The process has aborted, or main has returned 2; the service manager starts
\* it again (Restart=on-failure).  The receiver keeps its settings.
Restart ==
  /\ clients' = StartClients
  /\ next_handle' = (IF cfg.status_file THEN 1 ELSE 0)
  /\ filter' = D!upstream_filter(StartClients)
  /\ outputs' = NoOutputs
  /\ link' = "down"
  /\ receiver_type' = "UNKNOWN"
  /\ current_settings' = AllDontCare
  /\ receiving_gps_timestamps' = FALSE
  /\ autodetect' = [armed |-> FALSE, fired |-> FALSE]
  /\ to_dev' = <<>>
  /\ UNCHANGED <<cfg, dev>>

-----------------------------------------------------------------------------
(* BeastInput *)

\* The settings send_settings_message wants for filter f and receiver type rt.
WantedSettings(f, rt) ==
  LET s == [OrElse(cfg.fixed, FromFilter(f)) EXCEPT
              !.radarcape = Tri(rt = "RADARCAPE"), !.binary_format = "on"]
  IN  IF cfg.kind = "serial"
      THEN [s EXCEPT !.rts_handshake = "on", !.verbatim = "dontcare"]
      ELSE s

\* send_settings_message, with `current' as current_settings and `wire' as
\* what is already on the way.  low_level_write wants an open socket, and an
\* open socket need not be connected yet.
SendSettings(f, rt, current, wire, l) ==
  LET s == WantedSettings(f, rt)
      send == s # current /\ l # "down"
  IN  /\ current_settings' = IF send THEN s ELSE current
      /\ to_dev' = IF send THEN Append(wire, ToMessage(s)) ELSE wire

\* The bound on client activity.  Connecting and detection are not held up by
\* it, and add at most four messages on a connection.
Room == Len(to_dev) < MaxWire

\* FilterDistributor's filter_notifier: BeastInput::set_filter.
SetFilter ==
  IF filter' # filter
  THEN SendSettings(filter', receiver_type, current_settings, to_dev, link)
  ELSE UNCHANGED <<current_settings, to_dev>>

InputOtherwiseUnchanged ==
  UNCHANGED <<cfg, link, receiver_type,
              receiving_gps_timestamps, autodetect, dev>>

\* NetInput::try_to_connect: from now on the socket is open.  The program has
\* just started or reconnect_interval has passed, so no handler of the previous
\* connection is still queued.
TryToConnect ==
  /\ cfg.kind = "net" /\ link = "down" /\ ~autodetect.fired
  /\ link' = "connecting"
  /\ UNCHANGED <<cfg, hub, outputs, receiver_type,
                 current_settings, receiving_gps_timestamps, autodetect,
                 to_dev, dev>>

\* current_settings after connection_established: nothing has been asked of
\* the receiver yet.  (The mutation remembers the previous connection.)
ResetSettings_kept == current_settings
ResetSettings == AllDontCare

\* connection_established.  A serial port is opened, or cancelled and
\* reconfigured by advance_autobaud, without waiting; what was still to be
\* written to it is lost.  What was written to a connecting socket goes first.
\* The receiver may have been switched off and on in between.
ConnectionEstablished ==
  /\ \/ cfg.kind = "net" /\ link = "connecting"
     \/ cfg.kind = "serial" /\ (link = "up" \/ ~autodetect.fired)
  /\ link' = "up"
  /\ receiving_gps_timestamps' = FALSE
  /\ receiver_type' = CASE cfg.fixed.radarcape = "on"  -> "RADARCAPE"
                        [] cfg.fixed.radarcape = "off" -> "BEAST"
                        [] OTHER -> "UNKNOWN"
  /\ autodetect' = [autodetect EXCEPT !.armed = cfg.fixed.radarcape = "dontcare"]
  /\ dev' \in {dev, cfg.receiver}
  /\ SendSettings(filter, receiver_type', ResetSettings,
                  IF cfg.kind = "net" THEN to_dev ELSE <<>>, "up")
  /\ UNCHANGED <<cfg, hub, outputs>>

\* handle_error, a failed connect, or the liveness timer: connection_failed and
\* the socket is closed.  A queued autodetect handler is past cancelling.
ConnectionFailed ==
  /\ link # "down"
  /\ link' = "down"
  /\ autodetect' = [autodetect EXCEPT !.armed = FALSE]
  /\ to_dev' = <<>>
  /\ UNCHANGED <<cfg, hub, outputs, receiver_type,
                 current_settings, receiving_gps_timestamps, dev>>

\* radarcape_detect_interval is over: the handler is queued.
AutodetectExpires ==
  /\ autodetect.armed /\ ~autodetect.fired
  /\ autodetect' = [armed |-> FALSE, fired |-> TRUE]
  /\ UNCHANGED <<cfg, hub, outputs, link, receiver_type,
                 current_settings, receiving_gps_timestamps, to_dev, dev>>

\* A mutation of the handler below, which settles the type and leaves it to the
\* next change of filter to tell the receiver.
AutodetectHandler_silent ==
  /\ autodetect.fired
  /\ autodetect' = [autodetect EXCEPT !.fired = FALSE]
  /\ receiver_type' = "BEAST"
  /\ UNCHANGED <<cfg, hub, outputs, link, receiving_gps_timestamps,
                 current_settings, to_dev, dev>>

\* The handler of autodetect_timer.
AutodetectHandler ==
  /\ autodetect.fired
  /\ autodetect' = [autodetect EXCEPT !.fired = FALSE]
  /\ receiver_type' = "BEAST"
  /\ SendSettings(filter, "BEAST", current_settings, to_dev, link)
  /\ UNCHANGED <<cfg, hub, outputs, link,
                 receiving_gps_timestamps, dev>>

-----------------------------------------------------------------------------
(* The receiver *)

\* Does the receiver give its messages GPS timestamps?
GpsTimestamps == dev.radarcape # "off" /\ IsSet(dev, "gps_timestamps")

\* The first data byte of its status messages.
StatusByte == ToStatusByte([dev EXCEPT !.radarcape = "on"])

\* What a receiver with its present settings can send.
Emits(m) ==
  IF m.type \in {"STATUS", "POSITION"} THEN dev.radarcape # "off"
                                       ELSE Accepts(ToFilter(dev), m)

DeviceApplies ==
  /\ link = "up" /\ to_dev # <<>>
  /\ dev' = ProcessOptions(dev, Head(to_dev))
  /\ to_dev' = Tail(to_dev)
  /\ UNCHANGED <<cfg, hub, outputs, link, receiver_type,
                 current_settings, receiving_gps_timestamps, autodetect>>

\* can_dispatch, once the receiver type is rt.  A serial input that has not
\* settled on a baud rate dispatches nothing.
CanDispatch(rt) ==
  {rt # "UNKNOWN"} \cup (IF cfg.kind = "serial" THEN {FALSE} ELSE {})

\* Message m shows that the receiver is a Radarcape, which was not known.
\* (The mutation takes the first conclusion on a connection for final.)
Detects_once(m) == m.type = "STATUS" /\ receiver_type = "UNKNOWN"
Detects(m) == m.type = "STATUS" /\ receiver_type # "RADARCAPE"

\* receiving_gps_timestamps after message m.  (The mutation reads the status
\* byte only when it detects the receiver.)
LabelAfter_detecting(m) ==
  IF Detects(m) THEN FromStatusByte(StatusByte).gps_timestamps = "on"
                ELSE receiving_gps_timestamps
LabelAfter(m) ==
  IF m.type = "STATUS" THEN FromStatusByte(StatusByte).gps_timestamps = "on"
                       ELSE receiving_gps_timestamps

\* dispatch_message.
DispatchMessage(m) ==
  LET rt == IF Detects(m) THEN "RADARCAPE" ELSE receiver_type
  IN
  /\ link = "up" /\ Emits(m)
  /\ receiver_type' = rt
  /\ receiving_gps_timestamps' = LabelAfter(m)
  /\ IF Detects(m)
     THEN /\ autodetect' = [autodetect EXCEPT !.armed = FALSE]
          /\ SendSettings(filter, rt, current_settings, to_dev, link)
     ELSE UNCHANGED <<autodetect, current_settings, to_dev>>
  /\ \E can_dispatch \in CanDispatch(rt) :
       /\ m.type = "POSITION" => ~can_dispatch
       /\ clients' = IF can_dispatch THEN D!Purged ELSE clients
  /\ UNCHANGED <<cfg, next_handle, filter, outputs, link, dev>>

\* dispatch_message of a POSITION message: its seven metadata bytes are glued
\* to its data, and the assertion of Message's constructor fails.
DispatchAborts(m) ==
  /\ link = "up" /\ Emits(m)
  /\ m.type = "POSITION"
  /\ TRUE \in CanDispatch(receiver_type)
  /\ Restart

-----------------------------------------------------------------------------
(* SocketListener, SocketConnector, SocketOutput *)

\* accept_connection's handler, or SocketConnector::connection_established.
AcceptConnection(s) ==
  /\ Room
  /\ D!add_client(ToFilter(s))
  /\ outputs' = [h \in DOMAIN outputs \cup {next_handle} |->
                   IF h = next_handle THEN [settings |-> s, open |-> TRUE]
                                      ELSE outputs[h]]
  /\ SetFilter
  /\ InputOtherwiseUnchanged

\* The peer of a socket just accepted is already gone: remote_endpoint() throws
\* out of the handler and of io_service::run, and main returns.
AcceptThrows ==
  /\ next_handle < MaxHandle
  /\ Restart

\* process_commands, then settings_notifier, for a chunk of option commands.
ProcessCommands(h, cmds) ==
  LET s == ProcessOptions(outputs[h].settings, cmds)
  IN
  /\ Room
  /\ outputs[h].open
  /\ outputs' = [outputs EXCEPT ![h].settings = s]
  /\ \/ D!update_client_filter(h, ToFilter(s))
     \/ ToFilter(s) = clients[h].filter /\ UNCHANGED hub
  /\ SetFilter
  /\ InputOtherwiseUnchanged

\* A mutation of CloseOutput: the socket is closed without close_notifier.
CloseOutput_unnoticed(h) ==
  /\ Room
  /\ outputs[h].open
  /\ outputs' = [outputs EXCEPT ![h].open = FALSE]
  /\ UNCHANGED <<hub, current_settings, to_dev>>
  /\ InputOtherwiseUnchanged

\* A read or write error on an open output: handle_error, close, close_notifier.
CloseOutput(h) ==
  /\ Room
  /\ outputs[h].open
  /\ outputs' = [outputs EXCEPT ![h].open = FALSE]
  /\ D!remove_client(h)
  /\ SetFilter
  /\ InputOtherwiseUnchanged

\* The last handler of a closed output.  It may still deliver commands that
\* were read before the close: settings_notifier finds the client deleted or
\* erased.  Either way close_notifier is called a second time, to no effect.
FinishOutput(h, cmds) ==
  LET s == ProcessOptions(outputs[h].settings, cmds)
      notify == h \in D!Live /\ clients[h].filter # ToFilter(s)
  IN
  /\ Room
  /\ ~outputs[h].open
  /\ outputs' = [k \in DOMAIN outputs \ {h} |-> outputs[k]]
  /\ IF notify THEN D!update_client_filter(h, ToFilter(s)) ELSE UNCHANGED hub
  /\ SetFilter
  /\ InputOtherwiseUnchanged

-----------------------------------------------------------------------------

Next ==
  \/ TryToConnect
  \/ ConnectionEstablished
  \/ ConnectionFailed
  \/ AutodetectExpires
  \/ AutodetectHandler
  \/ DeviceApplies
  \/ \E m \in Messages : DispatchMessage(m) \/ DispatchAborts(m)
  \/ \E s \in ClientSettings : AcceptConnection(s)
  \/ AcceptThrows
  \/ \E h \in DOMAIN outputs :
       \/ \E cmds \in CommandSets :
            ProcessCommands(h, cmds) \/ FinishOutput(h, cmds)
       \/ CloseOutput(h)

Spec == Init /\ [][Next]_vars

\* The receiver reads what it is sent, and a Radarcape sends a status message
\* every second.
Fairness ==
  /\ WF_vars(DeviceApplies)
  /\ WF_vars(DispatchMessage(Plain("STATUS")))

FairSpec == Spec /\ Fairness

-----------------------------------------------------------------------------

\* Type correctness of the composed state.
TypeOK ==
  /\ cfg \in Configs
  /\ next_handle \in 0..MaxHandle
  /\ DOMAIN clients \subseteq 0..next_handle-1
  /\ clients \in [DOMAIN clients -> D!Client]
  /\ filter \in Filter
  /\ DOMAIN outputs \subseteq 0..next_handle-1
  /\ outputs \in [DOMAIN outputs -> [settings : Settings, open : BOOLEAN]]
  /\ link \in {"down", "connecting", "up"}
  /\ receiver_type \in {"UNKNOWN", "BEAST", "RADARCAPE"}
  /\ current_settings \in Settings
  /\ receiving_gps_timestamps \in BOOLEAN
  /\ autodetect \in [armed : BOOLEAN, fired : BOOLEAN]
  /\ to_dev \in Seq(SUBSET Command) /\ Len(to_dev) <= MaxWire + 4
  /\ dev \in Settings

\* The distributor's view of the clients is the outputs' own: its live clients
\* are exactly the open SocketOutputs and the StatusWriter, each filtered by
\* its present settings, whatever order accepts, commands, closes and late
\* handlers come in.
OutputsMatchClients ==
  LET sw == IF cfg.status_file THEN {0} ELSE {}
      open == {h \in DOMAIN outputs : outputs[h].open}
  IN  /\ D!Live = open \cup sw
      /\ \A h \in open : clients[h].filter = ToFilter(outputs[h].settings)

\* While connected, what was last sent to the receiver is what the present
\* clients, --force and the detected receiver type call for: no path (new
\* connection, detection, autodetect timeout, client change) forgets to send.
SettingsCurrent ==
  link = "up" => current_settings = WantedSettings(filter, receiver_type)

\* What client filter f lets through, as far as this connection can ask for it:
\* a serial input never asks for verbatim.
Requestable(f) ==
  IF cfg.kind = "serial" THEN [f EXCEPT !.receive = @ \ {"verbatim"}] ELSE f

\* Once a connected receiver has read everything it was sent, it is in binary
\* format and passes every Mode A/C and Mode S message that some client's
\* filter accepts.  (README: "ask the real Beast for the most general set of
\* messages needed".)
ClientsCovered ==
  link = "up" /\ to_dev = <<>> =>
    /\ IsSet(dev, "binary_format")
    /\ \A h \in D!Live : \A m \in Message :
         /\ m.type \in {"MODE_AC", "MODE_S"}
         /\ Accepts(Requestable(clients[h].filter), m)
         => Accepts(ToFilter(dev), m)

\* A connection to a Radarcape that stays up is recognised as one, for good:
\* a late autodetect timeout may set the type back, the next status message
\* puts it right.
RadarcapeDetected ==
  <>[](link = "up" /\ dev.radarcape = "on")
    => <>[](receiver_type = "RADARCAPE")

\* The type of timestamp messages are labelled with settles on what the
\* receiver sends, once the receiver's mode settles.
LabelSettles ==
  \A b \in BOOLEAN :
    <>[](link = "up" /\ dev.radarcape = "on" /\ GpsTimestamps = b)
      => <>[](receiving_gps_timestamps = b)

-----------------------------------------------------------------------------
(* What the comments and the documentation say, and the code does not do *)

\* debian/changelog, 3.3.0, "Support for forwarding type 5 (radarcape position)
\* messages": dispatching a message costs no client its connection.
DispatchKeepsClients ==
  [][\A m \in Messages : DispatchMessage(m) \/ DispatchAborts(m)
       => outputs' = outputs]_vars

\* README, "ask the real Beast for the most general set of messages needed",
\* with the k/K option: a Beast all of whose clients refuse DF0/4/5 is not left
\* sending them.
NoUnwantedSurveillance ==
  /\ link = "up" /\ to_dev = <<>> /\ receiver_type = "BEAST"
  /\ D!Live # {} /\ filter.receive_df \cap {0, 4, 5} = {}
  => ToFilter(dev).receive_df \cap {0, 4, 5} = {}
=============================================================================
