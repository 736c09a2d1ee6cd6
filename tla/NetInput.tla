------------------------------ MODULE NetInput ------------------------------
(***************************************************************************)
(* beast::NetInput: keeping a TCP connection to a receiver.                *)
(*                                                                         *)
(* Every handler is an action; what the network and the receiver do, which *)
(* puts handlers in the io_service's queue, are actions of their own.  The *)
(* handlers of the socket run in the order of the queue, those of timers   *)
(* at any time after they have expired.  Closing the socket drops the      *)
(* operations that are still outstanding, whose handlers would return at   *)
(* once (operation_aborted); it does not reach those that are queued.      *)
(***************************************************************************)
EXTENDS BeastInput, Sequences

CONSTANTS
  Endpoints,   \* the most addresses the host may resolve to
  Changes      \* how often set_filter is called with a new filter

ASSUME NetInputAssumption == Endpoints \in Nat \ {0} /\ Changes \in Nat

VARIABLES
  resolving,       \* lookups under way
  next_endpoint,   \* how many addresses are left to try
  socket,          \* "closed", or open: "connecting", "connected", or "failed"
                   \* when its connect was refused
  reads,           \* reads outstanding
  writing,         \* some write is outstanding
  queue,           \* the handlers of the socket's operations that are over
  changes,
  peer,            \* the receiver behind the last connection
  alive,           \* it is there, and the network between works
  heard,           \* a Radarcape sent its status in this tick
  up,              \* the host can be reached
  crossed          \* history: an attempt went on to its next address after
                   \* handle_error had closed it and scheduled another

dialling == <<resolving, next_endpoint, socket, crossed>>
io       == <<reads, writing, queue>>
world    == <<peer, alive, heard, up>>
vars     == <<base, dialling, io, world, changes>>

\* A connect is over, a write has failed, a read has failed or has brought a
\* chunk.
Handler == {"connected", "refused", "write_error", "read_error"} \cup Chunk

\* Type correctness: the iterator over the endpoints stays on the list or at
\* its end.
TypeOK ==
  /\ BaseTypeOK
  /\ resolving \in Nat /\ next_endpoint \in 0..Endpoints
  /\ socket \in {"closed", "connecting", "connected", "failed"}
  /\ reads \in Nat /\ writing \in BOOLEAN /\ queue \in Seq(Handler)
  /\ changes \in 0..Changes
  /\ peer \in {"beast", "radarcape"} /\ alive \in BOOLEAN /\ heard \in BOOLEAN
  /\ up \in BOOLEAN /\ crossed \in BOOLEAN

\* start() has been called.
Init ==
  /\ BaseInit
  /\ resolving = 1 /\ next_endpoint = 0 /\ socket = "closed" /\ crossed = FALSE
  /\ reads = 0 /\ writing = FALSE /\ queue = <<>>
  /\ changes = 0
  /\ peer = "beast" /\ alive = TRUE /\ heard = FALSE /\ up \in BOOLEAN

-----------------------------------------------------------------------------
(* What the handlers are made of.  Each leaves to its user the variables   *)
(* it does not name.                                                       *)

\* disconnect(), and the same lines of handle_error.
disconnect == socket' = "closed" /\ reads' = 0 /\ writing' = FALSE

\* low_level_write, if b, when q is what is queued.  A write waits for the
\* connection; on a socket that has failed to connect it fails at once.
low_level_write(b, q) ==
  /\ writing' = (writing \/ (b /\ socket \in {"connecting", "connected"}))
  /\ queue' = IF b /\ socket = "failed" THEN Append(q, "write_error") ELSE q

\* low_level_write, if b, and start_reading: a read of a socket that is not
\* connected fails at once.
write_and_read(b, q) ==
  IF socket = "connected"
  THEN low_level_write(b, q) /\ reads' = reads + 1
  ELSE low_level_write(b, Append(q, "read_error")) /\ reads' = reads

\* handle_error.  (The mutation forgets to close the socket.)
handle_error_open ==
  connection_failed(reconnect_timer) /\ UNCHANGED <<liveness_timer, socket, reads, writing>>

handle_error == connection_failed(reconnect_timer) /\ UNCHANGED liveness_timer /\ disconnect

\* try_next_endpoint with n addresses left, on a socket that is `now', when q
\* is what is queued.  On a socket that is open already the connect fails at
\* once and leaves the socket as it is.  (The mutation goes past the last.)
try_next_endpoint_past(n, now, q) ==
  /\ next_endpoint' = n - 1
  /\ socket' = "connecting" /\ queue' = q
  /\ UNCHANGED <<receiver_type, good_sync, status_seen, autodetect_timer, reconnect_timer>>

try_next_endpoint(n, now, q) ==
  IF n = 0
  THEN /\ connection_failed(reconnect_timer)
       /\ next_endpoint' = 0 /\ socket' = now /\ queue' = q
  ELSE /\ next_endpoint' = n - 1
       /\ IF now = "closed"
          THEN socket' = "connecting" /\ queue' = q
          ELSE socket' = now /\ queue' = Append(q, "refused")
       /\ UNCHANGED <<receiver_type, good_sync, status_seen,
                      autodetect_timer, reconnect_timer>>

Take(h) == queue # <<>> /\ Head(queue) = h

-----------------------------------------------------------------------------
(* The handlers.                                                           *)

\* The lookup is over, with n addresses, or with none: it failed.
ResolveHandler ==
  /\ resolving > 0 /\ resolving' = resolving - 1
  /\ \E n \in 0..Endpoints : (n = 0 => ~up) /\ try_next_endpoint(n, socket, queue)
  /\ UNCHANGED <<liveness_timer, crossed, reads, writing, world, changes>>

ConnectedHandler ==
  /\ Take("connected")
  /\ connection_established /\ UNCHANGED reconnect_timer
  /\ write_and_read(TRUE, Tail(queue))
  /\ UNCHANGED <<dialling, world, changes>>

\* The connect failed: close, and go on.
RefusedHandler ==
  /\ Take("refused")
  /\ try_next_endpoint(next_endpoint, "closed", Tail(queue))
  /\ reads' = 0 /\ writing' = FALSE
  /\ crossed' = (crossed \/ (socket = "closed" /\ next_endpoint > 0))
  /\ UNCHANGED <<liveness_timer, resolving, world, changes>>

ReadHandler ==
  /\ \E c \in Chunk :
       /\ Take(c)
       /\ ParseInput(c)
       /\ write_and_read(Resends(TypeAfter(c)), Tail(queue))
  /\ UNCHANGED <<dialling, world, changes>>

\* A read or a write failed.
ErrorHandler ==
  /\ Take("read_error") \/ Take("write_error")
  /\ queue' = Tail(queue)
  /\ handle_error
  /\ UNCHANGED <<resolving, next_endpoint, crossed, world, changes>>

AutodetectHandler ==
  /\ AutodetectTimeout
  /\ low_level_write(Resends("BEAST"), queue)
  /\ UNCHANGED <<dialling, reads, world, changes>>

\* (The mutation takes the connection down only if it is in sync.)
LivenessHandler_insync ==
  /\ liveness_timer.queued /\ liveness_timer' = Taken(liveness_timer)
  /\ IF good_sync
     THEN disconnect /\ connection_failed(reconnect_timer)
     ELSE UNCHANGED <<receiver_type, good_sync, status_seen, autodetect_timer,
                      reconnect_timer, socket, reads, writing>>
  /\ UNCHANGED <<resolving, next_endpoint, crossed, queue, world, changes>>

LivenessHandler ==
  /\ liveness_timer.queued /\ liveness_timer' = Taken(liveness_timer)
  /\ disconnect
  /\ connection_failed(reconnect_timer)
  /\ UNCHANGED <<resolving, next_endpoint, crossed, queue, world, changes>>

\* try_to_connect.
ReconnectHandler ==
  /\ reconnect_timer.queued /\ reconnect_timer' = Taken(reconnect_timer)
  /\ resolving' = resolving + 1
  /\ UNCHANGED <<receiver_type, good_sync, status_seen, autodetect_timer, liveness_timer,
                 next_endpoint, socket, crossed, io, world, changes>>

\* The distributor calls set_filter, from the handler of some output.
SetFilter ==
  /\ changes < Changes /\ changes' = changes + 1
  /\ low_level_write(TRUE, queue)
  /\ UNCHANGED <<base, dialling, reads, world>>

-----------------------------------------------------------------------------
(* The network and the receiver.  While `up' holds nothing fails but       *)
(* attempts at other addresses than the last.  The model ends where two    *)
(* attempts have come to share the socket: the connect under way is never  *)
(* over then and time stands still.                                        *)

ConnectSucceeds ==
  /\ socket = "connecting" /\ ~crossed /\ socket' = "connected"
  /\ queue' = Append(queue, "connected")
  /\ peer' \in {"beast", "radarcape"} /\ alive' = TRUE /\ heard' = FALSE
  /\ UNCHANGED <<base, resolving, next_endpoint, crossed, reads, writing, up, changes>>

\* The writes that wait for the connection fail with it.
ConnectRefused ==
  /\ socket = "connecting" /\ ~crossed /\ (up => next_endpoint > 0)
  /\ socket' = "failed" /\ writing' = FALSE
  /\ queue' = queue \o IF writing THEN <<"refused", "write_error">> ELSE <<"refused">>
  /\ UNCHANGED <<base, resolving, next_endpoint, crossed, reads, world, changes>>

ReadArrives ==
  /\ socket = "connected" /\ alive /\ reads > 0 /\ reads' = reads - 1
  /\ \E c \in Chunk :
       /\ (c = "status" => peer = "radarcape" /\ ~heard)
       /\ (c = "noise" => ~up)
       /\ queue' = Append(queue, c)
       /\ heard' = (heard \/ c = "status")
  /\ UNCHANGED <<base, dialling, writing, peer, alive, up, changes>>

ReadFails ==
  /\ socket = "connected" /\ ~up /\ reads > 0 /\ reads' = reads - 1
  /\ queue' = Append(queue, "read_error")
  /\ UNCHANGED <<base, dialling, writing, world, changes>>

WriteCompletes ==
  /\ socket = "connected" /\ alive /\ writing /\ writing' = FALSE
  /\ UNCHANGED <<base, dialling, reads, queue, world, changes>>

WriteFails ==
  /\ socket = "connected" /\ ~up /\ writing /\ writing' = FALSE
  /\ queue' = Append(queue, "write_error")
  /\ UNCHANGED <<base, dialling, reads, world, changes>>

\* The receiver is gone and nothing says so.
PeerVanishes ==
  /\ socket = "connected" /\ ~up /\ alive /\ alive' = FALSE
  /\ UNCHANGED <<base, dialling, io, peer, heard, up, changes>>

UpDown ==
  /\ up' = ~up
  /\ UNCHANGED <<base, dialling, io, peer, alive, heard, changes>>

\* Time passes when no handler is queued, and when a Radarcape has sent the
\* status message it sends every second.
Tick ==
  /\ TimersQuiet /\ queue = <<>> /\ ~crossed
  /\ (socket = "connected" /\ peer = "radarcape" /\ alive => heard)
  /\ heard' = FALSE
  /\ ElapseAll
  /\ UNCHANGED <<dialling, io, peer, alive, up, changes>>

QueueHandlers == ConnectedHandler \/ RefusedHandler \/ ReadHandler \/ ErrorHandler

Handlers ==
  \/ QueueHandlers
  \/ ResolveHandler \/ AutodetectHandler \/ LivenessHandler \/ ReconnectHandler

Next ==
  \/ Handlers \/ SetFilter
  \/ ConnectSucceeds \/ ConnectRefused \/ ReadArrives \/ ReadFails
  \/ WriteCompletes \/ WriteFails \/ PeerVanishes \/ UpDown \/ Tick

\* The io_service runs what is queued; a connect is over at some time; the
\* receiver keeps sending, a Radarcape its status too; and time passes,
\* however much there is to read.
Fairness ==
  /\ WF_vars(QueueHandlers) /\ WF_vars(ResolveHandler)
  /\ WF_vars(AutodetectHandler) /\ WF_vars(LivenessHandler)
  /\ WF_vars(ReconnectHandler)
  /\ WF_vars(ConnectSucceeds \/ ConnectRefused)
  /\ WF_vars(ReadArrives) /\ SF_vars(ReadArrives /\ heard' # heard)
  /\ SF_vars(Tick)

Spec == Init /\ [][Next]_vars /\ Fairness

-----------------------------------------------------------------------------
(* Properties                                                              *)

\* However errors of reads, writes, lookups and connects interleave with the
\* timers, NetInput is at any time doing exactly one of: looking the host up,
\* holding a socket, waiting to try again.  It relies on the stale liveness
\* timer of a lost connection running out before the rest is over.  The one
\* way out is `crossed': a connect is refused together with a write that
\* waited for it, and the connect to the next address fails before the
\* write's handler runs, which closes the socket and schedules a reconnection
\* (handle_error); the connect's handler then goes on to the address after.
OneAttempt ==
  ~crossed =>
    resolving + (IF socket = "closed" THEN 0 ELSE 1)
              + (IF Pending(reconnect_timer) THEN 1 ELSE 0) = 1

\* The liveness timer is never cancelled, and still takes down only the
\* connection whose status messages have stopped (dispatch_message,
\* connection_failed): no later one, nor an attempt at one.
LivenessJustified ==
  liveness_timer.queued /\ ~crossed =>
    socket = "closed" \/ (socket = "connected" /\ status_seen)

\* When a Radarcape vanishes without a word, in sync or not, its connection
\* is given up (dispatch_message's liveness_timer).
SilenceNoticed ==
  socket = "connected" /\ status_seen /\ ~alive ~> socket = "closed" \/ crossed

\* Once the network and the receiver stay well, the input connects and stays
\* connected, in sync, with the receiver's type known.
Recovers ==
  []~crossed /\ <>[](up /\ alive) => <>[](socket = "connected" /\ is_connected)
=============================================================================
