-------------------------- MODULE SocketConnector --------------------------
(***************************************************************************)
(* beast::SocketConnector: keeping an outgoing connection, over which a    *)
(* SocketOutput serves whoever is there.  Handlers of the socket and of    *)
(* the outputs run in the order of the io_service's queue.                 *)
(*                                                                         *)
(* Of an output only its closing matters here: SocketOutput calls its      *)
(* close_notifier once for every operation that was outstanding when it    *)
(* closed its socket, since an aborted operation leads to close() too      *)
(* (SocketOutput.tla shows how many that may be).                          *)
(***************************************************************************)
EXTENDS AsioTimer, Sequences

CONSTANTS
  reconnect_interval,
  Endpoints,    \* the most addresses the host may resolve to
  Outstanding   \* the most operations an output may have outstanding

ASSUME SocketConnectorAssumption ==
  reconnect_interval \in Nat \ {0} /\ Endpoints \in Nat \ {0} /\ Outstanding \in Nat \ {0}

VARIABLES
  resolving,       \* lookups under way
  next_endpoint,   \* how many addresses are left to try
  socket,          \* "closed", or open: "connecting", or "over" when its
                   \* connect is over and the handler of that is queued
  outputs,         \* how many outputs have an open socket
  queue,           \* handlers of connects, and closings of outputs
  reconnect_timer,
  up               \* the host can be reached

vars == <<resolving, next_endpoint, socket, outputs, queue, reconnect_timer, up>>

Handler == {"connected", "refused", "closed"}

\* Type correctness: the iterator over the endpoints stays on the list or at
\* its end.
TypeOK ==
  /\ resolving \in Nat /\ next_endpoint \in 0..Endpoints
  /\ socket \in {"closed", "connecting", "over"}
  /\ outputs \in Nat /\ queue \in Seq(Handler)
  /\ reconnect_timer \in Timer(reconnect_interval)
  /\ up \in BOOLEAN

\* start() has been called.
Init ==
  /\ resolving = 1 /\ next_endpoint = 0 /\ socket = "closed" /\ outputs = 0
  /\ queue = <<>> /\ reconnect_timer = Idle /\ up \in BOOLEAN

-----------------------------------------------------------------------------
\* schedule_reconnect.  (The mutations: the attempt is made at once; it is
\* made after the shortest time.)
schedule_reconnect_now == resolving' = resolving + 1 /\ UNCHANGED reconnect_timer

schedule_reconnect_hasty ==
  reconnect_timer' = Arm(reconnect_timer, 1) /\ UNCHANGED resolving

schedule_reconnect ==
  reconnect_timer' = Arm(reconnect_timer, reconnect_interval) /\ UNCHANGED resolving

\* try_next_endpoint with n addresses left.  (The mutation goes past the last.)
try_next_endpoint_past(n) ==
  next_endpoint' = n - 1 /\ socket' = "connecting" /\ UNCHANGED <<resolving, reconnect_timer>>

try_next_endpoint(n) ==
  IF n = 0
  THEN /\ schedule_reconnect
       /\ next_endpoint' = 0 /\ socket' = "closed"
  ELSE /\ next_endpoint' = n - 1 /\ socket' = "connecting"
       /\ UNCHANGED <<resolving, reconnect_timer>>

Take(h) == queue # <<>> /\ Head(queue) = h /\ queue' = Tail(queue)

\* The lookup succeeds.
Resolved ==
  /\ resolving > 0 /\ resolving' = resolving - 1
  /\ \E n \in 1..Endpoints : next_endpoint' = n - 1
  /\ socket' = "connecting"
  /\ UNCHANGED <<outputs, queue, reconnect_timer, up>>

\* The lookup fails.  (The mutation gives up.)
ResolveFails_forgotten ==
  /\ resolving > 0 /\ ~up /\ resolving' = resolving - 1
  /\ UNCHANGED <<next_endpoint, socket, outputs, queue, reconnect_timer, up>>

ResolveFails ==
  /\ resolving > 0 /\ ~up /\ resolving' = resolving - 1
  /\ reconnect_timer' = Arm(reconnect_timer, reconnect_interval)
  /\ UNCHANGED <<next_endpoint, socket, outputs, queue, up>>

\* connection_established: the socket moves to a new output.
ConnectedHandler ==
  /\ Take("connected")
  /\ socket' = "closed" /\ outputs' = outputs + 1
  /\ UNCHANGED <<resolving, next_endpoint, reconnect_timer, up>>

\* ... unless the peer is gone already: the constructor of SocketOutput
\* throws when it asks for its address, nothing below main() catches that,
\* and the process is started again by its service manager.
ConnectedThrows ==
  /\ queue # <<>> /\ Head(queue) = "connected" /\ ~up
  /\ resolving' = 1 /\ next_endpoint' = 0 /\ socket' = "closed" /\ outputs' = 0
  /\ queue' = <<>> /\ reconnect_timer' = Idle /\ UNCHANGED up

RefusedHandler ==
  /\ Take("refused")
  /\ try_next_endpoint(next_endpoint)
  /\ UNCHANGED <<outputs, up>>

\* The connection is lost with n operations outstanding on it.  The handler
\* of the first closes the socket and calls close_notifier; the handlers of
\* the others, aborted by that, will.
OutputCloses ==
  /\ outputs > 0 /\ ~up /\ outputs' = outputs - 1
  /\ schedule_reconnect
  /\ \E n \in 1..Outstanding : queue' = queue \o [i \in 1..(n - 1) |-> "closed"]
  /\ UNCHANGED <<next_endpoint, socket, up>>

\* close_notifier is called for an output that is closed already.
ClosedAgain ==
  /\ Take("closed")
  /\ schedule_reconnect
  /\ UNCHANGED <<next_endpoint, socket, outputs, up>>

\* resolve_and_connect, called by the timer.
ReconnectHandler ==
  /\ reconnect_timer.queued /\ reconnect_timer' = Taken(reconnect_timer)
  /\ resolving' = resolving + 1
  /\ UNCHANGED <<next_endpoint, socket, outputs, queue, up>>

-----------------------------------------------------------------------------
(* The network.  While `up' holds only addresses before the last refuse.   *)

ConnectSucceeds ==
  /\ socket = "connecting" /\ socket' = "over"
  /\ queue' = Append(queue, "connected")
  /\ UNCHANGED <<resolving, next_endpoint, outputs, reconnect_timer, up>>

ConnectRefused ==
  /\ socket = "connecting" /\ (up => next_endpoint > 0)
  /\ socket' = "over"
  /\ queue' = Append(queue, "refused")
  /\ UNCHANGED <<resolving, next_endpoint, outputs, reconnect_timer, up>>

UpDown ==
  /\ up' = ~up
  /\ UNCHANGED <<resolving, next_endpoint, socket, outputs, queue, reconnect_timer>>

\* Time passes when no handler is queued.
Tick ==
  /\ queue = <<>> /\ ~reconnect_timer.queued
  /\ reconnect_timer' = Elapse(reconnect_timer)
  /\ UNCHANGED <<resolving, next_endpoint, socket, outputs, queue, up>>

QueueHandlers == ConnectedHandler \/ ConnectedThrows \/ RefusedHandler \/ ClosedAgain

Next ==
  \/ Resolved \/ ResolveFails \/ QueueHandlers \/ OutputCloses \/ ReconnectHandler
  \/ ConnectSucceeds \/ ConnectRefused \/ UpDown \/ Tick

\* Lookups and connects are over at some time, the io_service runs what is
\* queued, time passes.
Fairness ==
  /\ WF_vars(Resolved \/ ResolveFails) /\ WF_vars(ConnectSucceeds \/ ConnectRefused)
  /\ WF_vars(QueueHandlers) /\ WF_vars(ReconnectHandler) /\ WF_vars(Tick)

Spec == Init /\ [][Next]_vars /\ Fairness

-----------------------------------------------------------------------------
(* Properties                                                              *)

\* close_notifier is called several times for one output and each call
\* schedules a reconnection; still there is at any time exactly one of: a
\* lookup, an open socket, a live output, a wait for the next attempt.  (The
\* wait that schedule_reconnect starts replaces the one before.)
OneConnection ==
  resolving + (IF socket = "closed" THEN 0 ELSE 1) + outputs
            + (IF Pending(reconnect_timer) THEN 1 ELSE 0) = 1

\* Once the host stays reachable, the connection is made again and stays
\* (resolve_and_connect, try_next_endpoint and schedule_reconnect never let
\* the chain of attempts end).
Reestablished == <>[]up => <>[](outputs = 1)

Abstract == INSTANCE Redial WITH
  Rest  <- reconnect_interval,
  phase <- IF Pending(reconnect_timer) THEN "resting"
           ELSE IF outputs > 0 THEN "up" ELSE "dialling",
  rest  <- reconnect_timer.left

\* SocketConnector implements Redial: it dials, is up, or rests for the whole
\* interval after the last failure reported, and every rest ends.
ImplementsRedial == Abstract!Spec
=============================================================================
