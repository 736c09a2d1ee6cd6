---------------------------- MODULE SerialInput ----------------------------
(***************************************************************************)
(* beast::SerialInput: reading a serial port, and hunting for the rate the *)
(* receiver runs at.                                                       *)
(*                                                                         *)
(* A read loop is a read outstanding, then its handler queued, then (since *)
(* a read brings less than a buffer) a wait of read_interval, then         *)
(* start_reading queued, and so on.  There may be more than one.  Handlers *)
(* run in the order of the queue, those of timers at any time after they   *)
(* have expired; cancelled ones return at once and are dropped.            *)
(***************************************************************************)
EXTENDS BeastInput, Sequences

CONSTANTS
  FixedBaud,                \* --fixed-baud is given: autobaud_rates is empty
  Rates,                    \* how many rates there are to try
  autobaud_base_interval, autobaud_max_interval,
  autobaud_good_messages,
  autobaud_restart_chunks,  \* autobaud_restart_bytes, in chunks of noise
  MaxLoops                  \* with as many read loops, reads are not over at
                            \* the same time as anything else; nor are as many
                            \* failures queued

ASSUME SerialInputAssumption ==
  /\ FixedBaud \in BOOLEAN /\ Rates \in Nat \ {0} /\ MaxLoops \in Nat \ {0}
  /\ autobaud_base_interval \in Nat \ {0} /\ autobaud_max_interval \in Nat
  /\ autobaud_base_interval <= autobaud_max_interval
  /\ autobaud_good_messages \in Nat \ {0} /\ autobaud_restart_chunks \in Nat

VARIABLES
  port,                 \* "open" or "closed"
  autobauding, autobaud_rate, autobaud_interval, autobaud_timer,
  good_messages_count, bad_bytes_count,  \* no further than they are compared
  reads,                \* reads outstanding
  waits,                \* waits for read_timer
  queue,                \* handlers of the port's operations that are over, and
                        \* of read_timer ("resume")
  device, device_rate,  \* what is at the other end; the rate is 1 unless healthy
  healthy,              \* nothing fails
  heard                 \* the rate at which the port was read in this tick, or 0

hunt  == <<autobauding, autobaud_rate, autobaud_interval, autobaud_timer,
           good_messages_count, bad_bytes_count>>
io    == <<port, reads, waits, queue>>
world == <<device, device_rate, healthy, heard>>
vars  == <<base, hunt, io, world>>

\* A chunk of many messages counts as enough of them.
SerialChunk == Chunk \cup {"burst"}

\* Type correctness: the hunt's interval stays below its maximum, and its rate
\* among the rates there are.
TypeOK ==
  /\ BaseTypeOK
  /\ port \in {"open", "closed"}
  /\ autobauding \in BOOLEAN /\ autobaud_rate \in 1..Rates
  /\ autobaud_interval \in autobaud_base_interval..autobaud_max_interval
  /\ autobaud_timer \in Timer(autobaud_max_interval)
  /\ good_messages_count \in 0..autobaud_good_messages
  /\ bad_bytes_count \in 0..(autobaud_restart_chunks + 1)
  /\ reads \in Nat /\ waits \in Nat
  /\ queue \in Seq(SerialChunk \cup {"error", "resume"})
  /\ device \in {"beast", "radarcape"} /\ device_rate \in 1..Rates
  /\ healthy \in BOOLEAN /\ heard \in 0..Rates

\* start() is about to be called: the first attempt is due.
Init ==
  /\ receiver_type = "UNKNOWN" /\ good_sync = FALSE /\ status_seen = FALSE
  /\ autodetect_timer = Idle /\ liveness_timer = Idle
  /\ reconnect_timer = [left |-> 0, queued |-> TRUE]
  /\ port = "closed"
  /\ autobauding = ~FixedBaud /\ autobaud_rate = 1
  /\ autobaud_interval = autobaud_base_interval /\ autobaud_timer = Idle
  /\ good_messages_count = 0 /\ bad_bytes_count = 0
  /\ reads = 0 /\ waits = 0 /\ queue = <<>>
  /\ device \in {"beast", "radarcape"} /\ device_rate \in 1..Rates
  /\ healthy \in BOOLEAN /\ heard = 0
  /\ ~healthy => device_rate = 1

-----------------------------------------------------------------------------
(* What the handlers are made of; `a' and `t' are the autobaud and the     *)
(* reconnect timer as they stand.                                          *)

\* The port is closed, as disconnect and handle_error do it.
ClosePort(a) ==
  port' = "closed" /\ autobaud_timer' = Cancel(a)

\* handle_error.  Like try_to_connect it leaves the counters to its user.
handle_error(a, t) ==
  /\ connection_failed(t) /\ UNCHANGED liveness_timer
  /\ ClosePort(a)
  /\ IF ~FixedBaud
     THEN /\ autobauding' = TRUE /\ autobaud_rate' = 1
          /\ autobaud_interval' = autobaud_base_interval
     ELSE UNCHANGED <<autobauding, autobaud_rate, autobaud_interval>>

\* try_to_connect at rate r and interval i, but for the read it starts: the
\* port is opened, or is open and its operations are cancelled; or that or
\* setting an option throws.
try_to_connect(r, i, a, t) ==
  \/ /\ port' = "open"
     /\ autobaud_rate' = r /\ autobaud_interval' = i
     /\ autobaud_timer' = IF ~FixedBaud /\ Rates > 1 THEN Arm(a, i) ELSE a
     /\ connection_established /\ reconnect_timer' = t
  \/ /\ ~healthy
     /\ handle_error(a, t)

\* The reads and waits try_to_connect leaves, whatever it found; and the counters
\* when they were g and b, which connection_established clears.
OneRead == reads' = (IF port' = "open" THEN 1 ELSE 0) /\ waits' = 0

Counters(g, b) ==
  /\ good_messages_count' = IF port' = "open" THEN 0 ELSE g
  /\ bad_bytes_count' = IF port' = "open" THEN 0 ELSE b

\* advance_autobaud's next rate and interval.  (The mutations keep
\* the interval, and let it grow without limit.)
NextRate == IF autobaud_rate = Rates THEN 1 ELSE autobaud_rate + 1

NextInterval_same == autobaud_interval

NextInterval_uncapped ==
  IF autobaud_rate < Rates THEN autobaud_interval ELSE autobaud_interval * 2

NextInterval ==
  IF autobaud_rate < Rates THEN autobaud_interval
  ELSE IF autobaud_interval * 2 < autobaud_max_interval THEN autobaud_interval * 2
  ELSE autobaud_max_interval

\* start_reading, with q queued: it ends the waits for read_timer, and fails
\* on a closed port.
start_reading(q) ==
  /\ waits' = 0
  /\ IF port = "open"
     THEN reads' = reads + 1 /\ queue' = q
     ELSE reads' = reads /\ queue' = Append(q, "error")

Take(h) == queue # <<>> /\ Head(queue) = h

-----------------------------------------------------------------------------
(* The handlers.                                                           *)

ReconnectHandler ==
  /\ reconnect_timer.queued
  /\ try_to_connect(autobaud_rate, autobaud_interval, autobaud_timer, Taken(reconnect_timer))
  /\ OneRead /\ Counters(good_messages_count, bad_bytes_count)
  /\ autobauding' = (autobauding \/ (port' = "closed" /\ ~FixedBaud))
  /\ UNCHANGED <<queue, world>>

\* advance_autobaud, called by its timer.  (The mutation goes on hunting when
\* a rate has been accepted.)
AutobaudHandler_late ==
  /\ autobaud_timer.queued
  /\ try_to_connect(NextRate, NextInterval, Taken(autobaud_timer), reconnect_timer)
  /\ OneRead /\ Counters(good_messages_count, bad_bytes_count)
  /\ autobauding' = (autobauding \/ port' = "closed")
  /\ UNCHANGED <<queue, world>>

AutobaudHandler ==
  /\ autobaud_timer.queued
  /\ IF autobauding
     THEN /\ try_to_connect(NextRate, NextInterval, Taken(autobaud_timer), reconnect_timer)
          /\ OneRead /\ Counters(good_messages_count, bad_bytes_count)
          /\ autobauding' = TRUE
     ELSE /\ autobaud_timer' = Taken(autobaud_timer)
          /\ UNCHANGED <<base, autobauding, autobaud_rate, autobaud_interval,
                         good_messages_count, bad_bytes_count,
                         port, reads, waits>>
  /\ UNCHANGED <<queue, world>>

\* What parse_input and saw_good_message make of the counters and the hunt.
Good(c) == CASE c = "noise" -> 0
             [] c = "burst" \/ good_messages_count = autobaud_good_messages
                  -> autobaud_good_messages
             [] OTHER -> good_messages_count + 1

Bad(c) == IF c # "noise" THEN 0
          ELSE IF bad_bytes_count > autobaud_restart_chunks THEN bad_bytes_count
          ELSE bad_bytes_count + 1

\* A read brought chunk c, and check_framing_errors finds nothing.  The loop
\* goes on after a wait, or at once if the buffer was nearly full.
ReadHandler(c) ==
  /\ Take(c) /\ ~(~autobauding /\ ~FixedBaud /\ Bad(c) > autobaud_restart_chunks)
  /\ ParseInput(c)
  /\ good_messages_count' = Good(c) /\ bad_bytes_count' = Bad(c)
  /\ IF autobauding /\ Good(c) >= autobaud_good_messages
     THEN autobauding' = FALSE /\ autobaud_timer' = Cancel(autobaud_timer)
     ELSE UNCHANGED <<autobauding, autobaud_timer>>
  /\ \/ waits' = waits + 1 /\ queue' = Tail(queue) /\ UNCHANGED reads
     \/ start_reading(Tail(queue))
  /\ UNCHANGED <<port, autobaud_rate, autobaud_interval, world>>

\* A read brought noise, and check_framing_errors restarts the hunt: the port
\* is reopened and a read started.  Then this read's own loop goes on.
RestartHandler ==
  /\ Take("noise") /\ ~autobauding /\ ~FixedBaud /\ Bad("noise") > autobaud_restart_chunks
  /\ try_to_connect(NextRate, NextInterval, autobaud_timer, reconnect_timer)
  /\ autobauding' = TRUE /\ Counters(Good("noise"), Bad("noise"))
  /\ \/ reads' = (IF port' = "open" THEN 1 ELSE 0) /\ waits' = 1 /\ queue' = Tail(queue)
     \/ /\ waits' = 0
        /\ IF port' = "open" THEN reads' = 2 /\ queue' = Tail(queue)
           ELSE reads' = 0 /\ queue' = Append(Tail(queue), "error")
  /\ UNCHANGED world

\* A read or a write failed.
ErrorHandler ==
  /\ Take("error") /\ queue' = Tail(queue)
  /\ handle_error(autobaud_timer, reconnect_timer)
  /\ reads' = 0 /\ waits' = 0
  /\ UNCHANGED <<good_messages_count, bad_bytes_count, world>>

ResumeHandler ==
  /\ Take("resume") /\ start_reading(Tail(queue))
  /\ UNCHANGED <<base, hunt, port, world>>

AutodetectHandler ==
  /\ AutodetectTimeout
  /\ UNCHANGED <<hunt, io, world>>

\* disconnect and connection_failed.  (The mutation only disconnects.)
LivenessHandler_final ==
  /\ liveness_timer.queued /\ liveness_timer' = Taken(liveness_timer)
  /\ ClosePort(autobaud_timer) /\ reads' = 0 /\ waits' = 0
  /\ UNCHANGED <<receiver_type, good_sync, status_seen, autodetect_timer, reconnect_timer,
                 autobauding, autobaud_rate, autobaud_interval,
                 good_messages_count, bad_bytes_count, queue, world>>

LivenessHandler ==
  /\ liveness_timer.queued /\ liveness_timer' = Taken(liveness_timer)
  /\ ClosePort(autobaud_timer) /\ reads' = 0 /\ waits' = 0
  /\ connection_failed(reconnect_timer)
  /\ UNCHANGED <<autobauding, autobaud_rate, autobaud_interval,
                 good_messages_count, bad_bytes_count, queue, world>>

-----------------------------------------------------------------------------
(* The port, the receiver, and time.  A healthy receiver is heard once in  *)
(* a tick, as noise if the rate is wrong; an unhealthy one at any rate, as *)
(* often as it likes and as noise too, and operations fail.                *)

Loops == reads + waits + Len(queue)

AutobaudQuiet == TimersQuiet /\ ~autobaud_timer.queued

\* What may be read.
Sent ==
  IF healthy /\ autobaud_rate # device_rate THEN {"noise"}
  ELSE (IF device = "radarcape" THEN {"status"} ELSE {"message", "burst"})
       \cup (IF healthy THEN {} ELSE {"noise"})

ReadArrives ==
  /\ port = "open" /\ reads > 0 /\ reads' = reads - 1
  /\ Loops < MaxLoops \/ (queue = <<>> /\ waits = 0 /\ AutobaudQuiet)
  /\ healthy => heard # autobaud_rate
  /\ \E c \in Sent : queue' = Append(queue, c)
  /\ heard' = IF healthy THEN autobaud_rate ELSE 0
  /\ UNCHANGED <<base, hunt, port, waits, device, device_rate, healthy>>

ReadFails ==
  /\ port = "open" /\ ~healthy /\ Len(queue) < MaxLoops /\ reads > 0 /\ reads' = reads - 1
  /\ queue' = Append(queue, "error")
  /\ UNCHANGED <<base, hunt, port, waits, world>>

\* A settings message may be being written whenever the port is open.
WriteFails ==
  /\ port = "open" /\ ~healthy /\ Len(queue) < MaxLoops
  /\ queue' = Append(queue, "error")
  /\ UNCHANGED <<base, hunt, port, reads, waits, world>>

\* read_interval is over.
ReadTimerExpires ==
  /\ waits > 0 /\ waits' = 0
  /\ queue' = queue \o [i \in 1..waits |-> "resume"]
  /\ UNCHANGED <<base, hunt, port, reads, world>>

\* The receiver falls ill, or gets well, at whatever rate.
SickWell ==
  /\ healthy' = ~healthy /\ heard' = 0
  /\ IF healthy THEN device_rate' = 1 ELSE device_rate' \in 1..Rates
  /\ UNCHANGED <<base, hunt, io, device>>

\* read_interval is short against a tick.
Tick ==
  /\ AutobaudQuiet /\ queue = <<>> /\ waits = 0
  /\ healthy /\ port = "open" => heard = autobaud_rate
  /\ heard' = 0
  /\ ElapseAll /\ autobaud_timer' = Elapse(autobaud_timer)
  /\ UNCHANGED <<autobauding, autobaud_rate, autobaud_interval,
                 good_messages_count, bad_bytes_count, io, device, device_rate, healthy>>

QueueHandlers ==
  \/ \E c \in SerialChunk : ReadHandler(c)
  \/ RestartHandler \/ ErrorHandler \/ ResumeHandler

Next ==
  \/ QueueHandlers
  \/ ReconnectHandler \/ AutobaudHandler \/ AutodetectHandler \/ LivenessHandler
  \/ ReadArrives \/ ReadFails \/ WriteFails \/ ReadTimerExpires
  \/ SickWell \/ Tick

\* The io_service runs what is queued, timers expire, a receiver that is
\* there is heard, time passes.
Fairness ==
  /\ WF_vars(QueueHandlers) /\ WF_vars(ReconnectHandler) /\ WF_vars(AutobaudHandler)
  /\ WF_vars(AutodetectHandler) /\ WF_vars(LivenessHandler)
  /\ WF_vars(ReadArrives) /\ WF_vars(ReadTimerExpires) /\ WF_vars(Tick)

Spec == Init /\ [][Next]_vars /\ Fairness

-----------------------------------------------------------------------------
(* Properties                                                              *)

\* Something will always read again: whatever cancels a read or a wait
\* (start_reading, port.cancel, disconnect, handle_error), a read loop is
\* left, or an error that will be handled, or a reconnection is due.
WayForward ==
  Pending(reconnect_timer) \/ (port = "open" /\ reads + waits > 0) \/ queue # <<>>

\* A handler of autobaud_timer that was queued when the rate was accepted
\* (saw_good_message), or is still armed by a reconnection, does not take the
\* rate back: only noise read, or an error that closes the port, does.
RateKept ==
  [][~autobauding /\ autobaud_rate' # autobaud_rate =>
       Take("noise") \/ port' = "closed"]_vars

\* Unless the rate is fixed, once the receiver stays well its rate is found and
\* kept, even if it sends so little that the first rounds of the hunt are too
\* short for enough messages, whatever was accepted wrongly before, and although the
\* liveness timer interrupts a hunt that stays at a wrong rate for longer than it
\* runs.
RateFound ==
  ~FixedBaud /\ <>[]healthy =>
    <>[](port = "open" /\ ~autobauding /\ autobaud_rate = device_rate)
=============================================================================
