------------------------- MODULE SerialInputProofs -------------------------
(***************************************************************************)
(* For all intervals, numbers of rates and numbers of read loops:          *)
(* SerialInput never stops reading for good, and a rate it has accepted is *)
(* given up only for noise or an error.                                    *)
(*                                                                         *)
(* WayForward is not inductive: the last handler in the queue may be that  *)
(* of a read of a port that has been closed since, which leaves nothing    *)
(* but a wait for read_timer.  The invariant adds that a closed port is    *)
(* always about to be opened again.                                        *)
(***************************************************************************)
EXTENDS SerialInput, SequenceTheorems, TLAPS

\* Whoever closes the port calls connection_failed, and no one cancels the
\* reconnect timer.
ClosedReconnects == port = "closed" => Pending(reconnect_timer)

Inv == TypeOK /\ WayForward /\ ClosedReconnects

-----------------------------------------------------------------------------
(* Timers *)

LEMMA TimerFields ==
  ASSUME NEW d \in Nat, NEW t \in Timer(d)
  PROVE  t.left \in 0..d /\ t.queued \in BOOLEAN
BY DEF Timer

LEMMA ArmType ==
  ASSUME NEW d \in Nat, NEW t \in Timer(d), NEW n \in 0..d
  PROVE  Arm(t, n) \in Timer(d)
BY DEF Timer, Arm

LEMMA ArmPending ==
  ASSUME NEW d \in Nat, NEW t \in Timer(d), NEW n \in 1..d
  PROVE  Pending(Arm(t, n))
<1>1. Arm(t, n).left = n
  BY DEF Timer, Arm
<1> QED
  BY <1>1 DEF Pending

LEMMA CancelType ==
  ASSUME NEW d \in Nat, NEW t \in Timer(d)
  PROVE  Cancel(t) \in Timer(d)
BY DEF Timer, Cancel

LEMMA TakenType ==
  ASSUME NEW d \in Nat, NEW t \in Timer(d)
  PROVE  Taken(t) \in Timer(d)
BY DEF Timer, Taken

LEMMA ElapseType ==
  ASSUME NEW d \in Nat, NEW t \in Timer(d)
  PROVE  Elapse(t) \in Timer(d)
BY DEF Timer, Elapse

LEMMA IdleType ==
  ASSUME NEW d \in Nat
  PROVE  Idle \in Timer(d)
BY DEF Timer, Idle

\* A wait that is over is queued.
LEMMA ElapsePending ==
  ASSUME NEW d \in Nat, NEW t \in Timer(d), Pending(t)
  PROVE  Pending(Elapse(t))
<1>1. t.left \in Nat
  BY TimerFields
<1>2. /\ Elapse(t).left = IF t.left = 0 THEN 0 ELSE t.left - 1
      /\ Elapse(t).queued = (t.queued \/ t.left = 1)
  BY DEF Elapse
<1>3. CASE t.queued \/ t.left = 1
  BY <1>2, <1>3, Zenon DEF Pending
<1>4. CASE ~t.queued /\ t.left # 1
  <2>1. t.left > 1
    BY <1>1, <1>4 DEF Pending
  <2>2. Elapse(t).left > 0
    BY <1>1, <1>2, <2>1
  <2> QED
    BY <2>2 DEF Pending
<1> QED
  BY <1>3, <1>4

-----------------------------------------------------------------------------
(* What the handlers are made of *)

Queued == SerialChunk \cup {"error", "resume"}

\* The types, in the parts the actions change.
HuntTypeOK ==
  /\ autobauding \in BOOLEAN /\ autobaud_rate \in 1..Rates
  /\ autobaud_interval \in autobaud_base_interval..autobaud_max_interval
  /\ autobaud_timer \in Timer(autobaud_max_interval)
  /\ good_messages_count \in 0..autobaud_good_messages
  /\ bad_bytes_count \in 0..(autobaud_restart_chunks + 1)

IoTypeOK ==
  /\ port \in {"open", "closed"}
  /\ reads \in Nat /\ waits \in Nat /\ queue \in Seq(Queued)

WorldTypeOK ==
  /\ device \in {"beast", "radarcape"} /\ device_rate \in 1..Rates
  /\ healthy \in BOOLEAN /\ heard \in 0..Rates

LEMMA TypeParts == TypeOK <=> BaseTypeOK /\ HuntTypeOK /\ IoTypeOK /\ WorldTypeOK
BY DEF TypeOK, HuntTypeOK, IoTypeOK, WorldTypeOK, Queued

LEMMA TypePartsNext == TypeOK' <=> BaseTypeOK' /\ HuntTypeOK' /\ IoTypeOK' /\ WorldTypeOK'
BY DEF TypeOK, HuntTypeOK, IoTypeOK, WorldTypeOK, Queued

\* The intervals.
LEMMA Intervals ==
  /\ radarcape_detect_interval \in Nat /\ radarcape_liveness_interval \in Nat
  /\ reconnect_interval \in Nat /\ reconnect_interval > 0
  /\ autobaud_base_interval \in Nat /\ autobaud_max_interval \in Nat
  /\ autobaud_base_interval <= autobaud_max_interval
BY BeastInputAssumption, SerialInputAssumption

LEMMA QueueTake ==
  ASSUME IoTypeOK, queue # <<>>
  PROVE  Tail(queue) \in Seq(Queued)
BY HeadTailProperties DEF IoTypeOK

LEMMA QueueAppend ==
  ASSUME NEW q \in Seq(Queued), NEW x \in Queued
  PROVE  Append(q, x) \in Seq(Queued) /\ Append(q, x) # <<>>
BY AppendProperties

\* connection_failed.
LEMMA FailedBase ==
  ASSUME BaseTypeOK, NEW t \in Timer(reconnect_interval), connection_failed(t),
         liveness_timer' \in Timer(radarcape_liveness_interval)
  PROVE  BaseTypeOK' /\ Pending(reconnect_timer')
<1>1. reconnect_timer' \in Timer(reconnect_interval) /\ Pending(reconnect_timer')
  BY Intervals, ArmType, ArmPending DEF connection_failed
<1>2. autodetect_timer' \in Timer(radarcape_detect_interval)
  BY Intervals, CancelType DEF connection_failed, BaseTypeOK
<1> QED
  BY <1>1, <1>2 DEF connection_failed, BaseTypeOK

\* connection_established.
LEMMA EstablishedBase ==
  ASSUME BaseTypeOK, connection_established, reconnect_timer' \in Timer(reconnect_interval)
  PROVE  BaseTypeOK'
<1>1. autodetect_timer' \in Timer(radarcape_detect_interval)
  BY Intervals, CancelType, ArmType DEF connection_established, BaseTypeOK
<1>2. receiver_type' \in ReceiverType
  BY BeastInputAssumption DEF connection_established, ReceiverType
<1> QED
  BY <1>1, <1>2 DEF connection_established, BaseTypeOK

\* The counters' types.
CountersTypeOK ==
  /\ good_messages_count \in 0..autobaud_good_messages
  /\ bad_bytes_count \in 0..(autobaud_restart_chunks + 1)

\* handle_error.
LEMMA ErrorBase ==
  ASSUME BaseTypeOK, HuntTypeOK, NEW a \in Timer(autobaud_max_interval),
         NEW t \in Timer(reconnect_interval), handle_error(a, t), autobauding' \in BOOLEAN,
         CountersTypeOK'
  PROVE  BaseTypeOK' /\ HuntTypeOK' /\ Pending(reconnect_timer') /\ port' = "closed"
<1>1. BaseTypeOK' /\ Pending(reconnect_timer')
  <2>1. liveness_timer' \in Timer(radarcape_liveness_interval)
    BY DEF handle_error, BaseTypeOK
  <2> QED
    BY <2>1, FailedBase DEF handle_error
<1>2. autobaud_timer' \in Timer(autobaud_max_interval) /\ port' = "closed"
  BY Intervals, CancelType DEF handle_error, ClosePort
<1>3. /\ autobaud_rate' \in 1..Rates
      /\ autobaud_interval' \in autobaud_base_interval..autobaud_max_interval
  BY Intervals, SerialInputAssumption DEF handle_error, HuntTypeOK
<1> QED
  BY <1>1, <1>2, <1>3 DEF HuntTypeOK, CountersTypeOK

\* try_to_connect: the port is open, or a reconnection is due.
LEMMA TryBase ==
  ASSUME BaseTypeOK, HuntTypeOK, NEW a \in Timer(autobaud_max_interval),
         NEW t \in Timer(reconnect_interval), NEW r \in 1..Rates,
         NEW i \in autobaud_base_interval..autobaud_max_interval,
         try_to_connect(r, i, a, t), autobauding' \in BOOLEAN,
         NEW g \in 0..autobaud_good_messages, NEW b \in 0..(autobaud_restart_chunks + 1),
         Counters(g, b)
  PROVE  /\ BaseTypeOK' /\ HuntTypeOK' /\ port' \in {"open", "closed"}
         /\ port' = "closed" => Pending(reconnect_timer')
<1>0. CountersTypeOK'
  BY SerialInputAssumption DEF Counters, CountersTypeOK
<1>1. CASE handle_error(a, t)
  BY <1>0, <1>1, ErrorBase
<1>2. CASE /\ port' = "open"
           /\ autobaud_rate' = r /\ autobaud_interval' = i
           /\ autobaud_timer' = IF ~FixedBaud /\ Rates > 1 THEN Arm(a, i) ELSE a
           /\ connection_established /\ reconnect_timer' = t
  <2>1. BaseTypeOK'
    BY <1>2, EstablishedBase
  <2>2. i \in 0..autobaud_max_interval
    BY Intervals
  <2>3. autobaud_timer' \in Timer(autobaud_max_interval)
    BY <1>2, <2>2, Intervals, ArmType
  <2> QED
    BY <1>0, <1>2, <2>1, <2>3 DEF HuntTypeOK, CountersTypeOK
<1> QED
  BY <1>1, <1>2 DEF try_to_connect

\* advance_autobaud's next rate and interval.
LEMMA NextType ==
  ASSUME HuntTypeOK
  PROVE  /\ NextRate \in 1..Rates
         /\ NextInterval \in autobaud_base_interval..autobaud_max_interval
BY SerialInputAssumption DEF HuntTypeOK, NextRate, NextInterval

\* parse_input's part.
LEMMA ParseBase ==
  ASSUME BaseTypeOK, NEW c, ParseInput(c)
  PROVE  BaseTypeOK' /\ UNCHANGED reconnect_timer
<1>1. /\ autodetect_timer' \in Timer(radarcape_detect_interval)
      /\ liveness_timer' \in Timer(radarcape_liveness_interval)
  BY Intervals, CancelType, ArmType DEF ParseInput, BaseTypeOK
<1>2. receiver_type' \in ReceiverType /\ status_seen' \in BOOLEAN
  BY DEF ParseInput, BaseTypeOK, ReceiverType
<1>3. good_sync' \in BOOLEAN
  BY DEF ParseInput
<1> QED
  BY <1>1, <1>2, <1>3 DEF ParseInput, BaseTypeOK

LEMMA CountTypes ==
  ASSUME HuntTypeOK, NEW c
  PROVE  /\ Good(c) \in 0..autobaud_good_messages
         /\ Bad(c) \in 0..(autobaud_restart_chunks + 1)
<1>1. Bad(c) \in 0..(autobaud_restart_chunks + 1)
  BY SerialInputAssumption DEF HuntTypeOK, Bad
<1>2. Good(c) \in 0..autobaud_good_messages
  <2>1. CASE c = "noise"
    BY <2>1, SerialInputAssumption DEF Good
  <2>2. CASE c # "noise" /\ (c = "burst" \/ good_messages_count = autobaud_good_messages)
    BY <2>2, SerialInputAssumption DEF Good
  <2>3. CASE c # "noise" /\ ~(c = "burst" \/ good_messages_count = autobaud_good_messages)
    BY <2>3, SerialInputAssumption DEF Good, HuntTypeOK
  <2> QED
    BY <2>1, <2>2, <2>3
<1> QED
  BY <1>1, <1>2

-----------------------------------------------------------------------------
(* The invariant *)

LEMMA InitInv == Init => Inv
<1> SUFFICES ASSUME Init PROVE Inv
  OBVIOUS
<1> USE DEF Init
<1>1. /\ autodetect_timer \in Timer(radarcape_detect_interval)
      /\ liveness_timer \in Timer(radarcape_liveness_interval)
      /\ autobaud_timer \in Timer(autobaud_max_interval)
  BY Intervals, IdleType
<1>2. reconnect_timer \in Timer(reconnect_interval) /\ Pending(reconnect_timer)
  BY Intervals DEF Timer, Pending
<1>3. BaseTypeOK
  BY <1>1, <1>2 DEF BaseTypeOK, ReceiverType
<1>4. HuntTypeOK /\ WorldTypeOK
  BY <1>1, Intervals, SerialInputAssumption DEF HuntTypeOK, WorldTypeOK
<1>5. IoTypeOK
  BY EmptySeq DEF IoTypeOK
<1> QED
  BY <1>2, <1>3, <1>4, <1>5, TypeParts DEF Inv, WayForward, ClosedReconnects

\* The handlers that open the port anew.
LEMMA ConnectInv ==
  ASSUME Inv, ReconnectHandler \/ AutobaudHandler
  PROVE  Inv'
<1>0. BaseTypeOK /\ HuntTypeOK /\ IoTypeOK /\ WorldTypeOK
  BY TypeParts DEF Inv
<1>1. UNCHANGED <<queue, world>>
  BY DEF ReconnectHandler, AutobaudHandler
<1>2. ASSUME BaseTypeOK', HuntTypeOK', port' \in {"open", "closed"},
             port' = "closed" => Pending(reconnect_timer'), OneRead
      PROVE  Inv'
  <2>1. IoTypeOK' /\ WorldTypeOK'
    BY <1>0, <1>1, <1>2 DEF IoTypeOK, WorldTypeOK, OneRead, world
  <2>2. WayForward' /\ ClosedReconnects'
    BY <1>2 DEF WayForward, ClosedReconnects, OneRead
  <2> QED
    BY <1>2, <2>1, <2>2, TypePartsNext DEF Inv
<1>3. CASE ReconnectHandler
  <2>1. Taken(reconnect_timer) \in Timer(reconnect_interval)
    BY <1>0, Intervals, TakenType DEF BaseTypeOK
  <2>2. autobauding' \in BOOLEAN
    BY <1>3 DEF ReconnectHandler
  <2>3. /\ try_to_connect(autobaud_rate, autobaud_interval, autobaud_timer, Taken(reconnect_timer))
        /\ OneRead /\ Counters(good_messages_count, bad_bytes_count)
    BY <1>3 DEF ReconnectHandler
  <2>4. /\ autobaud_rate \in 1..Rates /\ autobaud_timer \in Timer(autobaud_max_interval)
        /\ autobaud_interval \in autobaud_base_interval..autobaud_max_interval
        /\ good_messages_count \in 0..autobaud_good_messages
        /\ bad_bytes_count \in 0..(autobaud_restart_chunks + 1)
    BY <1>0 DEF HuntTypeOK
  <2>5. /\ BaseTypeOK' /\ HuntTypeOK' /\ port' \in {"open", "closed"}
        /\ port' = "closed" => Pending(reconnect_timer')
    BY <1>0, <2>1, <2>2, <2>3, <2>4, TryBase
  <2> QED
    BY <1>2, <2>3, <2>5
<1>4. CASE AutobaudHandler /\ autobauding
  <2>1. /\ Taken(autobaud_timer) \in Timer(autobaud_max_interval)
        /\ reconnect_timer \in Timer(reconnect_interval)
        /\ good_messages_count \in 0..autobaud_good_messages
        /\ bad_bytes_count \in 0..(autobaud_restart_chunks + 1)
    BY <1>0, Intervals, TakenType DEF BaseTypeOK, HuntTypeOK
  <2>2. /\ try_to_connect(NextRate, NextInterval, Taken(autobaud_timer), reconnect_timer)
        /\ OneRead /\ Counters(good_messages_count, bad_bytes_count) /\ autobauding' = TRUE
    BY <1>4 DEF AutobaudHandler
  <2>3. /\ BaseTypeOK' /\ HuntTypeOK' /\ port' \in {"open", "closed"}
        /\ port' = "closed" => Pending(reconnect_timer')
    BY <1>0, <2>1, <2>2, NextType, TryBase
  <2> QED
    BY <1>2, <2>2, <2>3
<1>5. CASE AutobaudHandler /\ ~autobauding
  <2>1. /\ autobaud_timer' = Taken(autobaud_timer)
        /\ UNCHANGED <<base, autobauding, autobaud_rate, autobaud_interval,
                       good_messages_count, bad_bytes_count, port, reads, waits, queue, world>>
    BY <1>5 DEF AutobaudHandler
  <2>2. HuntTypeOK'
    BY <1>0, <2>1, Intervals, TakenType DEF HuntTypeOK
  <2>3. BaseTypeOK' /\ IoTypeOK' /\ WorldTypeOK'
    BY <1>0, <2>1 DEF BaseTypeOK, IoTypeOK, WorldTypeOK, base, timers, world
  <2>4. WayForward' /\ ClosedReconnects'
    BY <2>1 DEF Inv, WayForward, ClosedReconnects, base, timers
  <2> QED
    BY <2>2, <2>3, <2>4, TypePartsNext DEF Inv
<1> QED
  BY <1>3, <1>4, <1>5

\* start_reading and a wait for read_timer, after a handler has been taken.
LEMMA LoopGoesOn ==
  ASSUME IoTypeOK, ClosedReconnects, NEW q \in Seq(Queued),
         UNCHANGED <<port, reconnect_timer>>,
         \/ waits' = waits + 1 /\ queue' = q /\ UNCHANGED reads
         \/ start_reading(q)
  PROVE  IoTypeOK' /\ WayForward' /\ ClosedReconnects'
<1>1. ClosedReconnects'
  BY DEF ClosedReconnects
<1>2. CASE waits' = waits + 1 /\ queue' = q /\ UNCHANGED reads
  BY <1>1, <1>2 DEF IoTypeOK, WayForward, ClosedReconnects
<1>3. CASE start_reading(q) /\ port = "open"
  BY <1>1, <1>3 DEF IoTypeOK, WayForward, start_reading
<1>4. CASE start_reading(q) /\ port = "closed"
  <2>1. queue' \in Seq(Queued) /\ queue' # <<>>
    BY <1>4, QueueAppend DEF start_reading, Queued
  <2> QED
    BY <1>1, <1>4, <2>1 DEF IoTypeOK, WayForward, start_reading
<1> QED
  BY <1>2, <1>3, <1>4 DEF IoTypeOK

LEMMA ReadInv ==
  ASSUME Inv, NEW c \in SerialChunk, ReadHandler(c)
  PROVE  Inv'
<1> USE DEF ReadHandler
<1>0. BaseTypeOK /\ HuntTypeOK /\ IoTypeOK /\ WorldTypeOK
  BY TypeParts DEF Inv
<1>1. BaseTypeOK' /\ UNCHANGED reconnect_timer
  BY <1>0, ParseBase
<1>2. HuntTypeOK'
  <2>1. autobauding' \in BOOLEAN /\ autobaud_timer' \in Timer(autobaud_max_interval)
    BY <1>0, Intervals, CancelType DEF HuntTypeOK
  <2> QED
    BY <1>0, <2>1, CountTypes DEF HuntTypeOK
<1>3. Tail(queue) \in Seq(Queued)
  BY <1>0, QueueTake DEF Take
<1>4. IoTypeOK' /\ WayForward' /\ ClosedReconnects'
  BY <1>0, <1>1, <1>3, LoopGoesOn DEF Inv
<1>5. WorldTypeOK'
  BY <1>0 DEF WorldTypeOK, world
<1> QED
  BY <1>1, <1>2, <1>4, <1>5, TypePartsNext DEF Inv

LEMMA RestartInv ==
  ASSUME Inv, RestartHandler
  PROVE  Inv'
<1> USE DEF RestartHandler
<1>0. BaseTypeOK /\ HuntTypeOK /\ IoTypeOK /\ WorldTypeOK
  BY TypeParts DEF Inv
<1>1. autobaud_timer \in Timer(autobaud_max_interval) /\ reconnect_timer \in Timer(reconnect_interval)
  BY <1>0 DEF BaseTypeOK, HuntTypeOK
<1>2. /\ BaseTypeOK' /\ HuntTypeOK' /\ port' \in {"open", "closed"}
      /\ port' = "closed" => Pending(reconnect_timer')
  BY <1>0, <1>1, NextType, CountTypes, TryBase
<1>3. Tail(queue) \in Seq(Queued)
  BY <1>0, QueueTake DEF Take
<1>4. Append(Tail(queue), "error") \in Seq(Queued)
  BY <1>3, QueueAppend DEF Queued
<1>5. IoTypeOK'
  BY <1>2, <1>3, <1>4 DEF IoTypeOK
<1>6. WayForward' /\ ClosedReconnects'
  BY <1>2 DEF WayForward, ClosedReconnects
<1>7. WorldTypeOK'
  BY <1>0 DEF WorldTypeOK, world
<1> QED
  BY <1>2, <1>5, <1>6, <1>7, TypePartsNext DEF Inv

\* The handlers that close the port.
LEMMA CloseInv ==
  ASSUME Inv, ErrorHandler \/ LivenessHandler
  PROVE  Inv'
<1>0. BaseTypeOK /\ HuntTypeOK /\ IoTypeOK /\ WorldTypeOK
  BY TypeParts DEF Inv
<1>1. autobaud_timer \in Timer(autobaud_max_interval) /\ reconnect_timer \in Timer(reconnect_interval)
  BY <1>0 DEF BaseTypeOK, HuntTypeOK
<1>2. /\ BaseTypeOK' /\ HuntTypeOK' /\ Pending(reconnect_timer')
      /\ port' = "closed" /\ queue' \in Seq(Queued)
  <2>1. CASE ErrorHandler
    <3>1. handle_error(autobaud_timer, reconnect_timer) /\ queue' = Tail(queue) /\ queue # <<>>
      BY <2>1 DEF ErrorHandler, Take
    <3>2. autobauding' \in BOOLEAN
      BY <1>0, <3>1 DEF handle_error, HuntTypeOK
    <3>3. CountersTypeOK'
      BY <1>0, <2>1 DEF ErrorHandler, HuntTypeOK, CountersTypeOK
    <3> QED
      BY <1>0, <1>1, <3>1, <3>2, <3>3, ErrorBase, QueueTake
  <2>2. CASE LivenessHandler
    <3> USE <2>2 DEF LivenessHandler
    <3>1. liveness_timer' \in Timer(radarcape_liveness_interval)
      BY <1>0, Intervals, TakenType DEF BaseTypeOK
    <3>2. BaseTypeOK' /\ Pending(reconnect_timer')
      BY <1>0, <1>1, <3>1, FailedBase
    <3>3. autobaud_timer' \in Timer(autobaud_max_interval) /\ port' = "closed"
      BY <1>1, Intervals, CancelType DEF ClosePort
    <3> QED
      BY <1>0, <3>2, <3>3 DEF HuntTypeOK, IoTypeOK
  <2> QED
    BY <2>1, <2>2
<1>3. reads' = 0 /\ waits' = 0 /\ UNCHANGED world
  BY DEF ErrorHandler, LivenessHandler
<1>4. IoTypeOK' /\ WorldTypeOK'
  BY <1>0, <1>2, <1>3 DEF IoTypeOK, WorldTypeOK, world
<1>5. WayForward' /\ ClosedReconnects'
  BY <1>2 DEF WayForward, ClosedReconnects
<1> QED
  BY <1>2, <1>4, <1>5, TypePartsNext DEF Inv

\* The port's operations come to an end.
LEMMA PortInv ==
  ASSUME Inv, ResumeHandler \/ ReadArrives \/ ReadFails \/ WriteFails \/ ReadTimerExpires
  PROVE  Inv'
<1>0. BaseTypeOK /\ HuntTypeOK /\ IoTypeOK /\ WorldTypeOK
  BY TypeParts DEF Inv
<1>1. UNCHANGED <<base, hunt, port>>
  BY DEF ResumeHandler, ReadArrives, ReadFails, WriteFails, ReadTimerExpires
<1>2. BaseTypeOK' /\ HuntTypeOK' /\ reconnect_timer' = reconnect_timer
  BY <1>0, <1>1 DEF BaseTypeOK, HuntTypeOK, base, timers, hunt
<1>3. ClosedReconnects'
  BY <1>1, <1>2 DEF Inv, ClosedReconnects
<1>4. WorldTypeOK'
  <2>1. CASE ReadArrives
    <3>1. autobaud_rate \in 0..Rates
      BY <1>0, SerialInputAssumption DEF HuntTypeOK
    <3> QED
      BY <1>0, <2>1, <3>1, SerialInputAssumption DEF ReadArrives, WorldTypeOK
  <2> QED
    BY <1>0, <2>1 DEF ResumeHandler, ReadFails, WriteFails, ReadTimerExpires, WorldTypeOK, world
<1>5. CASE ResumeHandler
  <2>1. Tail(queue) \in Seq(Queued)
    BY <1>0, <1>5, QueueTake DEF ResumeHandler, Take
  <2>2. IoTypeOK' /\ WayForward'
    BY <1>0, <1>1, <1>2, <1>5, <2>1, LoopGoesOn DEF Inv, ResumeHandler
  <2> QED
    BY <1>2, <1>3, <1>4, <2>2, TypePartsNext DEF Inv
<1>6. CASE ReadArrives \/ ReadFails \/ WriteFails
  <2>1. \E x \in Queued : queue' = Append(queue, x)
    BY <1>6 DEF ReadArrives, ReadFails, WriteFails, Sent, Queued, SerialChunk, Chunk
  <2>2. queue' \in Seq(Queued) /\ queue' # <<>>
    BY <1>0, <2>1, QueueAppend DEF IoTypeOK
  <2>3. reads' \in Nat /\ waits' \in Nat
    BY <1>0, <1>6 DEF ReadArrives, ReadFails, WriteFails, IoTypeOK
  <2>4. IoTypeOK' /\ WayForward'
    BY <1>0, <1>1, <2>2, <2>3 DEF IoTypeOK, WayForward
  <2> QED
    BY <1>2, <1>3, <1>4, <2>4, TypePartsNext DEF Inv
<1>7. CASE ReadTimerExpires
  <2> DEFINE r == [i \in 1..waits |-> "resume"]
  <2>1. waits \in Nat /\ waits > 0 /\ queue \in Seq(Queued)
    BY <1>0, <1>7 DEF ReadTimerExpires, IoTypeOK
  <2>2. r \in Seq(Queued) /\ Len(r) = waits
    BY <2>1 DEF Queued
  <2>3. queue' = queue \o r
    BY <1>7 DEF ReadTimerExpires
  <2> HIDE DEF r
  <2>4. queue' \in Seq(Queued) /\ Len(queue') = Len(queue) + waits
    BY <2>1, <2>2, <2>3, ConcatProperties
  <2>5. queue' # <<>>
    BY <2>1, <2>4, EmptySeq, LenProperties
  <2>6. IoTypeOK' /\ WayForward'
    BY <1>0, <1>1, <1>7, <2>4, <2>5 DEF IoTypeOK, WayForward, ReadTimerExpires
  <2> QED
    BY <1>2, <1>3, <1>4, <2>6, TypePartsNext DEF Inv
<1> QED
  BY <1>5, <1>6, <1>7

LEMMA TickInv ==
  ASSUME Inv, Tick
  PROVE  Inv'
<1> USE DEF Tick, ElapseAll
<1>0. BaseTypeOK /\ HuntTypeOK /\ IoTypeOK /\ WorldTypeOK
  BY TypeParts DEF Inv
<1>1. BaseTypeOK'
  BY <1>0, Intervals, ElapseType DEF BaseTypeOK
<1>2. HuntTypeOK'
  BY <1>0, Intervals, ElapseType DEF HuntTypeOK
<1>3. IoTypeOK' /\ WorldTypeOK'
  BY <1>0, SerialInputAssumption DEF IoTypeOK, WorldTypeOK, io
<1>4. Pending(reconnect_timer) => Pending(reconnect_timer')
  BY <1>0, Intervals, ElapsePending DEF BaseTypeOK
<1>5. WayForward' /\ ClosedReconnects'
  BY <1>4 DEF Inv, WayForward, ClosedReconnects, io
<1> QED
  BY <1>1, <1>2, <1>3, <1>5, TypePartsNext DEF Inv

LEMMA NextInv == Inv /\ [Next]_vars => Inv'
<1> SUFFICES ASSUME Inv, [Next]_vars PROVE Inv'
  OBVIOUS
<1>0. BaseTypeOK /\ HuntTypeOK /\ IoTypeOK /\ WorldTypeOK
  BY TypeParts DEF Inv
<1>1. CASE QueueHandlers
  BY <1>1, ReadInv, RestartInv, CloseInv, PortInv DEF QueueHandlers
<1>2. CASE ReconnectHandler \/ AutobaudHandler
  BY <1>2, ConnectInv
<1>3. CASE LivenessHandler
  BY <1>3, CloseInv
<1>4. CASE AutodetectHandler
  <2> USE <1>4 DEF AutodetectHandler, AutodetectTimeout
  <2>1. BaseTypeOK'
    BY <1>0, Intervals, TakenType DEF BaseTypeOK, ReceiverType
  <2>2. HuntTypeOK' /\ IoTypeOK' /\ WorldTypeOK'
    BY <1>0 DEF HuntTypeOK, IoTypeOK, WorldTypeOK, hunt, io, world
  <2>3. WayForward' /\ ClosedReconnects'
    BY DEF Inv, WayForward, ClosedReconnects, io
  <2> QED
    BY <2>1, <2>2, <2>3, TypePartsNext DEF Inv
<1>5. CASE ReadArrives \/ ReadFails \/ WriteFails \/ ReadTimerExpires
  BY <1>5, PortInv
<1>6. CASE SickWell \/ UNCHANGED vars
  <2>1. UNCHANGED <<base, hunt, io>>
    BY <1>6 DEF SickWell, vars
  <2>2. BaseTypeOK' /\ HuntTypeOK' /\ IoTypeOK' /\ WayForward' /\ ClosedReconnects'
    BY <1>0, <2>1
    DEF Inv, BaseTypeOK, HuntTypeOK, IoTypeOK, WayForward, ClosedReconnects, base, timers, hunt, io
  <2>3. WorldTypeOK'
    <3>1. CASE SickWell
      <4>1. 1 \in 1..Rates /\ 0 \in 0..Rates
        BY SerialInputAssumption
      <4>2. device_rate' \in 1..Rates /\ heard' \in 0..Rates
        BY <3>1, <4>1 DEF SickWell
      <4>3. healthy' \in BOOLEAN /\ device' = device
        BY <3>1 DEF SickWell
      <4> QED
        BY <1>0, <4>2, <4>3 DEF WorldTypeOK
    <3>2. CASE UNCHANGED vars
      BY <1>0, <3>2 DEF vars, WorldTypeOK, world
    <3> QED
      BY <1>6, <3>1, <3>2
  <2> QED
    BY <2>2, <2>3, TypePartsNext DEF Inv
<1>7. CASE Tick
  BY <1>7, TickInv
<1> QED
  BY <1>1, <1>2, <1>3, <1>4, <1>5, <1>6, <1>7 DEF Next

-----------------------------------------------------------------------------

\* The invariant: a read loop, an error or a reconnection is on its way, and on
\* a closed port it is a reconnection.
THEOREM Invariance == Spec => []Inv
BY InitInv, NextInv, PTL DEF Spec

\* The hunt's rate and interval stay in range, whatever restarts it.
THEOREM TypeCorrect == Spec => []TypeOK
<1>1. Inv => TypeOK
  BY DEF Inv
<1> QED
  BY <1>1, Invariance, PTL

\* Whatever cancels a read or a wait, something is left that will read again
\* (WayForward): the input cannot fall silent for good.
THEOREM WayForwardHolds == Spec => []WayForward
<1>1. Inv => WayForward
  BY DEF Inv
<1> QED
  BY <1>1, Invariance, PTL

\* An accepted rate is given up only for noise or an error (RateKept), not by a
\* late handler of autobaud_timer.
THEOREM RateKeptHolds == Spec => RateKept
<1>1. ASSUME [Next]_vars, ~autobauding, autobaud_rate' # autobaud_rate
      PROVE  Take("noise") \/ port' = "closed"
  <2>1. CASE QueueHandlers
    <3>1. CASE RestartHandler
      BY <3>1 DEF RestartHandler
    <3>2. CASE ErrorHandler
      BY <3>2 DEF ErrorHandler, handle_error, ClosePort
    <3>3. CASE ResumeHandler \/ \E c \in SerialChunk : ReadHandler(c)
      BY <1>1, <3>3 DEF ResumeHandler, ReadHandler, hunt
    <3> QED
      BY <2>1, <3>1, <3>2, <3>3 DEF QueueHandlers
  <2>2. CASE ReconnectHandler
    BY <1>1, <2>2 DEF ReconnectHandler, try_to_connect, handle_error, ClosePort
  <2>3. CASE AutobaudHandler \/ AutodetectHandler \/ LivenessHandler
    BY <1>1, <2>3 DEF AutobaudHandler, AutodetectHandler, LivenessHandler, hunt
  <2>4. CASE ReadArrives \/ ReadFails \/ WriteFails \/ ReadTimerExpires
    BY <1>1, <2>4 DEF ReadArrives, ReadFails, WriteFails, ReadTimerExpires, hunt
  <2>5. CASE SickWell \/ Tick \/ UNCHANGED vars
    BY <1>1, <2>5 DEF SickWell, Tick, vars, hunt
  <2> QED
    BY <1>1, <2>1, <2>2, <2>3, <2>4, <2>5 DEF Next
<1>2. [Next]_vars => [~autobauding /\ autobaud_rate' # autobaud_rate =>
                       Take("noise") \/ port' = "closed"]_vars
  BY <1>1
<1> QED
  BY <1>2, PTL DEF Spec, RateKept
=============================================================================
