-------------------------- MODULE NetInputProofs --------------------------
(***************************************************************************)
(* For all intervals, numbers of addresses and numbers of changes of the   *)
(* filter: until two attempts have come to share the socket (crossed),     *)
(* NetInput does one thing at a time, and its liveness timer takes down    *)
(* only the connection it watches.                                         *)
(*                                                                         *)
(* Neither property is inductive, as neither says anything of the handlers *)
(* that are queued.  The invariant adds which handlers may be queued in    *)
(* each state of the socket, that those of a closed one run before any     *)
(* time passes, and that the wait for the next attempt outlasts the        *)
(* liveness timer of the last connection.                                  *)
(***************************************************************************)
EXTENDS NetInput, SequenceTheorems, TLAPS

\* q holds handlers of S only, and h at most once.
Only(q, S) == \A i \in 1..Len(q) : q[i] \in S
Once(q, h) == \A i, j \in 1..Len(q) : q[i] = h /\ q[j] = h => i = j

LivenessQuiet == liveness_timer.left = 0 /\ ~liveness_timer.queued

\* The liveness timer runs for a connection that has sent its status, or for
\* one that is lost, while the next attempt is waited for.
LivenessOwned ==
  \/ LivenessQuiet
  \/ socket = "connected" /\ status_seen
  \/ socket = "closed" /\ Pending(reconnect_timer)

\* The wait for the next attempt ends after the liveness timer has run out and
\* all handlers of the last connection have run.
ReconnectLast ==
  /\ reconnect_timer.left > 0 => liveness_timer.left < reconnect_timer.left
  /\ reconnect_timer.queued => reconnect_timer.left = 0 /\ LivenessQuiet /\ queue = <<>>

\* A connection whose connect handler may not have run: nothing has been read.
Fresh ==
  /\ Only(queue, {"write_error", "connected"}) /\ Once(queue, "connected")
  /\ reads = 0 /\ LivenessQuiet

\* The handlers that may be queued.  Those of a closed socket are there only
\* while no time has passed since connection_failed.
QueueExplained ==
  /\ socket = "connecting" => Only(queue, {"write_error"})
  /\ socket = "failed" => Only(queue, {"write_error", "refused"}) /\ Once(queue, "refused")
  /\ socket = "connected" => Fresh \/ Only(queue, {"write_error", "read_error"} \cup Chunk)
  /\ socket # "connected" => reads = 0
  /\ socket = "closed" /\ queue # <<>> => reconnect_timer.left = reconnect_interval

\* OneAttempt, without the sum.
OneThing ==
  \/ resolving = 1 /\ socket = "closed" /\ ~Pending(reconnect_timer)
  \/ resolving = 0 /\ socket # "closed" /\ ~Pending(reconnect_timer)
  \/ resolving = 0 /\ socket = "closed" /\ Pending(reconnect_timer)

Alone == OneThing /\ LivenessOwned /\ ReconnectLast /\ QueueExplained

Inv == TypeOK /\ (~crossed => Alone)

-----------------------------------------------------------------------------
(* Timers *)

LEMMA TimerFields ==
  ASSUME NEW d \in Nat, NEW t \in Timer(d)
  PROVE  t.left \in 0..d /\ t.queued \in BOOLEAN
BY DEF Timer

LEMMA ArmFields ==
  ASSUME NEW d \in Nat, NEW t \in Timer(d), NEW n \in 0..d
  PROVE  Arm(t, n) \in Timer(d) /\ Arm(t, n).left = n /\ Arm(t, n).queued = t.queued
<1>1. Arm(t, n) \in Timer(d)
  BY DEF Timer, Arm
<1>2. Arm(t, n).left = n /\ Arm(t, n).queued = t.queued
  BY DEF Timer, Arm
<1> QED
  BY <1>1, <1>2

LEMMA CancelType ==
  ASSUME NEW d \in Nat, NEW t \in Timer(d)
  PROVE  Cancel(t) \in Timer(d)
BY DEF Timer, Cancel

LEMMA TakenFields ==
  ASSUME NEW d \in Nat, NEW t \in Timer(d)
  PROVE  Taken(t) \in Timer(d) /\ Taken(t).left = t.left /\ Taken(t).queued = FALSE
<1>1. Taken(t) \in Timer(d)
  BY DEF Timer, Taken
<1>2. Taken(t).left = t.left /\ Taken(t).queued = FALSE
  BY DEF Timer, Taken
<1> QED
  BY <1>1, <1>2

\* One tick, for a timer whose handler is not queued.
LEMMA ElapseFields ==
  ASSUME NEW d \in Nat, NEW t \in Timer(d), ~t.queued
  PROVE  /\ Elapse(t) \in Timer(d)
         /\ Elapse(t).left = IF t.left = 0 THEN 0 ELSE t.left - 1
         /\ Elapse(t).queued <=> t.left = 1
<1>1. Elapse(t) \in Timer(d)
  BY DEF Timer, Elapse
<1>2. /\ Elapse(t).left = IF t.left = 0 THEN 0 ELSE t.left - 1
      /\ Elapse(t).queued = (t.queued \/ t.left = 1)
  BY DEF Elapse
<1>3. Elapse(t).queued <=> t.left = 1
  BY <1>2, Zenon
<1> QED
  BY <1>1, <1>2, <1>3

LEMMA IdleFields ==
  ASSUME NEW d \in Nat
  PROVE  Idle \in Timer(d) /\ Idle.left = 0 /\ Idle.queued = FALSE
BY DEF Timer, Idle

\* The intervals.
LEMMA Intervals ==
  /\ radarcape_detect_interval \in Nat /\ radarcape_liveness_interval \in Nat
  /\ reconnect_interval \in Nat /\ reconnect_interval > 0
  /\ radarcape_liveness_interval < reconnect_interval
BY BeastInputAssumption

-----------------------------------------------------------------------------
(* Queues *)

LEMMA OnlyTake ==
  ASSUME NEW q \in Seq(Handler), q # <<>>, NEW S, Only(q, S)
  PROVE  Tail(q) \in Seq(Handler) /\ Head(q) \in S /\ Only(Tail(q), S)
<1>1. /\ Tail(q) \in Seq(Handler) /\ Head(q) = q[1] /\ Len(q) \in Nat /\ Len(q) >= 1
      /\ Len(Tail(q)) = Len(q) - 1 /\ \A i \in 1..Len(Tail(q)) : Tail(q)[i] = q[i + 1]
  BY HeadTailProperties, EmptySeq, LenProperties
<1> QED
  BY <1>1 DEF Only

LEMMA OnlyAppend ==
  ASSUME NEW q \in Seq(Handler), NEW x \in Handler, NEW S, Only(q, S), x \in S
  PROVE  Append(q, x) \in Seq(Handler) /\ Only(Append(q, x), S)
<1>1. /\ Append(q, x) \in Seq(Handler) /\ Len(Append(q, x)) = Len(q) + 1 /\ Len(q) \in Nat
      /\ \A i \in 1..Len(q) : Append(q, x)[i] = q[i]
      /\ Append(q, x)[Len(q) + 1] = x
  BY AppendProperties, LenProperties
<1> QED
  BY <1>1 DEF Only

LEMMA OnlyMore ==
  ASSUME NEW q, NEW S, NEW T, Only(q, S), S \subseteq T
  PROVE  Only(q, T)
BY DEF Only

LEMMA OnlyEmpty ==
  ASSUME NEW S, NEW h
  PROVE  Only(<<>>, S) /\ Once(<<>>, h)
BY DEF Only, Once

\* The one h is added.
LEMMA OnceAdded ==
  ASSUME NEW q \in Seq(Handler), NEW h \in Handler, NEW S, Only(q, S), h \notin S
  PROVE  Once(Append(q, h), h)
<1>1. /\ Len(Append(q, h)) = Len(q) + 1 /\ Len(q) \in Nat
      /\ \A i \in 1..Len(q) : Append(q, h)[i] = q[i]
  BY AppendProperties, LenProperties
<1> QED
  BY <1>1 DEF Only, Once

LEMMA OnceAppend ==
  ASSUME NEW q \in Seq(Handler), NEW x \in Handler, NEW h, Once(q, h), x # h
  PROVE  Once(Append(q, x), h)
<1>1. /\ Len(Append(q, x)) = Len(q) + 1 /\ Len(q) \in Nat
      /\ \A i \in 1..Len(q) : Append(q, x)[i] = q[i]
      /\ Append(q, x)[Len(q) + 1] = x
  BY AppendProperties, LenProperties
<1> QED
  BY <1>1 DEF Once

LEMMA OnceTail ==
  ASSUME NEW q \in Seq(Handler), q # <<>>, NEW h, Once(q, h)
  PROVE  Once(Tail(q), h)
<1>1. /\ Len(q) \in Nat /\ Len(q) >= 1 /\ Len(Tail(q)) = Len(q) - 1
      /\ \A i \in 1..Len(Tail(q)) : Tail(q)[i] = q[i + 1]
  BY HeadTailProperties, EmptySeq, LenProperties
<1> QED
  BY <1>1 DEF Once

\* The one h is taken.
LEMMA OnceTaken ==
  ASSUME NEW q \in Seq(Handler), q # <<>>, NEW h, Once(q, h), Head(q) = h,
         NEW S, Only(q, S \cup {h})
  PROVE  Only(Tail(q), S)
<1>1. /\ Head(q) = q[1] /\ Len(q) \in Nat /\ Len(q) >= 1
      /\ Len(Tail(q)) = Len(q) - 1 /\ \A i \in 1..Len(Tail(q)) : Tail(q)[i] = q[i + 1]
  BY HeadTailProperties, EmptySeq, LenProperties
<1>2. ASSUME NEW i \in 1..Len(Tail(q)) PROVE Tail(q)[i] \in S
  <2>1. i + 1 \in 1..Len(q) /\ 1 \in 1..Len(q) /\ i + 1 # 1 /\ Tail(q)[i] = q[i + 1]
    BY <1>1
  <2>2. q[i + 1] # h
    BY <1>1, <2>1 DEF Once
  <2> QED
    BY <2>1, <2>2 DEF Only
<1> QED
  BY <1>2 DEF Only

LEMMA ConcatOne ==
  ASSUME NEW q \in Seq(Handler), NEW x \in Handler
  PROVE  q \o <<x>> = Append(q, x)
OBVIOUS

LEMMA ConcatTwo ==
  ASSUME NEW q \in Seq(Handler), NEW x \in Handler, NEW y \in Handler
  PROVE  q \o <<x, y>> = Append(Append(q, x), y)
OBVIOUS

-----------------------------------------------------------------------------
(* Types *)

\* The types of what is not in BeastInput.
NetTypeOK ==
  /\ resolving \in Nat /\ next_endpoint \in 0..Endpoints
  /\ socket \in {"closed", "connecting", "connected", "failed"}
  /\ reads \in Nat /\ writing \in BOOLEAN /\ queue \in Seq(Handler)
  /\ changes \in 0..Changes
  /\ peer \in {"beast", "radarcape"} /\ alive \in BOOLEAN /\ heard \in BOOLEAN
  /\ up \in BOOLEAN /\ crossed \in BOOLEAN

LEMMA TypeParts == TypeOK <=> BaseTypeOK /\ NetTypeOK
BY DEF TypeOK, NetTypeOK

LEMMA TypePartsNext == TypeOK' <=> BaseTypeOK' /\ NetTypeOK'
BY DEF TypeOK, NetTypeOK

\* connection_failed.
LEMMA FailedBase ==
  ASSUME BaseTypeOK, connection_failed(reconnect_timer),
         liveness_timer' \in Timer(radarcape_liveness_interval)
  PROVE  /\ BaseTypeOK'
         /\ reconnect_timer'.left = reconnect_interval
         /\ reconnect_timer'.queued = reconnect_timer.queued
<1>0. reconnect_interval \in 0..reconnect_interval /\ reconnect_interval \in Nat
  BY Intervals
<1>1. /\ reconnect_timer' \in Timer(reconnect_interval)
      /\ reconnect_timer'.left = reconnect_interval
      /\ reconnect_timer'.queued = reconnect_timer.queued
  BY <1>0, ArmFields DEF connection_failed, BaseTypeOK
<1>2. autodetect_timer' \in Timer(radarcape_detect_interval)
  BY Intervals, CancelType DEF connection_failed, BaseTypeOK
<1> QED
  BY <1>1, <1>2 DEF connection_failed, BaseTypeOK

\* connection_established.
LEMMA EstablishedBase ==
  ASSUME BaseTypeOK, connection_established, UNCHANGED reconnect_timer
  PROVE  BaseTypeOK'
<1>1. autodetect_timer' \in Timer(radarcape_detect_interval)
  BY Intervals, CancelType, ArmFields DEF connection_established, BaseTypeOK
<1>2. receiver_type' \in ReceiverType
  BY BeastInputAssumption DEF connection_established, ReceiverType
<1> QED
  BY <1>1, <1>2 DEF connection_established, BaseTypeOK

\* parse_input.
LEMMA ParseBase ==
  ASSUME BaseTypeOK, NEW c, ParseInput(c)
  PROVE  BaseTypeOK'
<1>1. /\ autodetect_timer' \in Timer(radarcape_detect_interval)
      /\ liveness_timer' \in Timer(radarcape_liveness_interval)
  BY Intervals, CancelType, ArmFields DEF ParseInput, BaseTypeOK
<1>2. receiver_type' \in ReceiverType /\ status_seen' \in BOOLEAN
  BY DEF ParseInput, BaseTypeOK, ReceiverType
<1>3. good_sync' \in BOOLEAN
  BY DEF ParseInput
<1> QED
  BY <1>1, <1>2, <1>3 DEF ParseInput, BaseTypeOK

LEMMA AutodetectBase ==
  ASSUME BaseTypeOK, AutodetectTimeout
  PROVE  BaseTypeOK'
BY Intervals, TakenFields DEF BaseTypeOK, AutodetectTimeout, ReceiverType

LEMMA BaseKept ==
  ASSUME BaseTypeOK, UNCHANGED base
  PROVE  BaseTypeOK'
BY DEF BaseTypeOK, base, timers

LEMMA QueueTake ==
  ASSUME NetTypeOK, queue # <<>>
  PROVE  Tail(queue) \in Seq(Handler) /\ Head(queue) \in Handler
BY HeadTailProperties DEF NetTypeOK

LEMMA QueueAppend ==
  ASSUME NEW q \in Seq(Handler), NEW x \in Handler
  PROVE  Append(q, x) \in Seq(Handler)
BY AppendProperties

\* low_level_write and start_reading.
LEMMA WriteType ==
  ASSUME NetTypeOK, NEW b, NEW q \in Seq(Handler), low_level_write(b, q)
  PROVE  writing' \in BOOLEAN /\ queue' \in Seq(Handler)
BY QueueAppend DEF low_level_write, Handler, NetTypeOK

LEMMA WriteReadType ==
  ASSUME NetTypeOK, NEW b, NEW q \in Seq(Handler), write_and_read(b, q)
  PROVE  writing' \in BOOLEAN /\ queue' \in Seq(Handler) /\ reads' \in Nat
<1>1. CASE socket = "connected"
  <2>1. low_level_write(b, q) /\ reads' = reads + 1
    BY <1>1 DEF write_and_read
  <2> QED
    BY <2>1, WriteType DEF NetTypeOK
<1>2. CASE socket # "connected"
  <2>1. low_level_write(b, Append(q, "read_error")) /\ reads' = reads
    BY <1>2 DEF write_and_read
  <2>2. Append(q, "read_error") \in Seq(Handler)
    BY QueueAppend DEF Handler
  <2> QED
    BY <2>1, <2>2, WriteType DEF NetTypeOK
<1> QED
  BY <1>1, <1>2

\* try_next_endpoint.
LEMMA TryType ==
  ASSUME BaseTypeOK, UNCHANGED liveness_timer, NEW n \in 0..Endpoints,
         NEW now \in {"closed", "connecting", "connected", "failed"},
         NEW q \in Seq(Handler), try_next_endpoint(n, now, q)
  PROVE  /\ BaseTypeOK' /\ next_endpoint' \in 0..Endpoints
         /\ socket' \in {"closed", "connecting", "connected", "failed"}
         /\ queue' \in Seq(Handler)
<1>1. liveness_timer' \in Timer(radarcape_liveness_interval)
  BY DEF BaseTypeOK
<1>2. CASE n = 0
  BY <1>1, <1>2, NetInputAssumption, FailedBase DEF try_next_endpoint
<1>3. CASE n # 0
  <2>1. BaseTypeOK'
    BY <1>3 DEF try_next_endpoint, BaseTypeOK
  <2>2. next_endpoint' \in 0..Endpoints
    BY <1>3, NetInputAssumption DEF try_next_endpoint
  <2>3. Append(q, "refused") \in Seq(Handler)
    BY QueueAppend DEF Handler
  <2> QED
    BY <1>3, <2>1, <2>2, <2>3 DEF try_next_endpoint
<1> QED
  BY <1>2, <1>3

LEMMA InitType == Init => TypeOK
<1> SUFFICES ASSUME Init PROVE TypeOK
  OBVIOUS
<1> USE DEF Init, BaseInit
<1>0. /\ autodetect_timer \in Timer(radarcape_detect_interval)
      /\ liveness_timer \in Timer(radarcape_liveness_interval)
      /\ reconnect_timer \in Timer(reconnect_interval)
  BY Intervals, IdleFields
<1>1. BaseTypeOK
  BY <1>0 DEF BaseTypeOK, ReceiverType
<1>2. 0 \in 0..Endpoints /\ 0 \in 0..Changes
  BY NetInputAssumption
<1>3. queue \in Seq(Handler)
  BY EmptySeq
<1>4. NetTypeOK
  BY <1>2, <1>3 DEF NetTypeOK
<1> QED
  BY <1>1, <1>4, TypeParts

LEMMA HandlerType ==
  ASSUME TypeOK, Handlers
  PROVE  TypeOK'
<1>0. BaseTypeOK /\ NetTypeOK
  BY TypeParts
<1>1. CASE ConnectedHandler
  <2> USE <1>1 DEF ConnectedHandler, Take
  <2>1. BaseTypeOK'
    BY <1>0, EstablishedBase
  <2>2. writing' \in BOOLEAN /\ queue' \in Seq(Handler) /\ reads' \in Nat
    BY <1>0, QueueTake, WriteReadType
  <2> QED
    BY <1>0, <2>1, <2>2, TypePartsNext DEF NetTypeOK, dialling, world
<1>2. CASE RefusedHandler
  <2> USE <1>2 DEF RefusedHandler, Take
  <2>1. next_endpoint \in 0..Endpoints /\ Tail(queue) \in Seq(Handler)
    BY <1>0, QueueTake DEF NetTypeOK
  <2>2. /\ BaseTypeOK' /\ next_endpoint' \in 0..Endpoints
        /\ socket' \in {"closed", "connecting", "connected", "failed"}
        /\ queue' \in Seq(Handler)
    BY <1>0, <2>1, TryType
  <2>3. crossed' \in BOOLEAN
    OBVIOUS
  <2> QED
    BY <1>0, <2>2, <2>3, TypePartsNext DEF NetTypeOK, world
<1>3. CASE ReadHandler
  <2>1. PICK c \in Chunk : /\ Take(c) /\ ParseInput(c)
                           /\ write_and_read(Resends(TypeAfter(c)), Tail(queue))
    BY <1>3 DEF ReadHandler
  <2>2. BaseTypeOK'
    BY <1>0, <2>1, ParseBase
  <2>3. writing' \in BOOLEAN /\ queue' \in Seq(Handler) /\ reads' \in Nat
    BY <1>0, <2>1, QueueTake, WriteReadType DEF Take
  <2> QED
    BY <1>0, <1>3, <2>2, <2>3, TypePartsNext DEF ReadHandler, NetTypeOK, dialling, world
<1>4. CASE ErrorHandler
  <2> USE <1>4 DEF ErrorHandler, Take, handle_error, disconnect
  <2>1. liveness_timer' \in Timer(radarcape_liveness_interval)
    BY <1>0 DEF BaseTypeOK
  <2>2. BaseTypeOK'
    BY <1>0, <2>1, FailedBase
  <2>3. queue' \in Seq(Handler)
    BY <1>0, QueueTake
  <2> QED
    BY <1>0, <2>2, <2>3, TypePartsNext DEF NetTypeOK, world
<1>5. CASE ResolveHandler
  <2>1. PICK n \in 0..Endpoints : try_next_endpoint(n, socket, queue)
    BY <1>5 DEF ResolveHandler
  <2>2. UNCHANGED <<liveness_timer, crossed, reads, writing, world, changes>>
        /\ resolving > 0 /\ resolving' = resolving - 1
    BY <1>5 DEF ResolveHandler
  <2>3. socket \in {"closed", "connecting", "connected", "failed"} /\ queue \in Seq(Handler)
    BY <1>0 DEF NetTypeOK
  <2>4. /\ BaseTypeOK' /\ next_endpoint' \in 0..Endpoints
        /\ socket' \in {"closed", "connecting", "connected", "failed"}
        /\ queue' \in Seq(Handler)
    BY <1>0, <2>1, <2>2, <2>3, TryType
  <2>5. resolving' \in Nat
    BY <1>0, <2>2 DEF NetTypeOK
  <2> QED
    BY <1>0, <2>2, <2>4, <2>5, TypePartsNext DEF NetTypeOK, world
<1>6. CASE AutodetectHandler
  <2> USE <1>6 DEF AutodetectHandler
  <2>1. BaseTypeOK'
    BY <1>0, AutodetectBase
  <2>2. queue \in Seq(Handler)
    BY <1>0 DEF NetTypeOK
  <2>3. writing' \in BOOLEAN /\ queue' \in Seq(Handler)
    BY <1>0, <2>2, WriteType
  <2> QED
    BY <1>0, <2>1, <2>3, TypePartsNext DEF NetTypeOK, dialling, world
<1>7. CASE LivenessHandler
  <2> USE <1>7 DEF LivenessHandler, disconnect
  <2>1. liveness_timer' \in Timer(radarcape_liveness_interval)
    BY <1>0, Intervals, TakenFields DEF BaseTypeOK
  <2>2. BaseTypeOK'
    BY <1>0, <2>1, FailedBase
  <2> QED
    BY <1>0, <2>2, TypePartsNext DEF NetTypeOK, world
<1>8. CASE ReconnectHandler
  <2> USE <1>8 DEF ReconnectHandler
  <2>1. BaseTypeOK'
    BY <1>0, Intervals, TakenFields DEF BaseTypeOK
  <2> QED
    BY <1>0, <2>1, TypePartsNext DEF NetTypeOK, io, world
<1> QED
  BY <1>1, <1>2, <1>3, <1>4, <1>5, <1>6, <1>7, <1>8 DEF Handlers, QueueHandlers

LEMMA NextType == TypeOK /\ [Next]_vars => TypeOK'
<1> SUFFICES ASSUME TypeOK, [Next]_vars PROVE TypeOK'
  OBVIOUS
<1>0. BaseTypeOK /\ NetTypeOK
  BY TypeParts
<1>1. CASE Handlers
  BY <1>1, HandlerType
<1>2. CASE SetFilter
  <2> USE <1>2 DEF SetFilter
  <2>1. queue \in Seq(Handler) /\ changes' \in 0..Changes
    BY <1>0, NetInputAssumption DEF NetTypeOK
  <2>2. writing' \in BOOLEAN /\ queue' \in Seq(Handler)
    BY <1>0, <2>1, WriteType
  <2> QED
    BY <1>0, <2>1, <2>2, BaseKept, TypePartsNext DEF NetTypeOK, dialling, world
<1>3. CASE ConnectSucceeds
  <2> USE <1>3 DEF ConnectSucceeds
  <2>1. queue' \in Seq(Handler)
    BY <1>0, QueueAppend DEF NetTypeOK, Handler
  <2> QED
    BY <1>0, <2>1, BaseKept, TypePartsNext DEF NetTypeOK
<1>4. CASE ConnectRefused
  <2> USE <1>4 DEF ConnectRefused
  <2>1. queue' \in Seq(Handler)
    <3>1. <<"refused">> \in Seq(Handler) /\ <<"refused", "write_error">> \in Seq(Handler)
      BY DEF Handler
    <3> QED
      BY <1>0, <3>1, ConcatProperties DEF NetTypeOK
  <2> QED
    BY <1>0, <2>1, BaseKept, TypePartsNext DEF NetTypeOK, world
<1>5. CASE ReadArrives
  <2> USE <1>5 DEF ReadArrives
  <2>1. queue' \in Seq(Handler) /\ heard' \in BOOLEAN
    BY <1>0, QueueAppend DEF NetTypeOK, Handler
  <2>2. reads' \in Nat
    BY <1>0 DEF NetTypeOK
  <2> QED
    BY <1>0, <2>1, <2>2, BaseKept, TypePartsNext DEF NetTypeOK, dialling
<1>6. CASE ReadFails
  <2> USE <1>6 DEF ReadFails
  <2>1. queue' \in Seq(Handler)
    BY <1>0, QueueAppend DEF NetTypeOK, Handler
  <2>2. reads' \in Nat
    BY <1>0 DEF NetTypeOK
  <2> QED
    BY <1>0, <2>1, <2>2, BaseKept, TypePartsNext DEF NetTypeOK, dialling, world
<1>7. CASE WriteCompletes
  BY <1>0, <1>7, BaseKept, TypePartsNext DEF WriteCompletes, NetTypeOK, dialling, world
<1>8. CASE WriteFails
  <2> USE <1>8 DEF WriteFails
  <2>1. queue' \in Seq(Handler)
    BY <1>0, QueueAppend DEF NetTypeOK, Handler
  <2> QED
    BY <1>0, <2>1, BaseKept, TypePartsNext DEF NetTypeOK, dialling, world
<1>9. CASE PeerVanishes
  BY <1>0, <1>9, BaseKept, TypePartsNext DEF PeerVanishes, NetTypeOK, dialling, io
<1>10. CASE UpDown
  BY <1>0, <1>10, BaseKept, TypePartsNext DEF UpDown, NetTypeOK, dialling, io
<1>11. CASE Tick
  <2> USE <1>11 DEF Tick, ElapseAll, TimersQuiet
  <2>1. BaseTypeOK'
    BY <1>0, Intervals, ElapseFields DEF BaseTypeOK
  <2> QED
    BY <1>0, <2>1, TypePartsNext DEF NetTypeOK, dialling, io
<1>12. CASE UNCHANGED vars
  BY <1>0, <1>12, BaseKept, TypePartsNext DEF vars, NetTypeOK, dialling, io, world
<1> QED
  BY <1>1, <1>2, <1>3, <1>4, <1>5, <1>6, <1>7, <1>8, <1>9, <1>10, <1>11, <1>12 DEF Next

-----------------------------------------------------------------------------
(* One thing at a time *)

\* The timers' fields.
LEMMA Fields ==
  ASSUME TypeOK
  PROVE  /\ liveness_timer.left \in Nat /\ liveness_timer.left <= radarcape_liveness_interval
         /\ liveness_timer.queued \in BOOLEAN
         /\ reconnect_timer.left \in Nat /\ reconnect_timer.queued \in BOOLEAN
<1>1. /\ liveness_timer.left \in 0..radarcape_liveness_interval /\ liveness_timer.queued \in BOOLEAN
      /\ reconnect_timer.left \in 0..reconnect_interval /\ reconnect_timer.queued \in BOOLEAN
  BY Intervals, TimerFields DEF TypeOK, BaseTypeOK
<1> QED
  BY <1>1, Intervals

LEMMA FieldsNext ==
  ASSUME TypeOK'
  PROVE  /\ liveness_timer'.left \in Nat /\ liveness_timer'.left <= radarcape_liveness_interval
         /\ liveness_timer'.queued \in BOOLEAN
         /\ reconnect_timer'.left \in Nat /\ reconnect_timer'.queued \in BOOLEAN
<1>1. /\ liveness_timer'.left \in 0..radarcape_liveness_interval /\ liveness_timer'.queued \in BOOLEAN
      /\ reconnect_timer'.left \in 0..reconnect_interval /\ reconnect_timer'.queued \in BOOLEAN
  BY Intervals, TimerFields DEF TypeOK, BaseTypeOK
<1> QED
  BY <1>1, Intervals

\* While the socket is open nothing waits for the next attempt.
LEMMA WhenOpen ==
  ASSUME TypeOK, Alone, socket # "closed"
  PROVE  resolving = 0 /\ reconnect_timer.left = 0 /\ ~reconnect_timer.queued
BY Fields DEF Alone, OneThing, Pending

\* A handler of a closed socket runs at once.
LEMMA WhenQueued ==
  ASSUME TypeOK, Alone, queue # <<>>
  PROVE  /\ resolving = 0 /\ ~reconnect_timer.queued
         /\ socket = "closed" => reconnect_timer.left = reconnect_interval
<1>1. CASE socket # "closed"
  BY <1>1, WhenOpen
<1>2. CASE socket = "closed"
  <2>1. reconnect_timer.left = reconnect_interval /\ ~reconnect_timer.queued
    BY <1>2 DEF Alone, QueueExplained, ReconnectLast
  <2>2. Pending(reconnect_timer)
    BY <2>1, Intervals DEF Pending
  <2> QED
    BY <1>2, <2>1, <2>2 DEF Alone, OneThing
<1> QED
  BY <1>1, <1>2

\* The socket has just been closed and the reconnect timer set.
LEMMA FailedAlone ==
  ASSUME TypeOK', resolving' = 0, socket' = "closed", reads' = 0,
         reconnect_timer'.left = reconnect_interval, ~reconnect_timer'.queued
  PROVE  Alone'
<1>1. Pending(reconnect_timer')
  BY Intervals DEF Pending
<1>2. liveness_timer'.left < reconnect_timer'.left
  BY FieldsNext, Intervals
<1>3. OneThing' /\ LivenessOwned'
  BY <1>1 DEF OneThing, LivenessOwned
<1>4. ReconnectLast' /\ QueueExplained'
  BY <1>2 DEF ReconnectLast, QueueExplained
<1> QED
  BY <1>3, <1>4 DEF Alone

\* The socket is open and nothing is waited for.
LEMMA OpenAlone ==
  ASSUME resolving' = 0, socket' # "closed",
         reconnect_timer'.left = 0, ~reconnect_timer'.queued,
         LivenessOwned', QueueExplained'
  PROVE  Alone'
<1>1. ~Pending(reconnect_timer')
  BY DEF Pending
<1>2. OneThing'
  BY <1>1 DEF OneThing
<1>3. ReconnectLast'
  BY DEF ReconnectLast
<1> QED
  BY <1>2, <1>3 DEF Alone

LEMMA SameAlone ==
  ASSUME Alone,
         UNCHANGED <<resolving, socket, reads, queue, status_seen, liveness_timer, reconnect_timer>>
  PROVE  Alone'
<1>1. OneThing'
  BY DEF Alone, OneThing
<1>2. LivenessOwned'
  BY DEF Alone, LivenessOwned, LivenessQuiet
<1>3. ReconnectLast'
  BY DEF Alone, ReconnectLast, LivenessQuiet
<1>4. QueueExplained'
  BY DEF Alone, QueueExplained, Fresh, LivenessQuiet
<1> QED
  BY <1>1, <1>2, <1>3, <1>4 DEF Alone

\* A write fails, or is started on a socket that has failed.
LEMMA WriteErrorAlone ==
  ASSUME TypeOK, Alone, socket \in {"connected", "failed"}, queue' = Append(queue, "write_error"),
         UNCHANGED <<resolving, socket, reads, status_seen, liveness_timer, reconnect_timer>>
  PROVE  Alone'
<1>0. queue \in Seq(Handler) /\ "write_error" \in Handler
  BY DEF TypeOK, Handler
<1>1. LivenessOwned'
  BY DEF Alone, LivenessOwned, LivenessQuiet
<1>2. QueueExplained'
  <2>1. CASE socket = "failed"
    <3>1. Only(queue, {"write_error", "refused"}) /\ Once(queue, "refused") /\ reads = 0
      BY <2>1 DEF Alone, QueueExplained
    <3>2. Only(queue', {"write_error", "refused"}) /\ Once(queue', "refused")
      BY <1>0, <3>1, OnlyAppend, OnceAppend
    <3> QED
      BY <2>1, <3>1, <3>2 DEF QueueExplained
  <2>2. CASE socket = "connected" /\ Fresh
    <3>1. Only(queue', {"write_error", "connected"}) /\ Once(queue', "connected")
      BY <1>0, <2>2, OnlyAppend, OnceAppend DEF Fresh
    <3>2. Fresh'
      BY <2>2, <3>1 DEF Fresh, LivenessQuiet
    <3> QED
      BY <2>2, <3>2 DEF QueueExplained
  <2>3. CASE socket = "connected" /\ ~Fresh
    <3>1. Only(queue, {"write_error", "read_error"} \cup Chunk)
      BY <2>3 DEF Alone, QueueExplained
    <3>2. Only(queue', {"write_error", "read_error"} \cup Chunk)
      BY <1>0, <3>1, OnlyAppend
    <3> QED
      BY <2>3, <3>2 DEF QueueExplained
  <2> QED
    BY <2>1, <2>2, <2>3
<1>3. resolving' = 0 /\ reconnect_timer'.left = 0 /\ ~reconnect_timer'.queued
  BY WhenOpen
<1> QED
  BY <1>1, <1>2, <1>3, OpenAlone

\* low_level_write.
LEMMA WriteAlone ==
  ASSUME TypeOK, Alone, NEW b, low_level_write(b, queue),
         UNCHANGED <<resolving, socket, reads, status_seen, liveness_timer, reconnect_timer>>
  PROVE  Alone'
<1>1. CASE b /\ socket = "failed"
  BY <1>1, WriteErrorAlone DEF low_level_write
<1>2. CASE ~(b /\ socket = "failed")
  BY <1>2, SameAlone DEF low_level_write
<1> QED
  BY <1>1, <1>2

LEMMA InitAlone == Init => Alone
<1> SUFFICES ASSUME Init PROVE Alone
  OBVIOUS
<1> USE DEF Init, BaseInit
<1>1. /\ liveness_timer.left = 0 /\ liveness_timer.queued = FALSE
      /\ reconnect_timer.left = 0 /\ reconnect_timer.queued = FALSE
  BY Intervals, IdleFields
<1>2. OneThing
  BY <1>1 DEF OneThing, Pending
<1>3. LivenessOwned /\ ReconnectLast
  BY <1>1 DEF LivenessOwned, LivenessQuiet, ReconnectLast
<1>4. QueueExplained
  BY DEF QueueExplained
<1> QED
  BY <1>2, <1>3, <1>4 DEF Alone

\* The handlers of the socket.
LEMMA ConnectedAlone ==
  ASSUME TypeOK, TypeOK', Alone, ConnectedHandler
  PROVE  Alone'
<1> USE DEF ConnectedHandler, Take
<1>0. queue \in Seq(Handler) /\ queue # <<>> /\ Head(queue) = "connected"
  BY DEF TypeOK
<1>1. UNCHANGED <<resolving, socket, liveness_timer, reconnect_timer>>
  BY DEF dialling, connection_established
<1>2. resolving = 0 /\ ~reconnect_timer.queued
  BY <1>0, WhenQueued
<1>3. CASE socket = "closed"
  <2>1. reconnect_timer.left = reconnect_interval /\ reads = 0
    BY <1>0, <1>3, WhenQueued DEF Alone, QueueExplained
  <2>2. reads' = reads
    BY <1>3 DEF write_and_read
  <2> QED
    BY <1>1, <1>2, <1>3, <2>1, <2>2, FailedAlone
<1>4. CASE socket = "connected"
  <2>1. "connected" \notin {"write_error", "read_error"} \cup Chunk
    BY DEF Chunk
  <2>2. Fresh
    BY <1>0, <1>4, <2>1, OnlyTake DEF Alone, QueueExplained
  <2>3. Only(Tail(queue), {"write_error"})
    <3>1. Only(queue, {"write_error"} \cup {"connected"})
      BY <2>2, OnlyMore DEF Fresh
    <3> QED
      BY <1>0, <2>2, <3>1, OnceTaken DEF Fresh
  <2>4. queue' = Tail(queue)
    BY <1>4 DEF write_and_read, low_level_write
  <2>5. Only(queue', {"write_error", "read_error"} \cup Chunk)
    BY <2>3, <2>4, OnlyMore
  <2>6. QueueExplained'
    BY <1>1, <1>4, <2>5 DEF QueueExplained
  <2>7. LivenessOwned'
    BY <1>1, <2>2 DEF LivenessOwned, Fresh, LivenessQuiet
  <2> QED
    BY <1>1, <1>4, <2>6, <2>7, WhenOpen, OpenAlone
<1>5. CASE socket \in {"connecting", "failed"}
  BY <1>0, <1>5, OnlyTake DEF Alone, QueueExplained
<1> QED
  BY <1>3, <1>4, <1>5 DEF TypeOK

LEMMA RefusedAlone ==
  ASSUME TypeOK, TypeOK', Alone, RefusedHandler, ~crossed'
  PROVE  Alone'
<1> USE DEF RefusedHandler, Take
<1>0. queue \in Seq(Handler) /\ queue # <<>> /\ Head(queue) = "refused" /\ BaseTypeOK
  BY DEF TypeOK
<1>1. resolving = 0 /\ ~reconnect_timer.queued
  BY <1>0, WhenQueued
<1>2. CASE next_endpoint = 0
  <2>1. connection_failed(reconnect_timer) /\ socket' = "closed"
    BY <1>2 DEF try_next_endpoint
  <2>2. liveness_timer' \in Timer(radarcape_liveness_interval)
    BY <1>0 DEF BaseTypeOK
  <2>3. reconnect_timer'.left = reconnect_interval /\ reconnect_timer'.queued = reconnect_timer.queued
    BY <1>0, <2>1, <2>2, FailedBase
  <2> QED
    BY <1>1, <2>1, <2>3, FailedAlone
<1>3. CASE next_endpoint # 0
  <2>1. socket # "closed"
    <3>1. next_endpoint > 0
      BY <1>3, NetInputAssumption DEF TypeOK
    <3>2. crossed' = (crossed \/ (socket = "closed" /\ next_endpoint > 0))
      OBVIOUS
    <3> QED
      BY <3>1, <3>2, Zenon
  <2>2. "refused" \notin {"write_error", "read_error"} \cup Chunk
    BY DEF Chunk
  <2>3. socket = "failed"
    BY <1>0, <2>1, <2>2, OnlyTake DEF TypeOK, Alone, QueueExplained, Fresh
  <2>4. /\ socket' = "connecting" /\ queue' = Tail(queue)
        /\ UNCHANGED <<resolving, status_seen, liveness_timer, reconnect_timer>> /\ reads' = 0
    BY <1>3 DEF try_next_endpoint
  <2>5. Only(queue, {"write_error"} \cup {"refused"}) /\ Once(queue, "refused")
    BY <2>3, OnlyMore DEF Alone, QueueExplained
  <2>6. Only(queue', {"write_error"})
    BY <1>0, <2>4, <2>5, OnceTaken
  <2>7. QueueExplained'
    BY <2>4, <2>6 DEF QueueExplained
  <2>8. LivenessOwned'
    BY <2>3, <2>4 DEF Alone, LivenessOwned, LivenessQuiet
  <2> QED
    BY <2>3, <2>4, <2>7, <2>8, WhenOpen, OpenAlone
<1> QED
  BY <1>2, <1>3

LEMMA ReadAlone ==
  ASSUME TypeOK, TypeOK', Alone, ReadHandler
  PROVE  Alone'
<1>1. PICK c \in Chunk : /\ queue # <<>> /\ Head(queue) = c /\ ParseInput(c)
                         /\ write_and_read(Resends(TypeAfter(c)), Tail(queue))
  BY DEF ReadHandler, Take
<1>2. /\ queue \in Seq(Handler)
      /\ UNCHANGED <<resolving, socket, reconnect_timer>>
  BY <1>1 DEF TypeOK, ReadHandler, dialling, ParseInput
<1>3. resolving = 0 /\ ~reconnect_timer.queued
  BY <1>1, WhenQueued
<1>4. c \notin {"write_error", "connected", "refused"}
  BY DEF Chunk
<1>5. CASE socket = "closed"
  <2>1. reconnect_timer.left = reconnect_interval /\ reads = 0
    BY <1>1, <1>5, WhenQueued DEF Alone, QueueExplained
  <2>2. reads' = reads
    BY <1>1, <1>5 DEF write_and_read
  <2> QED
    BY <1>2, <1>3, <1>5, <2>1, <2>2, FailedAlone
<1>6. CASE socket = "connected"
  <2>1. ~Fresh
    BY <1>1, <1>2, <1>4, OnlyTake DEF Fresh
  <2>2. Only(Tail(queue), {"write_error", "read_error"} \cup Chunk)
    BY <1>1, <1>2, <1>6, <2>1, OnlyTake DEF Alone, QueueExplained
  <2>3. queue' = Tail(queue)
    BY <1>1, <1>6 DEF write_and_read, low_level_write
  <2>4. QueueExplained'
    BY <1>2, <1>6, <2>2, <2>3 DEF QueueExplained
  <2>5. LivenessOwned'
    BY <1>1, <1>2, <1>6 DEF Alone, LivenessOwned, LivenessQuiet, ParseInput
  <2> QED
    BY <1>2, <1>6, <2>4, <2>5, WhenOpen, OpenAlone
<1>7. CASE socket \in {"connecting", "failed"}
  BY <1>1, <1>2, <1>4, <1>7, OnlyTake DEF Alone, QueueExplained
<1> QED
  BY <1>5, <1>6, <1>7 DEF TypeOK

LEMMA ErrorAlone ==
  ASSUME TypeOK, TypeOK', Alone, ErrorHandler
  PROVE  Alone'
<1> USE DEF ErrorHandler, Take, handle_error, disconnect
<1>1. resolving = 0 /\ ~reconnect_timer.queued
  BY WhenQueued
<1>2. BaseTypeOK /\ liveness_timer' \in Timer(radarcape_liveness_interval)
  BY DEF TypeOK, BaseTypeOK
<1>3. reconnect_timer'.left = reconnect_interval /\ reconnect_timer'.queued = reconnect_timer.queued
  BY <1>2, FailedBase
<1> QED
  BY <1>1, <1>3, FailedAlone

\* The handlers of the resolver and the timers.
LEMMA ResolveAlone ==
  ASSUME TypeOK, TypeOK', Alone, ResolveHandler
  PROVE  Alone'
<1>1. /\ resolving > 0 /\ resolving' = resolving - 1
      /\ UNCHANGED <<liveness_timer, reads>>
  BY DEF ResolveHandler
<1>2. PICK n \in 0..Endpoints : try_next_endpoint(n, socket, queue)
  BY DEF ResolveHandler
<1>3. resolving = 1 /\ socket = "closed" /\ ~Pending(reconnect_timer)
  BY <1>1 DEF TypeOK, Alone, OneThing
<1>4. reconnect_timer.left = 0 /\ ~reconnect_timer.queued
  BY <1>3, Fields DEF Pending
<1>5. queue = <<>> /\ reads = 0 /\ LivenessQuiet
  BY <1>3, <1>4, Intervals DEF Alone, QueueExplained, LivenessOwned
<1>6. CASE n = 0
  <2>1. connection_failed(reconnect_timer) /\ socket' = "closed"
    BY <1>2, <1>3, <1>6 DEF try_next_endpoint
  <2>2. BaseTypeOK /\ liveness_timer' \in Timer(radarcape_liveness_interval)
    BY <1>1 DEF TypeOK, BaseTypeOK
  <2>3. reconnect_timer'.left = reconnect_interval /\ reconnect_timer'.queued = reconnect_timer.queued
    BY <2>1, <2>2, FailedBase
  <2> QED
    BY <1>1, <1>3, <1>4, <1>5, <2>1, <2>3, FailedAlone
<1>7. CASE n # 0
  <2>1. socket' = "connecting" /\ queue' = <<>> /\ UNCHANGED reconnect_timer
    BY <1>2, <1>3, <1>5, <1>7 DEF try_next_endpoint
  <2>2. QueueExplained'
    BY <1>1, <1>5, <2>1, OnlyEmpty DEF QueueExplained
  <2>3. LivenessOwned'
    BY <1>1, <1>5 DEF LivenessOwned, LivenessQuiet
  <2> QED
    BY <1>1, <1>3, <1>4, <2>1, <2>2, <2>3, OpenAlone
<1> QED
  BY <1>6, <1>7

LEMMA LivenessAlone ==
  ASSUME TypeOK, TypeOK', Alone, LivenessHandler
  PROVE  Alone'
<1> USE DEF LivenessHandler, disconnect
<1>1. ~LivenessQuiet
  BY DEF LivenessQuiet
<1>2. resolving = 0 /\ ~reconnect_timer.queued
  BY <1>1, WhenOpen DEF Alone, OneThing, LivenessOwned, ReconnectLast
<1>3. BaseTypeOK /\ liveness_timer' \in Timer(radarcape_liveness_interval)
  BY Intervals, TakenFields DEF TypeOK, BaseTypeOK
<1>4. reconnect_timer'.left = reconnect_interval /\ reconnect_timer'.queued = reconnect_timer.queued
  BY <1>3, FailedBase
<1> QED
  BY <1>2, <1>4, FailedAlone

LEMMA ReconnectAlone ==
  ASSUME TypeOK, Alone, ReconnectHandler
  PROVE  Alone'
<1> USE DEF ReconnectHandler
<1>1. reconnect_timer.left = 0 /\ LivenessQuiet /\ queue = <<>>
  BY DEF Alone, ReconnectLast
<1>2. reconnect_timer'.left = 0 /\ reconnect_timer'.queued = FALSE
  BY <1>1, Intervals, TakenFields DEF TypeOK, BaseTypeOK
<1>3. resolving = 0 /\ socket = "closed"
  BY DEF Alone, OneThing, Pending
<1>4. OneThing'
  BY <1>2, <1>3 DEF OneThing, Pending
<1>5. LivenessOwned' /\ ReconnectLast'
  BY <1>1, <1>2 DEF LivenessOwned, LivenessQuiet, ReconnectLast
<1>6. QueueExplained'
  BY <1>1, <1>3 DEF Alone, QueueExplained, io
<1> QED
  BY <1>4, <1>5, <1>6 DEF Alone

\* The network.
LEMMA ConnectAlone ==
  ASSUME TypeOK, Alone, ConnectSucceeds \/ ConnectRefused
  PROVE  Alone'
<1>0. /\ queue \in Seq(Handler) /\ {"connected", "refused", "write_error"} \subseteq Handler
  BY DEF TypeOK, Handler
<1>1. /\ socket = "connecting"
      /\ UNCHANGED <<resolving, reads, status_seen, liveness_timer, reconnect_timer>>
  BY DEF ConnectSucceeds, ConnectRefused, base, timers
<1>2. LivenessQuiet /\ reads = 0 /\ Only(queue, {"write_error"})
  BY <1>1 DEF Alone, LivenessOwned, QueueExplained
<1>3. LivenessOwned'
  BY <1>1, <1>2 DEF LivenessOwned, LivenessQuiet
<1>4. socket' # "closed" /\ QueueExplained'
  <2>1. CASE ConnectSucceeds
    <3>1. socket' = "connected" /\ queue' = Append(queue, "connected")
      BY <2>1 DEF ConnectSucceeds
    <3>2. Once(queue', "connected")
      BY <1>0, <1>2, <3>1, OnceAdded
    <3>3. Only(queue, {"write_error", "connected"})
      BY <1>2, OnlyMore
    <3>4. Only(queue', {"write_error", "connected"})
      BY <1>0, <3>1, <3>3, OnlyAppend
    <3>5. Fresh'
      BY <1>1, <1>2, <3>2, <3>4 DEF Fresh, LivenessQuiet
    <3> QED
      BY <3>1, <3>5 DEF QueueExplained
  <2>2. CASE ConnectRefused
    <3> DEFINE q == Append(queue, "refused")
    <3>1. /\ socket' = "failed"
          /\ queue' = queue \o IF writing THEN <<"refused", "write_error">> ELSE <<"refused">>
      BY <2>2 DEF ConnectRefused
    <3>2. queue' = q \/ queue' = Append(q, "write_error")
      BY <1>0, <3>1, ConcatOne, ConcatTwo
    <3>3. Once(q, "refused")
      BY <1>0, <1>2, OnceAdded
    <3>4. Only(queue, {"write_error", "refused"})
      BY <1>2, OnlyMore
    <3>5. q \in Seq(Handler) /\ Only(q, {"write_error", "refused"})
      BY <1>0, <3>4, OnlyAppend
    <3> HIDE DEF q
    <3>6. /\ Once(Append(q, "write_error"), "refused")
          /\ Only(Append(q, "write_error"), {"write_error", "refused"})
      BY <1>0, <3>3, <3>5, OnlyAppend, OnceAppend
    <3>7. Once(queue', "refused") /\ Only(queue', {"write_error", "refused"})
      BY <3>2, <3>3, <3>5, <3>6
    <3> QED
      BY <1>1, <1>2, <3>1, <3>7 DEF QueueExplained
  <2> QED
    BY <2>1, <2>2
<1> QED
  BY <1>1, <1>3, <1>4, WhenOpen, OpenAlone

LEMMA ReadOverAlone ==
  ASSUME TypeOK, Alone, ReadArrives \/ ReadFails
  PROVE  Alone'
<1>1. /\ socket = "connected" /\ reads > 0
      /\ UNCHANGED <<resolving, socket, status_seen, liveness_timer, reconnect_timer>>
  BY DEF ReadArrives, ReadFails, base, timers, dialling
<1>2. PICK x \in {"read_error"} \cup Chunk : queue' = Append(queue, x)
  BY DEF ReadArrives, ReadFails
<1>3. queue \in Seq(Handler) /\ x \in Handler
  BY DEF TypeOK, Handler
<1>4. ~Fresh
  BY <1>1 DEF Fresh
<1>5. Only(queue', {"write_error", "read_error"} \cup Chunk)
  BY <1>1, <1>2, <1>3, <1>4, OnlyAppend DEF Alone, QueueExplained
<1>6. QueueExplained'
  BY <1>1, <1>5 DEF QueueExplained
<1>7. LivenessOwned'
  BY <1>1 DEF Alone, LivenessOwned, LivenessQuiet
<1> QED
  BY <1>1, <1>6, <1>7, WhenOpen, OpenAlone

LEMMA TickAlone ==
  ASSUME TypeOK, Alone, Tick
  PROVE  Alone'
<1>0. UNCHANGED <<resolving, socket, reads, queue, status_seen>> /\ queue = <<>>
  BY DEF Tick, dialling, io, ElapseAll
<1>1. ~liveness_timer.queued /\ ~reconnect_timer.queued
  BY DEF Tick, TimersQuiet
<1>2. /\ liveness_timer'.left = IF liveness_timer.left = 0 THEN 0 ELSE liveness_timer.left - 1
      /\ liveness_timer'.queued <=> liveness_timer.left = 1
  BY <1>1, Intervals, ElapseFields DEF Tick, ElapseAll, TypeOK, BaseTypeOK
<1>3. /\ reconnect_timer'.left = IF reconnect_timer.left = 0 THEN 0 ELSE reconnect_timer.left - 1
      /\ reconnect_timer'.queued <=> reconnect_timer.left = 1
  BY <1>1, Intervals, ElapseFields DEF Tick, ElapseAll, TypeOK, BaseTypeOK
<1>4. Pending(reconnect_timer') <=> Pending(reconnect_timer)
  BY <1>1, <1>3, Fields DEF Pending
<1>5. LivenessQuiet => LivenessQuiet'
  BY <1>2 DEF LivenessQuiet
<1>6. OneThing'
  BY <1>0, <1>4 DEF Alone, OneThing
<1>7. LivenessOwned'
  BY <1>0, <1>4, <1>5 DEF Alone, LivenessOwned
<1>8. ReconnectLast'
  <2>1. reconnect_timer.left > 0 => liveness_timer.left < reconnect_timer.left
    BY DEF Alone, ReconnectLast
  <2>2. reconnect_timer'.left > 0 => liveness_timer'.left < reconnect_timer'.left
    BY <1>2, <1>3, <2>1, Fields
  <2>3. reconnect_timer.left = 1 =>
          reconnect_timer'.left = 0 /\ liveness_timer'.left = 0 /\ liveness_timer.left # 1
    BY <1>2, <1>3, <2>1, Fields
  <2> QED
    BY <1>0, <1>2, <1>3, <2>2, <2>3 DEF ReconnectLast, LivenessQuiet
<1>9. QueueExplained'
  BY <1>0, <1>5 DEF Alone, QueueExplained, Fresh
<1> QED
  BY <1>6, <1>7, <1>8, <1>9 DEF Alone

LEMMA NextAlone ==
  ASSUME TypeOK, TypeOK', Alone, [Next]_vars, ~crossed'
  PROVE  Alone'
<1>1. CASE QueueHandlers
  BY <1>1, ConnectedAlone, RefusedAlone, ReadAlone, ErrorAlone DEF QueueHandlers
<1>2. CASE ResolveHandler \/ LivenessHandler \/ ReconnectHandler
  BY <1>2, ResolveAlone, LivenessAlone, ReconnectAlone
<1>3. CASE AutodetectHandler
  BY <1>3, WriteAlone DEF AutodetectHandler, AutodetectTimeout, dialling
<1>4. CASE SetFilter
  BY <1>4, WriteAlone DEF SetFilter, base, timers, dialling
<1>5. CASE ConnectSucceeds \/ ConnectRefused
  BY <1>5, ConnectAlone
<1>6. CASE ReadArrives \/ ReadFails
  BY <1>6, ReadOverAlone
<1>7. CASE WriteFails
  BY <1>7, WriteErrorAlone DEF WriteFails, base, timers, dialling
<1>8. CASE WriteCompletes \/ PeerVanishes \/ UpDown \/ UNCHANGED vars
  BY <1>8, SameAlone DEF WriteCompletes, PeerVanishes, UpDown, vars, base, timers, dialling, io
<1>9. CASE Tick
  BY <1>9, TickAlone
<1> QED
  BY <1>1, <1>2, <1>3, <1>4, <1>5, <1>6, <1>7, <1>8, <1>9 DEF Next, Handlers

\* Two attempts that share the socket share it for good.
LEMMA CrossedStays ==
  ASSUME TypeOK, [Next]_vars, crossed
  PROVE  crossed'
<1>1. CASE Handlers
  BY <1>1 DEF Handlers, QueueHandlers, ConnectedHandler, RefusedHandler, ReadHandler, ErrorHandler,
              ResolveHandler, AutodetectHandler, LivenessHandler, ReconnectHandler, dialling
<1>2. CASE SetFilter \/ ConnectSucceeds \/ ConnectRefused \/ ReadArrives \/ ReadFails
  BY <1>2 DEF SetFilter, ConnectSucceeds, ConnectRefused, ReadArrives, ReadFails, dialling
<1>3. CASE WriteCompletes \/ WriteFails \/ PeerVanishes \/ UpDown \/ Tick \/ UNCHANGED vars
  BY <1>3 DEF WriteCompletes, WriteFails, PeerVanishes, UpDown, Tick, vars, dialling
<1> QED
  BY <1>1, <1>2, <1>3 DEF Next

-----------------------------------------------------------------------------

\* The invariant: the types, and one thing at a time until two attempts share
\* the socket.
THEOREM Invariance == Spec => []Inv
<1>1. Init => Inv
  BY InitType, InitAlone DEF Inv
<1>2. Inv /\ [Next]_vars => Inv'
  BY NextType, NextAlone, CrossedStays DEF Inv
<1> QED
  BY <1>1, <1>2, PTL DEF Spec

\* The iterator over the endpoints stays on the list or at its end, and the
\* state keeps its types, crossed or not.
THEOREM TypeCorrect == Spec => []TypeOK
<1>1. Inv => TypeOK
  BY DEF Inv
<1> QED
  BY <1>1, Invariance, PTL

\* NetInput is at any time doing exactly one of: looking the host up, holding
\* a socket, waiting to try again (OneAttempt).
THEOREM OneAttemptHolds == Spec => []OneAttempt
<1>1. Inv => OneAttempt
  BY DEF Inv, Alone, OneThing, OneAttempt
<1> QED
  BY <1>1, Invariance, PTL

\* The liveness timer, which nothing cancels, expires only for the connection
\* whose status messages have stopped, or when there is none
\* (LivenessJustified).
THEOREM LivenessJustifiedHolds == Spec => []LivenessJustified
<1>1. Inv => LivenessJustified
  BY DEF Inv, Alone, LivenessOwned, LivenessQuiet, LivenessJustified
<1> QED
  BY <1>1, Invariance, PTL
=============================================================================
