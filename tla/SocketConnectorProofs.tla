----------------------- MODULE SocketConnectorProofs -----------------------
(***************************************************************************)
(* For every interval, number of addresses and number of operations that   *)
(* an output may have outstanding: SocketConnector keeps to one connection *)
(* or one attempt at it, and takes only steps that Redial allows.          *)
(*                                                                         *)
(* OneConnection is not inductive: it says nothing of the handlers that    *)
(* are queued, and a close_notifier call that came when an attempt is      *)
(* under way would schedule a second one.  The invariant says why none     *)
(* does: such calls are queued only while the wait that the first of them  *)
(* started is still running, and the wait is over only when the queue is   *)
(* empty.                                                                  *)
(***************************************************************************)
EXTENDS SocketConnector, SequenceTheorems, TLAPS

\* A connect that is over has the only handler in the queue.  All others are
\* those of closed outputs, and come before the wait for the next attempt ends.
QueueExplained ==
  IF socket = "over" THEN queue \in {<<"connected">>, <<"refused">>}
  ELSE /\ \A i \in DOMAIN queue : queue[i] = "closed"
       /\ queue # <<>> => reconnect_timer.left > 0

\* When the timer's handler is queued it is the only one, and no new wait has
\* been started.
TimerAlone ==
  reconnect_timer.queued => reconnect_timer.left = 0 /\ queue = <<>>

Inv == TypeOK /\ OneConnection /\ QueueExplained /\ TimerAlone

-----------------------------------------------------------------------------
(* Timers *)

LEMMA TimerFields ==
  ASSUME NEW d \in Nat \ {0}, NEW t \in Timer(d)
  PROVE  t.left \in 0..d /\ t.queued \in BOOLEAN
BY DEF Timer

LEMMA ArmFields ==
  ASSUME NEW d \in Nat \ {0}, NEW t \in Timer(d)
  PROVE  Arm(t, d) \in Timer(d) /\ Arm(t, d).left = d /\ Arm(t, d).queued = t.queued
<1>1. Arm(t, d) \in Timer(d)
  BY DEF Timer, Arm
<1>2. Arm(t, d).left = d /\ Arm(t, d).queued = t.queued
  BY DEF Timer, Arm
<1> QED
  BY <1>1, <1>2

LEMMA TakenFields ==
  ASSUME NEW d \in Nat \ {0}, NEW t \in Timer(d)
  PROVE  Taken(t) \in Timer(d) /\ Taken(t).left = t.left /\ Taken(t).queued = FALSE
<1>1. Taken(t) \in Timer(d)
  BY DEF Timer, Taken
<1>2. Taken(t).left = t.left /\ Taken(t).queued = FALSE
  BY DEF Timer, Taken
<1> QED
  BY <1>1, <1>2

LEMMA ElapseFields ==
  ASSUME NEW d \in Nat \ {0}, NEW t \in Timer(d)
  PROVE  /\ Elapse(t) \in Timer(d)
         /\ Elapse(t).left = IF t.left = 0 THEN 0 ELSE t.left - 1
         /\ Elapse(t).queued = (t.queued \/ t.left = 1)
<1>1. Elapse(t) \in Timer(d)
  BY DEF Timer, Elapse
<1>2. /\ Elapse(t).left = IF t.left = 0 THEN 0 ELSE t.left - 1
      /\ Elapse(t).queued = (t.queued \/ t.left = 1)
  BY DEF Timer, Elapse
<1> QED
  BY <1>1, <1>2

\* A tick neither starts nor ends a wait: one that is over is queued.
LEMMA ElapsePending ==
  ASSUME NEW d \in Nat \ {0}, NEW t \in Timer(d)
  PROVE  Pending(Elapse(t)) <=> Pending(t)
<1>1. t.left \in Nat
  BY TimerFields
<1>2. CASE t.left = 0
  <2>1. Elapse(t).left = 0 /\ Elapse(t).queued = (t.queued \/ t.left = 1)
    BY <1>2 DEF Elapse
  <2>2. ~(t.left = 1)
    BY <1>2
  <2>3. Elapse(t).queued <=> t.queued
    BY <2>1, <2>2, Zenon
  <2> QED
    BY <1>2, <2>1, <2>3 DEF Pending
<1>3. CASE t.left = 1
  <2>1. Elapse(t).queued
    BY <1>3, ElapseFields
  <2> QED
    BY <1>3, <2>1 DEF Pending
<1>4. CASE t.left > 1
  <2>1. Elapse(t).left = t.left - 1
    BY <1>4, ElapseFields
  <2> QED
    BY <1>4, <1>1, <2>1 DEF Pending
<1> QED
  BY <1>1, <1>2, <1>3, <1>4

LEMMA IdleFields ==
  ASSUME NEW d \in Nat \ {0}
  PROVE  Idle \in Timer(d) /\ Idle.left = 0 /\ Idle.queued = FALSE
BY DEF Timer, Idle

-----------------------------------------------------------------------------
(* The invariant *)

LEMMA InitInv == Init => Inv
<1> SUFFICES ASSUME Init PROVE Inv
  OBVIOUS
<1> USE SocketConnectorAssumption DEF Init
<1>1. /\ reconnect_timer \in Timer(reconnect_interval)
      /\ reconnect_timer.left = 0 /\ reconnect_timer.queued = FALSE
  BY IdleFields
<1>2. TypeOK
  BY <1>1 DEF TypeOK
<1>3. OneConnection
  BY <1>1 DEF OneConnection, Pending
<1>4. QueueExplained /\ TimerAlone
  BY <1>1 DEF QueueExplained, TimerAlone
<1> QED
  BY <1>2, <1>3, <1>4 DEF Inv

LEMMA NextInv == Inv /\ [Next]_vars => Inv'
<1> SUFFICES ASSUME Inv, [Next]_vars PROVE Inv'
  OBVIOUS
<1> USE SocketConnectorAssumption DEF Inv
<1>0. reconnect_timer.left \in Nat /\ reconnect_timer.queued \in BOOLEAN
  BY TimerFields DEF TypeOK
<1>1. CASE Resolved
  <2> USE <1>1 DEF Resolved
  <2>1. TypeOK'
    BY <1>0 DEF TypeOK, Handler
  <2>2. OneConnection'
    BY <1>0 DEF TypeOK, OneConnection, Pending, QueueExplained, TimerAlone
  <2>3. QueueExplained'
    BY <1>0 DEF TypeOK, OneConnection, QueueExplained, Pending, Handler
  <2>4. TimerAlone'
    BY <1>0 DEF TypeOK, OneConnection, QueueExplained, TimerAlone, Pending
  <2> QED
    BY <2>1, <2>2, <2>3, <2>4
<1>2. CASE ResolveFails
  <2> USE <1>2 DEF ResolveFails
  <2>1. /\ reconnect_timer' \in Timer(reconnect_interval)
        /\ reconnect_timer'.left = reconnect_interval
        /\ reconnect_timer'.queued = reconnect_timer.queued
    BY ArmFields DEF TypeOK
  <2>2. TypeOK'
    BY <1>0, <2>1 DEF TypeOK, Handler
  <2>3. OneConnection'
    BY <1>0, <2>1 DEF TypeOK, OneConnection, Pending, QueueExplained, TimerAlone
  <2>4. QueueExplained'
    BY <1>0, <2>1 DEF TypeOK, OneConnection, QueueExplained, Pending, Handler
  <2>5. TimerAlone'
    BY <1>0, <2>1 DEF TypeOK, OneConnection, QueueExplained, TimerAlone, Pending
  <2> QED
    BY <2>2, <2>3, <2>4, <2>5
<1>3. CASE ConnectedHandler
  <2> USE <1>3 DEF ConnectedHandler, Take
  <2>1. TypeOK'
    BY <1>0 DEF TypeOK, Handler
  <2>2. OneConnection'
    BY <1>0 DEF TypeOK, OneConnection, Pending, QueueExplained, TimerAlone
  <2>3. QueueExplained'
    BY <1>0 DEF TypeOK, OneConnection, QueueExplained, Pending, Handler
  <2>4. TimerAlone'
    BY <1>0 DEF TypeOK, OneConnection, QueueExplained, TimerAlone, Pending
  <2> QED
    BY <2>1, <2>2, <2>3, <2>4
<1>4. CASE ConnectedThrows
  <2> USE <1>4 DEF ConnectedThrows
  <2>1. /\ reconnect_timer' \in Timer(reconnect_interval)
        /\ reconnect_timer'.left = 0 /\ reconnect_timer'.queued = FALSE
    BY IdleFields DEF TypeOK
  <2>2. TypeOK'
    BY <1>0, <2>1 DEF TypeOK, Handler
  <2>3. OneConnection'
    BY <1>0, <2>1 DEF TypeOK, OneConnection, Pending, QueueExplained, TimerAlone
  <2>4. QueueExplained'
    BY <1>0, <2>1 DEF TypeOK, OneConnection, QueueExplained, Pending, Handler
  <2>5. TimerAlone'
    BY <1>0, <2>1 DEF TypeOK, OneConnection, QueueExplained, TimerAlone, Pending
  <2> QED
    BY <2>2, <2>3, <2>4, <2>5
<1>5. CASE RefusedHandler
  <2> USE <1>5 DEF RefusedHandler, Take
  <2>1. socket = "over" /\ queue = <<"refused">> /\ queue' = <<>>
    BY DEF TypeOK, QueueExplained
  <2>2. CASE next_endpoint = 0
    <3> USE <2>2 DEF try_next_endpoint, schedule_reconnect
    <3>1. /\ reconnect_timer' \in Timer(reconnect_interval)
        /\ reconnect_timer'.left = reconnect_interval
        /\ reconnect_timer'.queued = reconnect_timer.queued
      BY ArmFields DEF TypeOK
    <3>2. TypeOK'
      BY <2>1, <3>1 DEF TypeOK
    <3>3. OneConnection'
      BY <1>0, <2>1, <3>1 DEF TypeOK, OneConnection, Pending
    <3>4. QueueExplained' /\ TimerAlone'
      BY <1>0, <2>1, <3>1 DEF QueueExplained, TimerAlone
    <3> QED
      BY <3>2, <3>3, <3>4
  <2>3. CASE next_endpoint # 0
    <3> USE <2>3 DEF try_next_endpoint
    <3>1. TypeOK'
      BY <2>1 DEF TypeOK
    <3>2. OneConnection'
      BY <1>0, <2>1 DEF TypeOK, OneConnection, Pending
    <3>3. QueueExplained' /\ TimerAlone'
      BY <1>0, <2>1 DEF QueueExplained, TimerAlone
    <3> QED
      BY <3>1, <3>2, <3>3
  <2> QED
    BY <2>2, <2>3
<1>6. CASE OutputCloses
  <2> USE <1>6 DEF OutputCloses, schedule_reconnect
  <2>1. /\ reconnect_timer' \in Timer(reconnect_interval)
        /\ reconnect_timer'.left = reconnect_interval
        /\ reconnect_timer'.queued = reconnect_timer.queued
    BY ArmFields DEF TypeOK
  <2>2. TypeOK'
    BY <1>0, <2>1 DEF TypeOK, Handler
  <2>3. OneConnection'
    BY <1>0, <2>1 DEF TypeOK, OneConnection, Pending, QueueExplained, TimerAlone
  <2>4. QueueExplained'
    BY <1>0, <2>1 DEF TypeOK, OneConnection, QueueExplained, Pending, Handler
  <2>5. TimerAlone'
    BY <1>0, <2>1 DEF TypeOK, OneConnection, QueueExplained, TimerAlone, Pending
  <2> QED
    BY <2>2, <2>3, <2>4, <2>5
<1>7. CASE ClosedAgain
  <2> USE <1>7 DEF ClosedAgain, Take, schedule_reconnect
  <2>1. /\ reconnect_timer' \in Timer(reconnect_interval)
        /\ reconnect_timer'.left = reconnect_interval
        /\ reconnect_timer'.queued = reconnect_timer.queued
    BY ArmFields DEF TypeOK
  <2>2. TypeOK'
    BY <1>0, <2>1 DEF TypeOK, Handler
  <2>3. OneConnection'
    BY <1>0, <2>1 DEF TypeOK, OneConnection, Pending, QueueExplained, TimerAlone
  <2>4. QueueExplained'
    BY <1>0, <2>1 DEF TypeOK, OneConnection, QueueExplained, Pending, Handler
  <2>5. TimerAlone'
    BY <1>0, <2>1 DEF TypeOK, OneConnection, QueueExplained, TimerAlone, Pending
  <2> QED
    BY <2>2, <2>3, <2>4, <2>5
<1>8. CASE ReconnectHandler
  <2> USE <1>8 DEF ReconnectHandler
  <2>1. /\ reconnect_timer' \in Timer(reconnect_interval)
        /\ reconnect_timer'.left = reconnect_timer.left /\ reconnect_timer'.queued = FALSE
    BY TakenFields DEF TypeOK
  <2>2. TypeOK'
    BY <1>0, <2>1 DEF TypeOK, Handler
  <2>3. OneConnection'
    BY <1>0, <2>1 DEF TypeOK, OneConnection, Pending, QueueExplained, TimerAlone
  <2>4. QueueExplained'
    BY <1>0, <2>1 DEF TypeOK, OneConnection, QueueExplained, Pending, Handler
  <2>5. TimerAlone'
    BY <1>0, <2>1 DEF TypeOK, OneConnection, QueueExplained, TimerAlone, Pending
  <2> QED
    BY <2>2, <2>3, <2>4, <2>5
<1>9. CASE ConnectSucceeds
  <2> USE <1>9 DEF ConnectSucceeds
  <2>1. TypeOK'
    BY <1>0 DEF TypeOK, Handler
  <2>2. OneConnection'
    BY <1>0 DEF TypeOK, OneConnection, Pending, QueueExplained, TimerAlone
  <2>3. QueueExplained'
    <3>1. queue = <<>>
      BY <1>0 DEF TypeOK, OneConnection, QueueExplained, Pending
    <3>2. queue' = <<"connected">>
      BY <3>1
    <3> QED
      BY <3>2 DEF QueueExplained
  <2>4. TimerAlone'
    BY <1>0 DEF TypeOK, OneConnection, QueueExplained, TimerAlone, Pending
  <2> QED
    BY <2>1, <2>2, <2>3, <2>4
<1>10. CASE ConnectRefused
  <2> USE <1>10 DEF ConnectRefused
  <2>1. TypeOK'
    BY <1>0 DEF TypeOK, Handler
  <2>2. OneConnection'
    BY <1>0 DEF TypeOK, OneConnection, Pending, QueueExplained, TimerAlone
  <2>3. QueueExplained'
    <3>1. queue = <<>>
      BY <1>0 DEF TypeOK, OneConnection, QueueExplained, Pending
    <3>2. queue' = <<"refused">>
      BY <3>1
    <3> QED
      BY <3>2 DEF QueueExplained
  <2>4. TimerAlone'
    BY <1>0 DEF TypeOK, OneConnection, QueueExplained, TimerAlone, Pending
  <2> QED
    BY <2>1, <2>2, <2>3, <2>4
<1>11. CASE UpDown
  <2> USE <1>11 DEF UpDown
  <2>1. TypeOK'
    BY <1>0 DEF TypeOK, Handler
  <2>2. OneConnection'
    BY <1>0 DEF TypeOK, OneConnection, Pending, QueueExplained, TimerAlone
  <2>3. QueueExplained'
    BY <1>0 DEF TypeOK, OneConnection, QueueExplained, Pending, Handler
  <2>4. TimerAlone'
    BY <1>0 DEF TypeOK, OneConnection, QueueExplained, TimerAlone, Pending
  <2> QED
    BY <2>1, <2>2, <2>3, <2>4
<1>12. CASE Tick
  <2> USE <1>12 DEF Tick
  <2>1. /\ reconnect_timer' \in Timer(reconnect_interval)
        /\ reconnect_timer'.left = IF reconnect_timer.left = 0 THEN 0 ELSE reconnect_timer.left - 1
        /\ reconnect_timer'.queued = (reconnect_timer.queued \/ reconnect_timer.left = 1)
    BY ElapseFields DEF TypeOK
  <2>2. TypeOK'
    BY <1>0, <2>1 DEF TypeOK, Handler
  <2>3. OneConnection'
    <3>1. Pending(reconnect_timer') <=> Pending(reconnect_timer)
      BY ElapsePending DEF TypeOK
    <3> QED
      BY <3>1 DEF OneConnection
  <2>4. QueueExplained'
    BY <1>0, <2>1 DEF TypeOK, OneConnection, QueueExplained, Pending, Handler
  <2>5. TimerAlone'
    BY <1>0, <2>1 DEF TypeOK, OneConnection, QueueExplained, TimerAlone, Pending
  <2> QED
    BY <2>2, <2>3, <2>4, <2>5
<1>13. CASE UNCHANGED vars
  BY <1>13 DEF vars, TypeOK, OneConnection, QueueExplained, TimerAlone, Pending
<1> QED
  BY <1>1, <1>2, <1>3, <1>4, <1>5, <1>6, <1>7, <1>8, <1>9, <1>10, <1>11, <1>12, <1>13
     DEF Next, QueueHandlers

\* The invariant holds in every state the connector can reach.
THEOREM Invariance == Spec => []Inv
BY InitInv, NextInv, PTL DEF Spec

\* The connector's state is type correct: try_next_endpoint never goes past the
\* end of the list of addresses.
THEOREM TypeCorrect == Spec => []TypeOK
BY Invariance, PTL DEF Inv

\* However many times close_notifier is called for the outputs, there is one
\* lookup, connect, live output or wait for the next attempt at any time.
THEOREM OneConnectionHolds == Spec => []OneConnection
BY Invariance, PTL DEF Inv

-----------------------------------------------------------------------------
(* Refinement of Redial, but for the promise that every rest ends *)

LEMMA RefineInit == Init => Abstract!Init
<1> SUFFICES ASSUME Init PROVE Abstract!Init
  OBVIOUS
<1>1. reconnect_timer.left = 0 /\ reconnect_timer.queued = FALSE
  BY SocketConnectorAssumption, IdleFields DEF Init
<1> QED
  BY <1>1 DEF Init, Abstract!Init, Pending

\* Scheduling a reconnection begins a rest, or begins it again.
LEMMA ScheduleFails ==
  ASSUME Inv, reconnect_timer' = Arm(reconnect_timer, reconnect_interval)
  PROVE  Abstract!Fail
<1>1. reconnect_timer'.left = reconnect_interval /\ reconnect_interval > 0
  BY SocketConnectorAssumption, ArmFields DEF Inv, TypeOK
<1> QED
  BY <1>1 DEF Abstract!Fail, Pending

\* Unless there is a wait for the next attempt, none is under way in the timer.
LEMMA NotResting ==
  ASSUME Inv, resolving > 0 \/ socket # "closed" \/ outputs > 0
  PROVE  ~Pending(reconnect_timer) /\ reconnect_timer.left = 0
<1>1. reconnect_timer.left \in Nat
  BY SocketConnectorAssumption, TimerFields DEF Inv, TypeOK
<1>2. ~Pending(reconnect_timer)
  BY DEF Inv, TypeOK, OneConnection
<1> QED
  BY <1>1, <1>2 DEF Pending

LEMMA RefineNext == Inv /\ [Next]_vars => [Abstract!Next]_(Abstract!vars)
<1> SUFFICES ASSUME Inv, [Next]_vars PROVE [Abstract!Next]_(Abstract!vars)
  OBVIOUS
<1> USE SocketConnectorAssumption
<1>1. CASE ResolveFails
  BY <1>1, ScheduleFails DEF ResolveFails, Abstract!Next
<1>2. CASE OutputCloses
  BY <1>2, ScheduleFails DEF OutputCloses, schedule_reconnect, Abstract!Next
<1>3. CASE ClosedAgain
  BY <1>3, ScheduleFails DEF ClosedAgain, schedule_reconnect, Abstract!Next
<1>4. CASE RefusedHandler
  <2>1. CASE next_endpoint = 0
    BY <1>4, <2>1, ScheduleFails
       DEF RefusedHandler, try_next_endpoint, schedule_reconnect, Abstract!Next
  <2>2. CASE next_endpoint # 0
    BY <1>4, <2>2 DEF RefusedHandler, try_next_endpoint, Abstract!vars
  <2> QED
    BY <2>1, <2>2
<1>5. CASE ConnectedHandler
  <2> USE <1>5 DEF ConnectedHandler, Take
  <2>1. socket # "closed"
    BY DEF Inv, TypeOK, QueueExplained
  <2>2. ~Pending(reconnect_timer) /\ outputs = 0
    BY <2>1, NotResting DEF Inv, TypeOK, OneConnection
  <2> QED
    BY <2>2 DEF Abstract!Next, Abstract!Connect
<1>6. CASE ConnectedThrows
  <2> USE <1>6 DEF ConnectedThrows
  <2>1. socket # "closed"
    BY DEF Inv, TypeOK, QueueExplained
  <2>2. ~Pending(reconnect_timer) /\ reconnect_timer.left = 0
    BY <2>1, NotResting
  <2>3. outputs = 0
    BY <2>1 DEF Inv, TypeOK, OneConnection
  <2>4. reconnect_timer'.left = 0 /\ ~Pending(reconnect_timer')
    BY DEF Idle, Pending
  <2> QED
    BY <2>2, <2>3, <2>4 DEF Abstract!vars
<1>7. CASE ReconnectHandler
  <2> USE <1>7 DEF ReconnectHandler
  <2>1. Pending(reconnect_timer) /\ reconnect_timer.left = 0
    BY DEF Inv, TimerAlone, Pending
  <2>2. reconnect_timer'.left = 0 /\ ~Pending(reconnect_timer')
    <3>1. reconnect_timer'.left = 0 /\ reconnect_timer'.queued = FALSE
      BY <2>1, TakenFields DEF Inv, TypeOK
    <3> QED
      BY <3>1 DEF Pending
  <2>3. outputs' = 0
    BY <2>1 DEF Inv, TypeOK, OneConnection
  <2> QED
    BY <2>1, <2>2, <2>3 DEF Abstract!Next, Abstract!Dial
<1>8. CASE Tick
  <2> USE <1>8 DEF Tick
  <2>1. Pending(reconnect_timer') <=> Pending(reconnect_timer)
    BY ElapsePending DEF Inv, TypeOK
  <2>2. reconnect_timer.left \in Nat
    BY TimerFields DEF Inv, TypeOK
  <2>3. reconnect_timer'.left = IF reconnect_timer.left = 0 THEN 0 ELSE reconnect_timer.left - 1
    BY ElapseFields DEF Inv, TypeOK
  <2>4. CASE reconnect_timer.left = 0
    BY <2>1, <2>3, <2>4 DEF Abstract!vars
  <2>5. CASE reconnect_timer.left > 0
    <3>1. Pending(reconnect_timer)
      BY <2>5 DEF Pending
    <3> QED
      BY <2>1, <2>2, <2>3, <2>5, <3>1 DEF Abstract!Next, Abstract!Wait
  <2> QED
    BY <2>2, <2>4, <2>5
<1>9. CASE Resolved \/ ConnectSucceeds \/ ConnectRefused \/ UpDown \/ UNCHANGED vars
  BY <1>9 DEF Resolved, ConnectSucceeds, ConnectRefused, UpDown, vars, Abstract!vars
<1> QED
  BY <1>1, <1>2, <1>3, <1>4, <1>5, <1>6, <1>7, <1>8, <1>9 DEF Next, QueueHandlers

\* Every step of the connector is a step of Redial: it dials only after a rest of
\* the whole interval since the last failure, and a connection that is up ends
\* only by failing.
THEOREM Refinement == Spec => Abstract!Steps
<1>1. Init => Abstract!Init
  BY RefineInit
<1>2. Inv /\ [Next]_vars => [Abstract!Next]_(Abstract!vars)
  BY RefineNext
<1> QED
  BY <1>1, <1>2, Invariance, PTL DEF Spec, Abstract!Steps
=============================================================================
