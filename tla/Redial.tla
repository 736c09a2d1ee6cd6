------------------------------- MODULE Redial -------------------------------
(***************************************************************************)
(* What SocketConnector promises of the connection it keeps up:            *)
(* at any time it is being dialled, or up, or resting before the next      *)
(* attempt; a rest lasts reconnect_interval, counted from the last failure *)
(* reported; and every rest ends in another attempt.                       *)
(***************************************************************************)
EXTENDS Naturals

CONSTANT Rest

VARIABLES phase, rest    \* rest: ticks of the rest still to come

vars == <<phase, rest>>

Init == phase = "dialling" /\ rest = 0

Connect == phase = "dialling" /\ phase' = "up" /\ UNCHANGED rest

\* An attempt or a connection fails; so may what is left of one that already
\* has, and the rest begins again.
Fail == phase' = "resting" /\ rest' = Rest

Wait == phase = "resting" /\ rest > 0 /\ rest' = rest - 1 /\ UNCHANGED phase

Dial == phase = "resting" /\ rest = 0 /\ phase' = "dialling" /\ UNCHANGED rest

Next == Connect \/ Fail \/ Wait \/ Dial

\* What may happen, and what must.
Steps == Init /\ [][Next]_vars

KeepsTrying == phase = "resting" ~> phase = "dialling"

Spec == Steps /\ KeepsTrying
=============================================================================
