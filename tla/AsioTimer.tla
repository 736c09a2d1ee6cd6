----------------------------- MODULE AsioTimer -----------------------------
(***************************************************************************)
(* boost::asio::steady_timer as this program uses it: one wait at a time,  *)
(* whose handler does nothing when the wait was cancelled.                 *)
(*                                                                         *)
(* A timer is a record: `left', the ticks until its wait is over, 0 when   *)
(* nothing waits; and `queued', whether a wait is over and its handler is  *)
(* in the io_service's queue.  Cancelling, and expires_from_now, which     *)
(* cancels too, do not reach a handler that is already queued.             *)
(***************************************************************************)
EXTENDS Integers

Timer(d) == [left : 0..d, queued : BOOLEAN]

Idle == [left |-> 0, queued |-> FALSE]

\* expires_from_now(d), then async_wait.
Arm(t, d) == [t EXCEPT !.left = d]

Cancel(t) == [t EXCEPT !.left = 0]

\* One tick passes.
Elapse(t) == [left   |-> IF t.left = 0 THEN 0 ELSE t.left - 1,
              queued |-> t.queued \/ t.left = 1]

\* The queued handler is taken from the queue.
Taken(t) == [t EXCEPT !.queued = FALSE]

Pending(t) == t.left > 0 \/ t.queued
=============================================================================
