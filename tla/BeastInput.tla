----------------------------- MODULE BeastInput -----------------------------
(***************************************************************************)
(* The part of beast::BeastInput that NetInput and SerialInput share to    *)
(* watch over a connection: the autodetect, liveness and reconnect timers, *)
(* the receiver type, and good_sync.  What is said to the receiver is the  *)
(* subject of Splitter, how bytes become messages that of BeastParser;     *)
(* here a read brings one of a few kinds of chunk.                         *)
(*                                                                         *)
(* Time passes in ticks.  The intervals keep the order of the code's: 3s   *)
(* for autodetection, 15s for liveness, 60s before a reconnection.         *)
(***************************************************************************)
EXTENDS AsioTimer

CONSTANTS
  FixedRadarcape,   \* fixed_settings.radarcape, a tristate
  radarcape_detect_interval, radarcape_liveness_interval, reconnect_interval

ASSUME BeastInputAssumption ==
  /\ FixedRadarcape \in {"on", "off", "dontcare"}
  /\ radarcape_detect_interval \in Nat \ {0}
  /\ radarcape_liveness_interval \in Nat \ {0}
  /\ reconnect_interval \in Nat
  /\ radarcape_liveness_interval < reconnect_interval

VARIABLES
  receiver_type,
  good_sync,
  autodetect_timer, liveness_timer, reconnect_timer,
  status_seen       \* history: a status message came on this connection

timers == <<autodetect_timer, liveness_timer, reconnect_timer>>
base   == <<receiver_type, good_sync, status_seen, timers>>

ReceiverType == {"UNKNOWN", "BEAST", "RADARCAPE"}

\* What parse_input may find in the bytes of a read: a message that is no
\* status message, a status message, or bytes that make it lose sync.
Chunk == {"message", "status", "noise"}

BaseTypeOK ==
  /\ receiver_type \in ReceiverType
  /\ good_sync \in BOOLEAN /\ status_seen \in BOOLEAN
  /\ autodetect_timer \in Timer(radarcape_detect_interval)
  /\ liveness_timer \in Timer(radarcape_liveness_interval)
  /\ reconnect_timer \in Timer(reconnect_interval)

BaseInit ==
  /\ receiver_type = "UNKNOWN" /\ good_sync = FALSE /\ status_seen = FALSE
  /\ autodetect_timer = Idle /\ liveness_timer = Idle /\ reconnect_timer = Idle

is_connected == good_sync /\ receiver_type # "UNKNOWN"

\* send_settings_message finds something changed when the receiver turns out
\* to be of another kind: only RADARCAPE shows in the settings.
Resends(rt) == (rt = "RADARCAPE") # (receiver_type = "RADARCAPE")

\* connection_established, but for the settings message it always sends.
connection_established ==
  /\ good_sync' = FALSE /\ status_seen' = FALSE
  /\ receiver_type' = CASE FixedRadarcape = "on"  -> "RADARCAPE"
                        [] FixedRadarcape = "off" -> "BEAST"
                        [] OTHER -> "UNKNOWN"
  /\ autodetect_timer' = IF FixedRadarcape = "dontcare"
                         THEN Arm(autodetect_timer, radarcape_detect_interval)
                         ELSE Cancel(autodetect_timer)
  /\ UNCHANGED liveness_timer

\* connection_failed, when the reconnect timer is t.  The liveness timer is
\* left as it is.  (The mutation comes back sooner than that timer runs.)
connection_failed_hasty(t) ==
  /\ good_sync' = FALSE /\ status_seen' = FALSE
  /\ autodetect_timer' = Cancel(autodetect_timer)
  /\ reconnect_timer' = Arm(t, 1)
  /\ UNCHANGED receiver_type

connection_failed(t) ==
  /\ good_sync' = FALSE /\ status_seen' = FALSE
  /\ autodetect_timer' = Cancel(autodetect_timer)
  /\ reconnect_timer' = Arm(t, reconnect_interval)
  /\ UNCHANGED receiver_type

\* parse_input and dispatch_message of chunk c.  (The mutation leaves the
\* liveness timer of an earlier status message running.)
ParseInput_unrefreshed(c) ==
  /\ good_sync' = (c # "noise")
  /\ IF c = "status"
     THEN /\ status_seen' = TRUE
          /\ receiver_type' = "RADARCAPE"
          /\ autodetect_timer' = IF receiver_type = "RADARCAPE"
                                 THEN autodetect_timer
                                 ELSE Cancel(autodetect_timer)
          /\ liveness_timer' = IF liveness_timer.left > 0 THEN liveness_timer
                               ELSE Arm(liveness_timer, radarcape_liveness_interval)
     ELSE UNCHANGED <<status_seen, receiver_type, autodetect_timer,
                      liveness_timer>>
  /\ UNCHANGED reconnect_timer

ParseInput(c) ==
  /\ good_sync' = (c # "noise")
  /\ IF c = "status"
     THEN /\ status_seen' = TRUE
          /\ receiver_type' = "RADARCAPE"
          /\ autodetect_timer' = IF receiver_type = "RADARCAPE"
                                 THEN autodetect_timer
                                 ELSE Cancel(autodetect_timer)
          /\ liveness_timer' = Arm(liveness_timer, radarcape_liveness_interval)
     ELSE UNCHANGED <<status_seen, receiver_type, autodetect_timer,
                      liveness_timer>>
  /\ UNCHANGED reconnect_timer

\* The receiver type ParseInput(c) leaves.
TypeAfter(c) == IF c = "status" THEN "RADARCAPE" ELSE receiver_type

\* The handler of autodetect_timer, but for the settings message.
AutodetectTimeout ==
  /\ autodetect_timer.queued
  /\ autodetect_timer' = Taken(autodetect_timer)
  /\ receiver_type' = "BEAST"
  /\ UNCHANGED <<good_sync, status_seen, liveness_timer, reconnect_timer>>

\* A tick, for these timers.
ElapseAll ==
  /\ autodetect_timer' = Elapse(autodetect_timer)
  /\ liveness_timer'   = Elapse(liveness_timer)
  /\ reconnect_timer'  = Elapse(reconnect_timer)
  /\ UNCHANGED <<receiver_type, good_sync, status_seen>>

TimersQuiet == ~autodetect_timer.queued /\ ~liveness_timer.queued /\ ~reconnect_timer.queued
=============================================================================
