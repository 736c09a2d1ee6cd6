---------------------------- MODULE StatusWriter ----------------------------
(***************************************************************************)
(* splitter::StatusWriter: a client of the distributor that keeps a status *)
(* file, rewritten for every status message and, without one, every        *)
(* timeout_interval.                                                       *)
(*                                                                         *)
(* Of a status message it reads the GPS timestamp bit of byte 0, the PPS   *)
(* offset of byte 1 and the flags of byte 2, a set of bits.  Of the file   *)
(* only the two colours are kept.                                          *)
(***************************************************************************)
EXTENDS AsioTimer

CONSTANT timeout_interval

ASSUME StatusWriterAssumption == timeout_interval \in Nat \ {0}

VARIABLES
  timeout_timer,
  file,       \* the colours under "radio" and "gps"; gps "none": no entry
  intact      \* the last attempt to write the file succeeded

Colour == {"green", "amber", "red"}

File == [radio : {"green", "red"}, gps : Colour \cup {"none"}]

WriterTypeOK ==
  /\ timeout_timer \in Timer(timeout_interval)
  /\ file \in File /\ intact \in BOOLEAN

\* start() has been called; a file that says "red" stands for none.
WriterInit ==
  /\ timeout_timer = Arm(Idle, timeout_interval)
  /\ file = [radio |-> "red", gps |-> "none"] /\ intact = TRUE

\* The GPS entry for a status message.  An old-style message, without 0x80,
\* is good whatever the PPS offset: the test of that is always true.
GpsColour(gps, pps, flags) ==
  IF ~gps THEN "red"
  ELSE IF "80" \notin flags THEN IF pps <= 3 \/ pps >= -3 THEN "green" ELSE "amber"
  ELSE IF "20" \in flags THEN "red"
  ELSE IF "10" \in flags THEN "green" ELSE "amber"

\* write_status_file, when is_connected() is c.  The new file replaces the
\* old one only if it could be written.
write_status_file(c, gps) ==
  \E ok \in BOOLEAN :
    /\ intact' = ok
    /\ file' = IF ok THEN [radio |-> IF c THEN "green" ELSE "red", gps |-> gps] ELSE file

\* reset_timeout, when the timer is t.  (The mutation waits until the file's
\* expiry time.)
reset_timeout_double(t) == timeout_timer' = Arm(t, timeout_interval * 2)

reset_timeout(t) == timeout_timer' = Arm(t, timeout_interval)

\* write, of a status message, which was in sync: the input is connected.
write(gps, pps, flags) ==
  /\ reset_timeout(timeout_timer)
  /\ write_status_file(TRUE, GpsColour(gps, pps, flags))

\* status_timeout, when is_connected() is c, to a Radarcape if r.  (The
\* mutation writes the file once and no more.)
status_timeout_once(c, r) ==
  /\ timeout_timer.queued /\ timeout_timer' = Taken(timeout_timer)
  /\ write_status_file(c, IF c /\ r THEN "red" ELSE "none")

status_timeout(c, r) ==
  /\ timeout_timer.queued /\ reset_timeout(Taken(timeout_timer))
  /\ write_status_file(c, IF c /\ r THEN "red" ELSE "none")
=============================================================================
