---------------------------- MODULE RelayProofs ----------------------------
(***************************************************************************)
(* For every clock, length of the day and interval of the status file: a   *)
(* time of day survives the way through two splitters, and the status file *)
(* of the second one says what is so.                                      *)
(*                                                                         *)
(* The labels: the first input's is the receiver's mode, once settled, and *)
(* the second input's is what the status byte makes of it and of the       *)
(* output's settings; of a Beast there is none, whatever was settled.      *)
(* The file: what it says was so when it was written, which is as long ago *)
(* as the timer has been running, and the timer always is.                 *)
(***************************************************************************)
EXTENDS Relay, TLAPS

-----------------------------------------------------------------------------
(* Division *)

LEMMA DivMod ==
  ASSUME NEW a \in Nat, NEW b \in Nat \ {0}
  PROVE  a \div b \in Nat /\ a % b \in 0..b-1 /\ a = (a \div b) * b + (a % b)
OBVIOUS

LEMMA Product ==
  ASSUME NEW a \in Nat, NEW b \in Nat
  PROVE  a * b \in Nat
OBVIOUS

LEMMA Grows ==
  ASSUME NEW a \in Int, NEW b \in Int, NEW c \in Nat \ {0}
  PROVE  (a <= b => a * c <= b * c) /\ (a < b => a * c < b * c)
OBVIOUS

LEMMA Small ==
  ASSUME NEW a \in Nat, NEW b \in Nat \ {0}, a < b
  PROVE  a % b = a /\ a \div b = 0
OBVIOUS

\* Quotient and remainder are the only numbers that make up a.
LEMMA Unique ==
  ASSUME NEW b \in Nat \ {0}, NEW q \in Nat, NEW r \in 0..b-1
  PROVE  (q * b + r) \div b = q /\ (q * b + r) % b = r
<1> DEFINE a == q * b + r
<1>1. a \in Nat
  BY Product
<1>2. PICK p \in Nat, s \in 0..b-1 : p = a \div b /\ s = a % b /\ a = p * b + s
  BY <1>1, DivMod
<1>3. p = q
  <2>1. CASE p < q
    <3>1. (p + 1) * b <= q * b
      BY <2>1, Grows
    <3>2. (p + 1) * b = p * b + b
      OBVIOUS
    <3> QED
      BY <1>2, <3>1, <3>2, Product
  <2>2. CASE q < p
    <3>1. (q + 1) * b <= p * b
      BY <2>2, Grows
    <3>2. (q + 1) * b = q * b + b
      OBVIOUS
    <3> QED
      BY <1>2, <3>1, <3>2, Product
  <2> QED
    BY <2>1, <2>2
<1>4. s = r
  BY <1>2, <1>3, Product
<1> QED
  BY <1>2, <1>3, <1>4

-----------------------------------------------------------------------------
(* Times of day *)

\* The constants, by name.
LEMMA Numbers ==
  /\ NsNum \in Nat \ {0} /\ NsDen \in Nat \ {0} /\ NsPerSecond \in Nat \ {0}
  /\ SecondsPerDay \in Nat \ {0} /\ NanoRange \in Nat \ {0} /\ StampRange \in Nat \ {0}
  /\ Word \in Nat \ {0} /\ Day \in Nat \ {0}
BY TimestampsAssumption DEF Day

\* Any number of days apart.
LEMMA NearDays ==
  ASSUME NEW x \in Nat, NEW y \in Nat, NEW k \in Nat, y = x + k * Day
  PROVE  Near(x, y)
<1>1. (x - y) % Day = 0
  BY Numbers
<1>2. 0 * NsDen < NsNum + NsDen
  BY Numbers
<1> QED
  BY <1>1, <1>2 DEF Near

\* A little less.
LEMMA NearBelow ==
  ASSUME NEW x \in Nat, NEW y \in 0..Day-1, x <= y, (y - x) * NsDen < NsNum + NsDen
  PROVE  Near(x, y)
<1>1. CASE x = y
  <2>1. y = x + 0 * Day
    BY <1>1, Numbers
  <2> QED
    BY <2>1, NearDays
<1>2. CASE x < y
  <2>1. (x - y) % Day = Day - (y - x)
    BY <1>2, Numbers
  <2>2. Day - (Day - (y - x)) = y - x
    BY Numbers
  <2> QED
    BY <2>1, <2>2 DEF Near
<1> QED
  BY <1>1, <1>2

\* ToGps keeps the time of day to the nanosecond.
LEMMA GpsKept ==
  ASSUME NEW t \in Stamps(FALSE)
  PROVE  Near(Nanoseconds(TRUE, OnWire(ToGps(t))), Nanoseconds(FALSE, t))
<1>1. t \in Nat /\ t < StampRange
  BY Numbers DEF Stamps
<1>2. t * NsNum \in Nat /\ t * NsNum < Word
  <2>1. t * NsNum < StampRange * NsNum
    BY <1>1, Numbers, Grows
  <2> QED
    BY <1>1, <2>1, Numbers, TimestampsAssumption, Product
<1>3. (t * NsNum) % Word = t * NsNum
  BY <1>2, Numbers, Small
<1>4. PICK ns \in Nat : ns = (t * NsNum) \div NsDen
  BY <1>2, Numbers, DivMod
<1>5. PICK m \in Nat, r \in 0..NsPerSecond-1 :
        m = ns \div NsPerSecond /\ r = ns % NsPerSecond /\ ns = m * NsPerSecond + r
  BY Numbers, DivMod
<1>6. PICK k \in Nat, s \in 0..SecondsPerDay-1 : s = m % SecondsPerDay /\ m = k * SecondsPerDay + s
  BY Numbers, DivMod
<1>7. ToGps(t) = s * NanoRange + r
  BY <1>3, <1>4, <1>5, <1>6 DEF ToGps
<1>8. r \in 0..NanoRange-1
  BY Numbers, TimestampsAssumption
<1>9. s * NanoRange + r \in Nat /\ s * NanoRange + r < StampRange
  <2>1. (s + 1) * NanoRange <= SecondsPerDay * NanoRange
    BY Numbers, Grows
  <2>2. (s + 1) * NanoRange = s * NanoRange + NanoRange
    BY Numbers
  <2>3. s * NanoRange \in Nat /\ SecondsPerDay * NanoRange \in Nat
    BY Numbers, Product
  <2> QED
    BY <1>8, <2>1, <2>2, <2>3, Numbers, TimestampsAssumption
<1>10. OnWire(ToGps(t)) = s * NanoRange + r
  BY <1>7, <1>9, Small, Numbers DEF OnWire
<1>11. Nanoseconds(TRUE, OnWire(ToGps(t))) = s * NsPerSecond + r
  <2>1. (s * NanoRange + r) \div NanoRange = s /\ (s * NanoRange + r) % NanoRange = r
    BY <1>8, Numbers, Unique
  <2> QED
    BY <1>10, <2>1 DEF Nanoseconds
<1>12. Nanoseconds(FALSE, t) = ns
  BY <1>4 DEF Nanoseconds
<1>13. ns = (s * NsPerSecond + r) + k * Day
  <2>1. (k * SecondsPerDay + s) * NsPerSecond = (k * SecondsPerDay) * NsPerSecond + s * NsPerSecond
    BY Numbers
  <2>2. (k * SecondsPerDay) * NsPerSecond = k * Day
    BY Numbers DEF Day
  <2>3. s * NsPerSecond \in Nat /\ k * Day \in Nat
    BY Numbers, Product
  <2> QED
    BY <1>5, <1>6, <2>1, <2>2, <2>3
<1>14. s * NsPerSecond + r \in Nat
  BY Numbers, Product
<1> QED
  BY <1>11, <1>12, <1>13, <1>14, NearDays

\* To12MHz loses less than a count, and the reading of it less than a
\* nanosecond.
LEMMA CountKept ==
  ASSUME NEW t \in Stamps(TRUE)
  PROVE  Near(Nanoseconds(FALSE, OnWire(To12MHz(t))), Nanoseconds(TRUE, t))
<1>1. PICK s \in 0..SecondsPerDay-1, n \in 0..NsPerSecond-1 : t = s * NanoRange + n
  BY DEF Stamps
<1>2. n \in 0..NanoRange-1
  BY Numbers, TimestampsAssumption
<1>3. t \div NanoRange = s /\ t % NanoRange = n
  BY <1>1, <1>2, Numbers, Unique
<1>4. PICK ns \in Nat : ns = s * NsPerSecond + n
  BY Numbers, Product
<1>5. Nanoseconds(TRUE, t) = ns
  BY <1>3, <1>4 DEF Nanoseconds
<1>6. ns \in 0..Day-1
  <2>1. (s + 1) * NsPerSecond <= SecondsPerDay * NsPerSecond
    BY Numbers, Grows
  <2>2. (s + 1) * NsPerSecond = s * NsPerSecond + NsPerSecond
    BY Numbers
  <2> QED
    BY <1>4, <2>1, <2>2, Numbers, Product DEF Day
<1>7. ns < StampRange
  <2>1. NsPerSecond * SecondsPerDay <= NanoRange * SecondsPerDay
    BY Numbers, TimestampsAssumption, Grows
  <2> QED
    BY <1>6, <2>1, Numbers, TimestampsAssumption DEF Day
<1>8. ns * NsDen \in Nat /\ ns * NsDen <= ns * NsNum /\ ns * NsDen < Word
  <2>1. ns * NsDen <= ns * NsNum
    BY Numbers, TimestampsAssumption
  <2>2. ns * NsNum < StampRange * NsNum
    BY <1>7, Numbers, Grows
  <2> QED
    BY <2>1, <2>2, Numbers, TimestampsAssumption, Product
<1>9. PICK q \in Nat, r \in 0..NsNum-1 : q = (ns * NsDen) \div NsNum /\ ns * NsDen = q * NsNum + r
  BY <1>8, Numbers, DivMod
<1>10. To12MHz(t) = q
  <2>1. (ns * NsDen) % Word = ns * NsDen
    BY <1>8, Numbers, Small
  <2> QED
    BY <1>3, <1>4, <1>9, <2>1 DEF To12MHz
<1>11. q < StampRange
  <2>1. CASE q > ns
    <3>1. ns * NsNum < q * NsNum
      BY <2>1, Numbers, Grows
    <3> QED
      BY <1>8, <1>9, <3>1, Numbers, Product
  <2> QED
    BY <1>7, <2>1, Numbers
<1>12. OnWire(To12MHz(t)) = q
  BY <1>10, <1>11, Numbers, Small DEF OnWire
<1>13. PICK x \in Nat, u \in 0..NsDen-1 : x = (q * NsNum) \div NsDen /\ q * NsNum = x * NsDen + u
  BY Numbers, DivMod, Product
<1>14. Nanoseconds(FALSE, OnWire(To12MHz(t))) = x
  BY <1>12, <1>13 DEF Nanoseconds
<1>15. ns * NsDen = x * NsDen + u + r
  BY <1>9, <1>13, Numbers, Product
<1>16. x <= ns
  <2>1. CASE x > ns
    <3>1. ns * NsDen < x * NsDen
      BY <2>1, Numbers, Grows
    <3> QED
      BY <1>15, <3>1, Numbers, Product
  <2> QED
    BY <2>1
<1>17. (ns - x) * NsDen < NsNum + NsDen
  <2>1. (ns - x) * NsDen = ns * NsDen - x * NsDen
    BY Numbers
  <2> QED
    BY <1>15, <2>1, Numbers, Product
<1> QED
  BY <1>5, <1>6, <1>14, <1>16, <1>17, NearBelow

\* A stamp that is passed on as it is.
LEMMA StampKept ==
  ASSUME NEW gps \in BOOLEAN, NEW t \in Stamps(gps)
  PROVE  Near(Nanoseconds(gps, OnWire(t)), Nanoseconds(gps, t))
<1>1. t \in Nat /\ t < StampRange
  <2>1. CASE gps = FALSE
    BY <2>1, Numbers DEF Stamps
  <2>2. CASE gps = TRUE
    <3>1. PICK s \in 0..SecondsPerDay-1, n \in 0..NsPerSecond-1 : t = s * NanoRange + n
      BY <2>2 DEF Stamps
    <3>2. (s + 1) * NanoRange <= SecondsPerDay * NanoRange
      BY Numbers, Grows
    <3>3. (s + 1) * NanoRange = s * NanoRange + NanoRange
      BY Numbers
    <3>4. s * NanoRange \in Nat /\ SecondsPerDay * NanoRange \in Nat
      BY Numbers, Product
    <3> QED
      BY <3>1, <3>2, <3>3, <3>4, Numbers, TimestampsAssumption
  <2> QED
    BY <2>1, <2>2
<1>2. OnWire(t) = t
  BY <1>1, Numbers, Small DEF OnWire
<1>3. Nanoseconds(gps, t) \in Nat
  <2>1. (t * NsNum) \div NsDen \in Nat
    <3>1. t * NsNum \in Nat
      BY <1>1, Numbers, Product
    <3> QED
      BY <3>1, Numbers, DivMod
  <2>2. t \div NanoRange \in Nat /\ t % NanoRange \in Nat
    <3>1. t \div NanoRange \in Nat /\ t % NanoRange \in 0..NanoRange-1
      BY <1>1, Numbers, DivMod
    <3> QED
      BY <3>1, Numbers
  <2>3. (t \div NanoRange) * NsPerSecond \in Nat
    BY <2>2, Numbers, Product
  <2>4. (t \div NanoRange) * NsPerSecond + (t % NanoRange) \in Nat
    BY <2>2, <2>3
  <2> QED
    BY <2>1, <2>4 DEF Nanoseconds
<1>4. Nanoseconds(gps, t) = Nanoseconds(gps, t) + 0 * Day
  BY <1>3, Numbers
<1> QED
  BY <1>2, <1>3, <1>4, NearDays

-----------------------------------------------------------------------------
(* Settings and labels *)

\* Whether the status byte an output sends says that timestamps are GPS time,
\* when it plays a Radarcape and the receiver's mode is m.
Label(s, m) == s.gps_timestamps = "on" \/ (s.gps_timestamps = "dontcare" /\ m)

LEMMA ListenerType == Listeners \subseteq Settings
<1> SUFFICES ASSUME NEW g PROVE FromString(g) \in Settings
  BY DEF Listeners
<1> DEFINE s == [n \in SettingName |-> IF n \in DOMAIN g THEN Tri(g[n]) ELSE "dontcare"]
<1>1. \A b : Tri(b) \in Tristate
  BY DEF Tri, Tristate
<1>2. s \in Settings
  BY <1>1 DEF Settings, Tristate
<1>3. [s EXCEPT !.gps_timestamps = "off"] \in Settings /\ [s EXCEPT !.filter_0_4_5 = "off"] \in Settings
  <2> HIDE DEF s
  <2> QED
    BY <1>2 DEF Settings, Tristate
<1>4. FromString(g) \in {s, [s EXCEPT !.gps_timestamps = "off"], [s EXCEPT !.filter_0_4_5 = "off"]}
  <2>1. FromString(g) = CASE s.radarcape = "off" /\ s.gps_timestamps # "dontcare" ->
                               [s EXCEPT !.gps_timestamps = "off"]
                          [] s.radarcape = "on" /\ s.filter_0_4_5 # "dontcare" ->
                               [s EXCEPT !.filter_0_4_5 = "off"]
                          [] OTHER -> s
    BY DEF FromString
  <2> HIDE DEF s
  <2> QED
    BY <2>1
<1> QED
  BY <1>2, <1>3, <1>4

LEMMA SettingValues ==
  ASSUME NEW s \in Settings
  PROVE  /\ s.radarcape \in {"on", "off", "dontcare"}
         /\ s.gps_timestamps \in {"on", "off", "dontcare"}
BY DEF Settings, SettingName, Tristate

\* A g or G command leaves settings, and does not make a Beast of a Radarcape.
LEMMA CommandKeepsType ==
  ASSUME NEW s \in Settings, NEW c, c.letter = "g"
  PROVE  ProcessOptions(s, {c}) \in Settings /\ ProcessOptions(s, {c}).radarcape = s.radarcape
<1>1. \A b : Tri(b) \in Tristate
  BY DEF Tri, Tristate
<1>2. \A n \in SettingName : s[n] \in Tristate
  BY DEF Settings
<1>3. ProcessOptions(s, {c}) \in Settings
  BY <1>1, <1>2 DEF ProcessOptions, Settings
<1>4. OptionTarget(s, "g") # "radarcape"
  BY DEF OptionTarget
<1>5. ProcessOptions(s, {c})["radarcape"] = s["radarcape"]
  BY <1>4 DEF ProcessOptions, SettingName
<1> QED
  BY <1>3, <1>5

LEMMA WantsStatusMeans ==
  ASSUME NEW s
  PROVE  WantsStatus(s) <=> s.radarcape # "off"
BY DEF WantsStatus, ToFilter, FilterFlag

\* The byte says what Label says.
LEMMA StatusByteLabel ==
  ASSUME NEW s \in Settings, s.radarcape # "off", NEW b
  PROVE  "gps_timestamps" \in StatusByte(s, b) <=> Label(s, "gps_timestamps" \in b)
<1> DEFINE u == OrElse(s, FromStatusByte(b))
<1>1. /\ FromStatusByte(b)["radarcape"] = "on"
      /\ FromStatusByte(b)["gps_timestamps"] = Tri("gps_timestamps" \in b)
  BY DEF FromStatusByte, SettingName, StatusBit
<1>2. /\ u["radarcape"] = IF s["radarcape"] = "dontcare" THEN "on" ELSE s["radarcape"]
      /\ u["gps_timestamps"] = IF s["gps_timestamps"] = "dontcare"
                               THEN Tri("gps_timestamps" \in b) ELSE s["gps_timestamps"]
  BY <1>1 DEF OrElse, SettingName
<1> HIDE DEF u
<1>3. u["radarcape"] = "on"
  BY <1>2, SettingValues
<1>4. IsSet(u, "radarcape")
  BY <1>3 DEF IsSet
<1>5. IsSet(u, "gps_timestamps") <=> Label(s, "gps_timestamps" \in b)
  BY <1>2, SettingValues DEF IsSet, Label, Tri
<1>6. "gps_timestamps" \in ToStatusByte(u) <=> IsSet(u, "gps_timestamps")
  BY <1>4 DEF ToStatusByte, StatusBit
<1> QED
  BY <1>5, <1>6 DEF StatusByte, u

\* The scaling of write_message goes with the label: a stamp means the same
\* time of day before and after.
LEMMA RescaledKept ==
  ASSUME NEW s \in Settings, NEW m \in BOOLEAN, NEW g \in BOOLEAN, NEW t \in Stamps(m),
         g = IF s.radarcape = "off" THEN FALSE ELSE Label(s, m)
  PROVE  Near(Nanoseconds(g, Rescaled(s, m, t)), Nanoseconds(m, t))
<1>1. CASE m = FALSE /\ s.radarcape # "off" /\ s.gps_timestamps = "on"
  <2>1. Rescaled(s, m, t) = OnWire(ToGps(t))
    BY <1>1 DEF Rescaled
  <2>2. g = TRUE
    BY <1>1 DEF Label
  <2> QED
    BY <1>1, <2>1, <2>2, GpsKept
<1>2. CASE m = TRUE /\ (s.radarcape = "off" \/ s.gps_timestamps = "off")
  <2>1. Rescaled(s, m, t) = OnWire(To12MHz(t))
    BY <1>2 DEF Rescaled
  <2>2. g = FALSE
    BY <1>2 DEF Label
  <2> QED
    BY <1>2, <2>1, <2>2, CountKept
<1>3. CASE /\ ~(m = FALSE /\ s.radarcape # "off" /\ s.gps_timestamps = "on")
           /\ ~(m = TRUE /\ (s.radarcape = "off" \/ s.gps_timestamps = "off"))
  <2>1. Rescaled(s, m, t) = OnWire(t)
    BY <1>3 DEF Rescaled
  <2>2. g = m
    BY <1>3, SettingValues DEF Label
  <2> QED
    BY <2>1, <2>2, StampKept
<1> QED
  BY <1>1, <1>2, <1>3

-----------------------------------------------------------------------------
(* The invariant *)

Good == {"green", "amber"}

\* How the inputs label what they receive, and that an output that plays a
\* Beast never does, nor lets a status message through.
Labels ==
  /\ settings.radarcape = listener.radarcape
  /\ settled => gps1 = mode
  /\ settings.radarcape = "off" => gps2 = FALSE /\ file.gps \notin Good
  /\ settled /\ settings.radarcape # "off" => gps2 = Label(settings, mode)

\* What the file says was so when the timer was last set.
FileAge ==
  LET age == timeout_interval - timeout_timer.left
  IN  intact => /\ (file.radio = "green") # is_connected => stale <= age
                /\ file.gps \in Good => silent <= age

Inv == TypeOK /\ Labels /\ GreenMeansGps /\ FileAge /\ Pending(timeout_timer)

LEMMA TimerFields ==
  ASSUME WriterTypeOK
  PROVE  /\ timeout_interval \in Nat \ {0}
         /\ timeout_timer.left \in 0..timeout_interval /\ timeout_timer.queued \in BOOLEAN
BY StatusWriterAssumption DEF WriterTypeOK, Timer

\* The timer is set anew, the handler taken from the queue or not.
LEMMA TimerSet ==
  ASSUME WriterTypeOK,
         timeout_timer' = Arm(timeout_timer, timeout_interval)
           \/ timeout_timer' = Arm(Taken(timeout_timer), timeout_interval)
  PROVE  /\ timeout_timer' \in Timer(timeout_interval)
         /\ timeout_timer'.left = timeout_interval /\ Pending(timeout_timer)'
<1>1. timeout_timer' \in Timer(timeout_interval)
  <2>1. timeout_interval \in 0..timeout_interval
    BY StatusWriterAssumption
  <2>2. timeout_timer \in Timer(timeout_interval) /\ Taken(timeout_timer) \in Timer(timeout_interval)
    BY DEF WriterTypeOK, Timer, Taken
  <2>3. ASSUME NEW t \in Timer(timeout_interval)
        PROVE  Arm(t, timeout_interval) \in Timer(timeout_interval)
    BY <2>1 DEF Timer, Arm
  <2> QED
    BY <2>2, <2>3
<1>2. timeout_timer'.left = timeout_interval
  BY DEF WriterTypeOK, Timer, Arm, Taken
<1>3. Pending(timeout_timer)'
  BY <1>2, StatusWriterAssumption DEF Pending
<1> QED
  BY <1>1, <1>2, <1>3

\* A tick while nothing is queued.
LEMMA TimerTicks ==
  ASSUME WriterTypeOK, Pending(timeout_timer), timeout_timer.queued = FALSE,
         timeout_timer' = Elapse(timeout_timer)
  PROVE  /\ timeout_timer' \in Timer(timeout_interval) /\ Pending(timeout_timer)'
         /\ timeout_timer'.left = timeout_timer.left - 1 /\ timeout_timer.left > 0
<1>1. timeout_timer.left \in 1..timeout_interval
  BY TimerFields DEF Pending
<1>2. timeout_timer'.left = timeout_timer.left - 1
  BY <1>1 DEF Elapse
<1>3. timeout_timer'.queued = (timeout_timer.queued \/ timeout_timer.left = 1)
  BY DEF Elapse
<1>4. timeout_timer' \in Timer(timeout_interval)
  <2>1. timeout_timer.left - 1 \in 0..timeout_interval
    BY <1>1, StatusWriterAssumption
  <2>2. (timeout_timer.queued \/ timeout_timer.left = 1) \in BOOLEAN
    OBVIOUS
  <2>3. timeout_timer' = [left |-> timeout_timer.left - 1,
                          queued |-> (timeout_timer.queued \/ timeout_timer.left = 1)]
    BY <1>1 DEF Elapse
  <2> QED
    BY <2>1, <2>2, <2>3 DEF Timer
<1>5. Pending(timeout_timer)'
  <2>1. CASE timeout_timer.left = 1
    BY <1>3, <2>1 DEF Pending
  <2>2. CASE timeout_timer.left # 1
    BY <1>1, <1>2, <2>2 DEF Pending
  <2> QED
    BY <2>1, <2>2
<1> QED
  BY <1>1, <1>2, <1>4, <1>5

LEMMA ColourType ==
  ASSUME NEW gps, NEW pps, NEW flags
  PROVE  GpsColour(gps, pps, flags) \in Colour
BY DEF GpsColour, Colour

\* write_status_file leaves a file, and an intact one is the one it wrote.
LEMMA FileWritten ==
  ASSUME WriterTypeOK, NEW c, NEW colour \in Colour \cup {"none"}, write_status_file(c, colour)
  PROVE  /\ file' \in File /\ intact' \in BOOLEAN
         /\ intact' => file'.radio = (IF c THEN "green" ELSE "red") /\ file'.gps = colour
         /\ file'.gps \in {file.gps, colour}
<1>1. PICK ok \in BOOLEAN :
        /\ intact' = ok
        /\ file' = IF ok THEN [radio |-> IF c THEN "green" ELSE "red", gps |-> colour] ELSE file
  BY DEF write_status_file
<1>2. CASE ok = TRUE
  <2>1. file' = [radio |-> IF c THEN "green" ELSE "red", gps |-> colour]
    BY <1>1, <1>2
  <2>2. file'.radio = (IF c THEN "green" ELSE "red") /\ file'.gps = colour
    BY <2>1
  <2>3. file' \in File
    BY <2>1 DEF File
  <2> QED
    BY <1>1, <2>2, <2>3
<1>3. CASE ok = FALSE
  <2>1. intact' = FALSE /\ file' = file
    BY <1>1, <1>3
  <2> QED
    BY <2>1 DEF WriterTypeOK
<1> QED
  BY <1>2, <1>3

\* A status message that reaches the second splitter.
LEMMA StatusPasses ==
  ASSUME Inv, NEW flags \in FlagSets, NEW pps \in Offsets, Status(flags, pps),
         settings.radarcape # "off"
  PROVE  Inv'
<1> DEFINE b == {"binary_format"} \cup (IF mode THEN {"gps_timestamps"} ELSE {})
           gps == "gps_timestamps" \in StatusByte(settings, b)
           colour == GpsColour(gps, pps, StatusFlags(settings, b, flags))
<1>1. "gps_timestamps" \in b <=> mode
  OBVIOUS
<1>2. /\ gps1' = mode /\ gps2' = gps /\ receiver_type' = "RADARCAPE" /\ good_sync' = TRUE
      /\ write(gps, pps, StatusFlags(settings, b, flags))
      /\ Turns(TRUE) /\ silent' = 0 /\ settled' = TRUE
      /\ UNCHANGED <<mode, listener, settings>>
  BY WantsStatusMeans DEF Status
<1>3. gps <=> Label(settings, mode)
  BY <1>1, StatusByteLabel DEF Inv, TypeOK
<1>4. colour \in Good => gps /\ mode
  <2>1. gps /\ ~mode => "80" \in StatusFlags(settings, b, flags) /\ "20" \in StatusFlags(settings, b, flags)
    <3>1. gps /\ ~mode => settings.gps_timestamps = "on" /\ "gps_timestamps" \notin b
      BY <1>1, <1>3 DEF Label
    <3> HIDE DEF b
    <3> QED
      BY <3>1 DEF StatusFlags
  <2> QED
    BY <2>1 DEF GpsColour, Good
<1>5. /\ timeout_timer' \in Timer(timeout_interval) /\ timeout_timer'.left = timeout_interval
      /\ Pending(timeout_timer)'
  BY <1>2, TimerSet DEF Inv, TypeOK, write, reset_timeout
<1>6. colour \in Colour
  BY ColourType
<1>7. /\ file' \in File /\ intact' \in BOOLEAN
      /\ intact' => file'.radio = "green" /\ file'.gps = colour
  BY <1>2, <1>6, FileWritten DEF Inv, TypeOK, write
<1>8. is_connected'
  BY <1>2 DEF is_connected
<1>9. TypeOK'
  <2>1. stale' \in 0..Late /\ silent' \in 0..Late
    BY <1>2, StatusWriterAssumption DEF Inv, TypeOK, Turns, Late
  <2>2. gps2' \in BOOLEAN
    BY <1>2
  <2> QED
    BY <1>2, <1>5, <1>7, <2>1, <2>2 DEF Inv, TypeOK, WriterTypeOK
<1> HIDE DEF b, gps, colour
<1>10. Labels'
  <2>1. gps2' = Label(settings, mode)
    BY <1>2, <1>3 DEF gps, Label
  <2>2. Label(settings, mode)' = Label(settings, mode)
    BY <1>2 DEF Label
  <2> QED
    BY <1>2, <2>1, <2>2 DEF Inv, Labels
<1>11. GreenMeansGps'
  BY <1>2, <1>4, <1>7 DEF GreenMeansGps, Good
<1>12. FileAge'
  <2>1. timeout_interval - timeout_timer'.left = 0 /\ silent' <= 0
    BY <1>2, <1>5, StatusWriterAssumption
  <2>2. intact' => ((file.radio = "green") = is_connected)'
    BY <1>7, <1>8
  <2> QED
    BY <2>1, <2>2 DEF FileAge
<1> QED
  BY <1>5, <1>9, <1>10, <1>11, <1>12 DEF Inv

\* One that the first output keeps from it.
LEMMA StatusStops ==
  ASSUME Inv, NEW flags \in FlagSets, NEW pps \in Offsets, Status(flags, pps),
         settings.radarcape = "off"
  PROVE  Inv'
<1>1. /\ gps1' = mode /\ settled' = TRUE
      /\ UNCHANGED <<mode, listener, settings, input2, writer, ages>>
  BY WantsStatusMeans DEF Status
<1>2. TypeOK' /\ Pending(timeout_timer)'
  BY <1>1 DEF Inv, TypeOK, WriterTypeOK, input2, writer, ages
<1>3. Labels' /\ GreenMeansGps'
  BY <1>1 DEF Inv, Labels, GreenMeansGps, Good, input2, writer, ages
<1>4. FileAge'
  BY <1>1 DEF Inv, FileAge, is_connected, input2, writer, ages
<1> QED
  BY <1>2, <1>3, <1>4 DEF Inv

LEMMA SettingsCommandInv ==
  ASSUME Inv, NEW on \in BOOLEAN, SettingsCommand(on)
  PROVE  Inv'
<1>1. /\ settings' = ProcessOptions(settings, {[letter |-> "g", on |-> on]})
      /\ settled' = (settled /\ settings' = settings)
      /\ UNCHANGED <<mode, listener, gps1, input2, writer, ages>>
  BY DEF SettingsCommand
<1>2. settings' \in Settings /\ settings'.radarcape = settings.radarcape
  BY <1>1, CommandKeepsType DEF Inv, TypeOK
<1>3. settled' => settled /\ settings' = settings
  BY <1>1
<1>4. settled' \in BOOLEAN
  BY <1>1
<1>5. TypeOK' /\ Pending(timeout_timer)'
  BY <1>1, <1>2, <1>4 DEF Inv, TypeOK, WriterTypeOK, input2, writer, ages
<1>6. Labels' /\ GreenMeansGps'
  BY <1>1, <1>2, <1>3 DEF Inv, Labels, Label, GreenMeansGps, input2, writer
<1>7. FileAge'
  BY <1>1 DEF Inv, FileAge, is_connected, input2, writer, ages
<1> QED
  BY <1>5, <1>6, <1>7 DEF Inv

\* is_connected becomes c, and nothing is written.
LEMMA TurnsAge ==
  ASSUME Inv, NEW c \in BOOLEAN, Turns(c), is_connected' <=> c, UNCHANGED <<writer, silent>>
  PROVE  stale' \in 0..Late /\ FileAge'
<1>1. CASE c <=> is_connected
  <2>1. stale' = stale
    BY <1>1 DEF Turns, is_connected
  <2>2. is_connected' <=> is_connected
    BY <1>1
  <2>3. FileAge'
    <3>1. UNCHANGED <<timeout_timer, file, intact, silent>>
      BY DEF writer
    <3>2. ((file.radio = "green") # is_connected)' => ((file.radio = "green") # is_connected)
      BY <2>2, <3>1 DEF is_connected
    <3>3. FileAge
      BY DEF Inv
    <3> QED
      BY <2>1, <3>1, <3>2, <3>3 DEF FileAge
  <2> QED
    BY <2>1, <2>3 DEF Inv, TypeOK
<1>2. CASE ~(c <=> is_connected)
  <2>1. stale' = 0
    BY <1>2 DEF Turns, is_connected
  <2>2. timeout_interval - timeout_timer.left >= 0 /\ Late \in Nat
    BY TimerFields DEF Inv, TypeOK, Late
  <2>3. FileAge'
    BY <2>1, <2>2 DEF Inv, FileAge, writer
  <2> QED
    BY <2>1, <2>2, <2>3
<1> QED
  BY <1>1, <1>2

LEMMA StatusTimeoutInv ==
  ASSUME Inv, StatusTimeout
  PROVE  Inv'
<1> DEFINE colour == IF is_connected /\ receiver_type = "RADARCAPE" THEN "red" ELSE "none"
<1>1. /\ timeout_timer' = Arm(Taken(timeout_timer), timeout_interval)
      /\ write_status_file(is_connected, colour)
      /\ UNCHANGED <<mode, listener, settings, gps1, input2, settled, ages>>
  BY DEF StatusTimeout, status_timeout, reset_timeout
<1>2. colour \in Colour \cup {"none"} /\ colour \notin Good
  BY DEF Colour, Good
<1>3. /\ timeout_timer' \in Timer(timeout_interval) /\ timeout_timer'.left = timeout_interval
      /\ Pending(timeout_timer)'
  BY <1>1, TimerSet DEF Inv, TypeOK
<1> HIDE DEF colour
<1>4. /\ file' \in File /\ intact' \in BOOLEAN
      /\ intact' => file'.radio = (IF is_connected THEN "green" ELSE "red") /\ file'.gps = colour
      /\ file'.gps \in {file.gps, colour}
  BY <1>1, <1>2, FileWritten DEF Inv, TypeOK
<1>5. TypeOK'
  BY <1>1, <1>3, <1>4 DEF Inv, TypeOK, WriterTypeOK, input2, ages
<1>6. Labels'
  BY <1>1, <1>2, <1>4 DEF Inv, Labels, Label, input2
<1>7. GreenMeansGps'
  BY <1>2, <1>4 DEF GreenMeansGps, Good
<1>8. FileAge'
  <2>1. is_connected' = is_connected
    BY <1>1 DEF is_connected, input2
  <2>2. intact' => ((file.radio = "green") = is_connected)' /\ file'.gps \notin Good
    BY <1>2, <1>4, <2>1 DEF is_connected
  <2> QED
    BY <2>2 DEF FileAge
<1> QED
  BY <1>3, <1>5, <1>6, <1>7, <1>8 DEF Inv

LEMMA TickInv ==
  ASSUME Inv, Tick
  PROVE  Inv'
<1>1. /\ timeout_timer.queued = FALSE /\ timeout_timer' = Elapse(timeout_timer)
      /\ stale'  = (IF stale  = Late THEN Late ELSE stale + 1)
      /\ silent' = (IF silent = Late THEN Late ELSE silent + 1)
      /\ UNCHANGED <<mode, listener, settings, gps1, input2, settled, file, intact>>
  BY TimerFields DEF Tick, Inv, TypeOK
<1>2. /\ timeout_timer' \in Timer(timeout_interval) /\ Pending(timeout_timer)'
      /\ timeout_timer'.left = timeout_timer.left - 1 /\ timeout_timer.left > 0
  BY <1>1, TimerTicks DEF Inv, TypeOK
<1>3. /\ timeout_interval \in Nat /\ timeout_timer.left \in 0..timeout_interval
      /\ stale \in 0..Late /\ silent \in 0..Late /\ Late = timeout_interval + 1
  BY TimerFields DEF Inv, TypeOK, Late
<1>4. stale' \in 0..Late /\ silent' \in 0..Late
  BY <1>1, <1>3
<1>5. TypeOK'
  BY <1>1, <1>2, <1>4 DEF Inv, TypeOK, WriterTypeOK, input2
<1>6. Labels' /\ GreenMeansGps'
  BY <1>1 DEF Inv, Labels, Label, GreenMeansGps, input2
<1>7. FileAge'
  <2>1. /\ stale <= timeout_interval - timeout_timer.left =>
              stale' <= timeout_interval - timeout_timer'.left
        /\ silent <= timeout_interval - timeout_timer.left =>
              silent' <= timeout_interval - timeout_timer'.left
    BY <1>1, <1>2, <1>3
  <2>2. is_connected' = is_connected
    BY <1>1 DEF is_connected, input2
  <2> QED
    BY <1>1, <2>1, <2>2 DEF Inv, FileAge
<1> QED
  BY <1>2, <1>5, <1>6, <1>7 DEF Inv

LEMMA InitInv == Init => Inv
<1> SUFFICES ASSUME Init PROVE Inv
  OBVIOUS
<1> USE DEF Init, WriterInit
<1>1. /\ timeout_timer \in Timer(timeout_interval) /\ timeout_timer.left = timeout_interval
      /\ Pending(timeout_timer)
  <2>1. timeout_timer = [left |-> timeout_interval, queued |-> FALSE]
    BY DEF Arm, Idle
  <2> QED
    BY <2>1, StatusWriterAssumption DEF Timer, Pending
<1>2. listener \in Settings
  BY ListenerType
<1>3. TypeOK
  <2>1. stale \in 0..Late /\ silent \in 0..Late
    BY StatusWriterAssumption DEF Late
  <2>2. file \in File
    BY DEF File
  <2> QED
    BY <1>1, <1>2, <2>1, <2>2 DEF TypeOK, WriterTypeOK
<1>4. Labels /\ GreenMeansGps
  BY DEF Labels, GreenMeansGps, Good
<1>5. FileAge
  BY DEF FileAge, is_connected, Good
<1> QED
  BY <1>1, <1>3, <1>4, <1>5 DEF Inv

LEMMA NextInv == Inv /\ [Next]_vars => Inv'
<1> SUFFICES ASSUME Inv, [Next]_vars PROVE Inv'
  OBVIOUS
<1>1. ASSUME NEW flags \in FlagSets, NEW pps \in Offsets, Status(flags, pps) PROVE Inv'
  BY <1>1, StatusPasses, StatusStops
<1>2. CASE ModeChanges
  <2> USE <1>2 DEF ModeChanges, Inv, input2, writer, ages
  <2>1. TypeOK' /\ Pending(timeout_timer)'
    BY DEF TypeOK, WriterTypeOK
  <2>2. Labels' /\ GreenMeansGps'
    BY DEF Labels, GreenMeansGps
  <2>3. FileAge'
    BY DEF FileAge, is_connected
  <2> QED
    BY <2>1, <2>2, <2>3
<1>3. ASSUME NEW on \in BOOLEAN, SettingsCommand(on) PROVE Inv'
  BY <1>3, SettingsCommandInv
<1>4. CASE Reconnects1
  <2> USE <1>4 DEF Reconnects1, Inv, input2, writer, ages
  <2>1. TypeOK' /\ Pending(timeout_timer)'
    BY DEF TypeOK, WriterTypeOK
  <2>2. Labels' /\ GreenMeansGps'
    BY DEF Labels, GreenMeansGps
  <2>3. FileAge'
    BY DEF FileAge, is_connected
  <2> QED
    BY <2>1, <2>2, <2>3
<1>5. ASSUME NEW rt \in {"UNKNOWN", "BEAST", "RADARCAPE"}, Reconnects2(rt) PROVE Inv'
  <2> USE <1>5 DEF Reconnects2, writer
  <2>1. ~is_connected'
    BY DEF is_connected
  <2>2. stale' \in 0..Late /\ FileAge'
    BY <2>1, TurnsAge
  <2>3. TypeOK' /\ Pending(timeout_timer)'
    BY <2>2 DEF Inv, TypeOK, WriterTypeOK
  <2>4. Labels' /\ GreenMeansGps'
    BY DEF Inv, Labels, GreenMeansGps
  <2> QED
    BY <2>2, <2>3, <2>4 DEF Inv
<1>6. CASE LosesSync
  <2> USE <1>6 DEF LosesSync, writer
  <2>1. ~is_connected'
    BY DEF is_connected
  <2>2. stale' \in 0..Late /\ FileAge'
    BY <2>1, TurnsAge
  <2>3. TypeOK' /\ Pending(timeout_timer)'
    BY <2>2 DEF Inv, TypeOK, WriterTypeOK
  <2>4. Labels' /\ GreenMeansGps'
    BY DEF Inv, Labels, Label, GreenMeansGps
  <2> QED
    BY <2>2, <2>3, <2>4 DEF Inv
<1>7. ASSUME NEW rt \in {"UNKNOWN", "BEAST", "RADARCAPE"}, SeesMessage(rt) PROVE Inv'
  <2> USE <1>7 DEF SeesMessage, writer
  <2>1. is_connected' <=> rt # "UNKNOWN"
    BY DEF is_connected
  <2>2. stale' \in 0..Late /\ FileAge'
    BY <2>1, TurnsAge
  <2>3. TypeOK' /\ Pending(timeout_timer)'
    BY <2>2 DEF Inv, TypeOK, WriterTypeOK
  <2>4. Labels' /\ GreenMeansGps'
    BY DEF Inv, Labels, Label, GreenMeansGps
  <2> QED
    BY <2>2, <2>3, <2>4 DEF Inv
<1>8. CASE StatusTimeout
  BY <1>8, StatusTimeoutInv
<1>9. CASE Tick
  BY <1>9, TickInv
<1>10. CASE UNCHANGED vars
  <2> USE <1>10 DEF vars, input2, writer, ages, Inv
  <2>1. TypeOK' /\ Pending(timeout_timer)'
    BY DEF TypeOK, WriterTypeOK
  <2>2. Labels' /\ GreenMeansGps'
    BY DEF Labels, Label, GreenMeansGps
  <2>3. FileAge'
    BY DEF FileAge, is_connected
  <2> QED
    BY <2>1, <2>2, <2>3
<1> QED
  BY <1>1, <1>2, <1>3, <1>4, <1>5, <1>6, <1>7, <1>8, <1>9, <1>10 DEF Next

-----------------------------------------------------------------------------
(* The theorems *)

\* The invariant: the labels agree with the receiver's mode once settled, and
\* the status file is as old as its timer says.
THEOREM Invariance == Spec => []Inv
BY InitInv, NextInv, PTL DEF Spec

\* The inputs, the output and the StatusWriter keep their members' types, and
\* the status timer never waits for more than timeout_interval.
THEOREM TypeCorrect == Spec => []TypeOK
<1>1. Inv => TypeOK
  BY DEF Inv
<1> QED
  BY <1>1, Invariance, PTL

\* write_message, the status byte of SocketOutput::write and dispatch_message
\* of the next splitter agree on the time of day, for every clock rate, length
\* of day and stamp there is.
THEOREM TimeKeptHolds == Spec => []TimeKept
<1>1. Inv => TimeKept
  <2> SUFFICES ASSUME Inv, settled, NEW t \in Stamps(mode)
               PROVE  Near(Nanoseconds(gps2, Rescaled(settings, gps1, t)), Nanoseconds(mode, t))
    BY DEF TimeKept
  <2>1. gps1 = mode /\ settings \in Settings /\ mode \in BOOLEAN /\ gps2 \in BOOLEAN
    BY DEF Inv, Labels, TypeOK
  <2>2. gps2 = IF settings.radarcape = "off" THEN FALSE ELSE Label(settings, mode)
    BY DEF Inv, Labels
  <2> QED
    BY <2>1, <2>2, RescaledKept
<1> QED
  BY <1>1, Invariance, PTL

\* A status file that says green or amber never stands for a clock that an
\* output on the way made up.
THEOREM GreenMeansGpsHolds == Spec => []GreenMeansGps
<1>1. Inv => GreenMeansGps
  BY DEF Inv
<1> QED
  BY <1>1, Invariance, PTL

\* status_timeout and write keep the file no older than timeout_interval,
\* however they and the input's changes interleave.
THEOREM FileCurrentHolds == Spec => []FileCurrent
<1>1. Inv => FileCurrent
  <2> SUFFICES ASSUME Inv PROVE FileCurrent
    OBVIOUS
  <2>1. /\ timeout_interval \in Nat /\ timeout_timer.left \in 0..timeout_interval
        /\ stale \in Int /\ silent \in Int
    BY TimerFields DEF Inv, TypeOK, Late
  <2>2. /\ stale <= timeout_interval - timeout_timer.left => stale <= timeout_interval
        /\ silent <= timeout_interval - timeout_timer.left => silent <= timeout_interval
    BY <2>1
  <2> QED
    BY <2>2 DEF Inv, FileAge, FileCurrent, Good
<1> QED
  BY <1>1, Invariance, PTL
=============================================================================
