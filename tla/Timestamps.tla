----------------------------- MODULE Timestamps -----------------------------
(***************************************************************************)
(* The scaling of timestamps in SocketOutput::write_message.  A timestamp  *)
(* is a count of a 12MHz clock, or seconds of the day and nanoseconds in   *)
(* one number.  The code's numbers are NsNum = 1000, NsDen = 12, NsPerSecond *)
(* = 10^9, SecondsPerDay = 86400, NanoRange = 2^30, StampRange = 2^48 and  *)
(* Word = 2^64; a model may have smaller ones.                             *)
(***************************************************************************)
EXTENDS Integers

CONSTANTS NsNum, NsDen, NsPerSecond, SecondsPerDay, NanoRange, StampRange, Word

ASSUME TimestampsAssumption ==
  /\ \A n \in {NsNum, NsDen, NsPerSecond, SecondsPerDay, NanoRange, StampRange, Word} :
       n \in Nat \ {0}
  /\ NsDen <= NsNum
  /\ NsPerSecond <= NanoRange
  /\ SecondsPerDay * NanoRange <= StampRange
  /\ StampRange * NsNum <= Word

\* 12MHz to pseudo-GPS.  (The mutation leaves the seconds out of the day.)
ToGps_nowrap(t) ==
  LET ns == ((t * NsNum) % Word) \div NsDen
  IN  (ns \div NsPerSecond) * NanoRange + (ns % NsPerSecond)

ToGps(t) ==
  LET ns == ((t * NsNum) % Word) \div NsDen
  IN  ((ns \div NsPerSecond) % SecondsPerDay) * NanoRange + (ns % NsPerSecond)

\* GPS to 12MHz.
To12MHz(t) ==
  LET ns == (t \div NanoRange) * NsPerSecond + (t % NanoRange)
  IN  ((ns * NsDen) % Word) \div NsNum

\* write_binary puts the low 48 bits in the message.
OnWire(t) == t % StampRange
=============================================================================
