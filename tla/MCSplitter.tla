----------------------------- MODULE MCSplitter -----------------------------
(* Small instances of Splitter for TLC. *)
EXTENDS Splitter

MCDF == {0, 4, 5, 11, 17, 18, 20}

With(given) == FromString(given)

\* A serial Beast whose DIP switches ask for AVR and DF11/17/18 only; a
\* Radarcape on the network, found out or known in advance, with a status file;
\* and a splitter upstream whose listener says B.
Beast == [AllDontCare EXCEPT !.radarcape = "off", !.binary_format = "off",
                             !.filter_11_17_18 = "on"]
Radarcape == [AllDontCare EXCEPT !.radarcape = "on", !.gps_timestamps = "on",
                                 !.crc_disable = "off"]

SerialBeast    == [kind |-> "serial", fixed |-> AllDontCare,
                   status_file |-> FALSE, receiver |-> Beast]
NetRadarcape   == [kind |-> "net", fixed |-> AllDontCare,
                   status_file |-> TRUE, receiver |-> Radarcape]
ForcedRadarcape == [NetRadarcape EXCEPT !.fixed = With([radarcape |-> TRUE])]
UpstreamBeast  == [kind |-> "net", fixed |-> AllDontCare, status_file |-> FALSE,
                   receiver |-> With([radarcape |-> FALSE])]

\* A splitter upstream whose listener was given no settings, as the README
\* suggests for chaining.
UpstreamPlain  == [kind |-> "net", fixed |-> AllDontCare, status_file |-> FALSE,
                   receiver |-> AllDontCare]

MCConfigs == {SerialBeast, NetRadarcape, ForcedRadarcape, UpstreamBeast}
ChainConfigs == {UpstreamPlain}
SerialConfigs == {SerialBeast}
RadarcapeConfigs == {NetRadarcape}

\* --listen 30005 and --listen 30104:BK.
MCClientSettings == {AllDontCare,
                     With([radarcape |-> FALSE, filter_0_4_5 |-> TRUE])}
OnlyK == {With([radarcape |-> FALSE, filter_0_4_5 |-> TRUE])}
OnlyPlain == {AllDontCare}

Cmd(l, on) == [letter |-> l, on |-> on]
MCCommandSets == {{Cmd("d", TRUE), Cmd("v", TRUE)}, {Cmd("d", FALSE), Cmd("g", TRUE)}}

MCMessages == {Plain("STATUS"), Plain("POSITION"), ModeS(4, "good")}
=============================================================================
