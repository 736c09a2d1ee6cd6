# beast-splitter in TLA+

TLA+ models of beast-splitter, the program that reads Mode S messages from one
Beast or Radarcape receiver and hands them to many clients, each with its own
filter and format. The models are checked with TLC on small instances; their
safety is also proved with TLAPS for all values of their constants, but for one
case of error correction.

## The system

Everything runs on one thread, in the handlers of one boost::asio `io_service`.
Handlers do not preempt each other, but their order is free: timers, reads,
writes, posted calls and new connections complete when they like, and a handler
that is already queued cannot be cancelled any more. That, connections that come
and go, and byte streams cut anywhere are what is hard about this program.

| part | source | state | operations |
|---|---|---|---|
| `Filter` | modes_filter | which message types and downlink formats pass | accept a message, combine |
| `FilterDistributor` | modes_filter | clients by handle, with filter and deleted mark | add, update, remove, broadcast; tells the input the combined filter |
| `Settings` | beast_settings | twelve tristates | from string, filter or status byte; to filter, message or status byte |
| `BeastInput` | beast_input | frame parser, receiver type, settings last sent, timers | parse, detect the receiver, send settings, dispatch |
| `NetInput`, `SerialInput` | beast_input_net, _serial | socket or port, read loop, autobaud state | connect, read, write, reconnect, advance the baud rate |
| `SocketOutput` | beast_output | settings, command parser, output buffer | read commands, write messages, flush, close |
| `SocketListener`, `SocketConnector` | beast_output | acceptor; resolver and reconnect timer | make a `SocketOutput` and make it a client |
| `StatusWriter` | status_writer | timeout | write the status file |
| `Message`, CRC | modes_message, crc | one message | format, CRC verdict, error correction |
| `realmain` | splitter_main | | put the parts together |

A client's commands change its `SocketOutput`'s settings; these become a filter
in the distributor; the combination of all filters becomes the settings the input
asks of the receiver. In the other direction the input's parser makes messages of
bytes, the distributor broadcasts them and each output formats them.

What makes the parts correct:

* distributor: a message reaches exactly the clients that want it, and the
  receiver is asked for exactly what they want together, through any sequence of
  joins, changes, leaves and lazy erasures;
* parser: the same messages whatever the chunks; resynchronisation; termination;
  a sound count of bad bytes;
* output: commands obeyed whatever the chunks; no two writes at a time; messages
  in order and whole; everything released after a failure; what is flushed
  arrives;
* settings loop: after any history the receiver sends what the clients need, and
  the program knows what kind of receiver it has;
* connections: one attempt at a time and always another one; a receiver that goes
  silent is given up, one that does not is left alone; the right baud rate is
  found and kept;
* time: a timestamp means the same time of day at every splitter in a row; time
  that is made up is never shown as GPS time; the status file is not out of date;
* error correction: a client that has the CRC checked gets what was sent, one that
  does not gets what was received, whoever was served before.

## Modules

| module | models |
|---|---|
| `ModesFilter` | `Filter`, and what filtering sees of a message |
| `PubSub` | abstract specification: a publish/subscribe hub |
| `FilterDistributor` | `FilterDistributor`; refines `PubSub` |
| `BeastSettings` | `Settings` and option commands |
| `BeastParser` | `BeastInput::parse_input`, beside a byte-at-a-time reference parser |
| `BeastFraming` | `BeastParser` fed by `SocketOutput::write_binary` |
| `BeastParserProofs` | the theorems of both |
| `SocketOutput`, `SocketOutputProofs` | one client connection; its theorems |
| `Splitter`, `SplitterProofs` | the composition: outputs, distributor, `BeastInput`, receiver; its theorems |
| `AsioTimer` | `boost::asio::steady_timer`, with its queued handler |
| `BeastInput` | what the two inputs share: receiver type, sync, three timers |
| `NetInput`, `NetInputProofs` | `NetInput` on top of it, with the network and the receiver; its theorems |
| `SerialInput`, `SerialInputProofs` | `SerialInput` on top of it, with the port and the receiver; its theorems |
| `Redial` | abstract specification: a connection that is kept up |
| `SocketConnector`, `SocketConnectorProofs` | `SocketConnector`; refines `Redial`; its theorems |
| `Timestamps` | the scaling of timestamps in `write_message` |
| `StatusWriter` | `StatusWriter` |
| `Relay`, `RelayProofs` | the composition: receiver, input, output, input, status writer; its theorems |
| `ModesMessage` | CRC, syndromes, `Message` and error correction, at full size |
| `BroadcastProofs` | the theorems of `FilterDistributor` and of `ModesMessage` |
| `MC...` | instances for TLC |

Names are those of the code. An action is a handler with everything it calls; in
the parser it is one turn of the innermost running loop. Definitions whose comment
says "mutation" are deliberately wrong variants, used to make sure that each
property can fail.

**ModesFilter, BeastSettings.** Boolean members become a set of names, tristates
`"on"`, `"off"`, `"dontcare"`. A settings message is the set of its commands. The
CRC residual is reduced to good, correctable or bad (`ModesMessage` computes it).
The missing negation in
`Settings(const Filter &)` is modelled as it stands.

**FilterDistributor.** `clients`, `next_handle` as in the code; `filter` is the
last argument of `filter_notifier`; `delivered` records the last broadcast. The
early returns are guards. `PubSub` knows nothing of deleted marks: the refinement
mapping takes the subscribers to be the clients not marked.

**BeastParser.** `p` counts the consumed bytes of the chunk `buf`. `ref` is moved
over every byte as it is consumed. A connection may end between any two reads and
the next one starts from a fresh stream.

**SocketOutput.** `posted` counts posted `flush_outbuf` calls, `writes` holds
outstanding `async_write`s with what is left of them, `reading` the pending read.
Messages are numbers; a write hands them to the peer one at a time so that two
writes at once would show. A read that completed before the socket was closed
still delivers its bytes afterwards.

**Splitter.** Uses `FilterDistributor`'s actions through INSTANCE. `link` is the
input's socket; `to_dev` the settings messages on their way; `dev` what the
receiver has been told, or, for a splitter upstream, the settings of the
`SocketOutput` at the other end, which reads commands by the same
`ProcessOptions`. `autodetect` tells an armed timer from one whose handler is
queued. `Restart` is an abort or an exception that leaves `io_service::run`, and
the service manager's `Restart=on-failure`. The liveness and reconnect timers are
abstracted to a connection that may fail at any time and come back at any time;
`NetInput` and `SerialInput` have them.
What the receiver does (`DeviceApplies`, `Emits`, `StatusByte`) is outside the
program and is taken from how the program uses it.

**AsioTimer, BeastInput.** A timer is `[left, queued]`: `Cancel` and `Arm` end a
wait but do not reach a handler that is queued. Time passes in ticks, and only
when no handler is queued. `BeastInput` is not run by itself; its operators
(`connection_established`, `connection_failed`, `ParseInput`, `AutodetectTimeout`)
are the base class's methods, and take the place of the calls in the two inputs. A
read brings one of a few kinds of chunk; what bytes make one is `BeastParser`'s.

**NetInput.** `queue` is the io_service's queue of socket handlers, in order;
`reads` and `writing` are operations outstanding on the socket, which closing it
ends (their handlers get `operation_aborted` and return). `socket` tells a connect
that has failed, with its handler queued, from one that runs. A write given to a
connecting socket waits for the connect and fails with it. `alive`, `peer`, `up`
are the receiver and the network. `crossed` marks the one way two attempts come to
share the socket, described below; the model ends there.

**SerialInput.** A read loop is a read outstanding, its handler queued, a wait for
`read_timer`, or `start_reading` queued. There may be several: `try_to_connect`
inside `check_framing_errors` starts one and the handler goes on with its own.
`autobaud_rate` is an index, 1 being the first of `autobaud_standard_rates`. Bad
bytes are counted in chunks. A write is the possibility that it fails. The receiver
is `healthy` or not. A healthy one is heard once in a tick: of a Radarcape its status
messages, which are few, of a Beast one message or many. From any other these or
noise may be read, at any rate and as often as it likes, or nothing; it may get well
at another rate than before.

**SocketConnector.** `outputs` counts the open `SocketOutput`s it made, each of
which may report its closing a second time ("closed" in `queue`). `Redial` is
*dialling*, *up* or *resting* for `Rest` ticks; the mapping takes the timer's wait
to be the rest.

**Timestamps, StatusWriter, Relay.** Numbers are computed as in the code, division
and the widths included, with constants for 1000/12, 10^9, 86400, 2^30, 2^48 and
2^64. Of the status file the two colours are kept. `Relay` chains two splitters,
the case in which the label, the scaling and the rewritten status byte have to
agree; `settled` says that a status message has passed since something changed,
since before that no one can know.

**ModesMessage.** A word is the set of its bits. The table, the byte-wise loop, the
residual and both syndrome tables are the code's, for 56 and 112 bits.
`m_residual`, `m_correctable_bit` and `m_corrected_data` are filled in by the
clients' turns in `broadcast`, in any order. Codewords are made with polynomial
division, the reference the residual is compared with.

## Runs

| run | shows |
|---|---|
| `distributor` | 3 clients, 3 incomparable filters, 3 messages: `UpstreamCoversClients`, and `ImplementsPubSub` |
| `framing` | every 6-byte stream over {1A, a type byte, 0} and every framing of one or two messages of such bytes, with or without noise before, in every division into reads, with reconnections: `ChunkIndependent`, `BadBytesNotOvercounted`, `RoundTrip`, `ParseEnds` |
| `socket_output` | 4 messages; a request of four commands, one of none, one with bytes that are no command: `OneFlush`, `InOrder`, `RequestObeyed`, `Released`, `FlushDelivers` |
| `splitter` | serial Beast, network Radarcape found out or forced, splitter upstream; 2 clients: `OutputsMatchClients`, `SettingsCurrent`, `ClientsCovered`, `RadarcapeDetected`, `LabelSettles` |
| `net_input` | 3 addresses, a Beast or a Radarcape: `OneAttempt`, `LivenessJustified`, `SilenceNoticed`, `Recovers` |
| `serial_input` | 2 rates, a Beast or a Radarcape that changes its rate: `WayForward`, `RateKept`, `RateFound` |
| `connector` | 4 addresses: `OneConnection`, `Reestablished`, `ImplementsRedial` |
| `relay` | every listener string about R/B and G, every stamp of a small clock: `TimeKept`, `GreenMeansGps`, `FileCurrent` |
| `fec` | every one wrong bit of five codewords and every two of three of them, clients of five kinds: `ResidualIsRemainder`, `CleanData`, `AsReceived` |

and, each with a counterexample, what the code does not do:

| run | finding |
|---|---|
| `chain` | chaining as the README describes makes the upstream splitter drop DF0/4/5 (beast_output.cc:115) |
| `position` | a position message fails an assertion and ends the process (beast_input.cc:306) |
| `filter_k` | the Beast is never asked to leave out DF0/4/5 (beast_settings.cc:35) |

`ClientsCovered` holds in `splitter`, where the upstream listener says B, and
fails in `chain`, where it says nothing; it is stated with the exception that a
serial input never asks for verbatim (`apply_connection_settings`).

Seen in the models and left in them as they are, without a run of their own:

* beast_output.cc:226: a message written during an outstanding flush has no flush
  posted for it and stays in `outbuf` until another message is written.
  `FlushDelivers` says what does hold.
* beast_input.cc:68: an autodetect handler that is queued when the first status
  message arrives makes the receiver a Beast until the next one
  (`RadarcapeDetected` says that it is set right).
* beast_input_net.cc:77: with three addresses or more, a connect is refused together
  with a settings message that waited for it; the next address is refused too before
  the message's error is handled; that closes the socket and schedules a
  reconnection, and the refused connect's handler goes on to the third address at
  once. Two attempts then use one socket (`crossed`), although beast_input.h:69 has
  reconnect_interval pass "before trying to reopen the connection after an error".
  It takes a client that changes its filter during a connect.
* beast_input_serial.cc:196: every restart of the hunt may leave one more read
  loop running. They only share the work.
* beast_input_serial.cc:134: a status message is heard at the right rate and the
  hunt goes on to the wrong one; when its interval has grown to 16s the liveness
  timer runs out there, the port is closed, and a read that is queued then sets the
  interval back to 1s. `RateFound` holds because the hunt then gets as far as a
  round in which the rate is accepted before it is at a wrong rate for 15s again;
  with a liveness interval of about that round's length it fails.
* beast_input_serial.cc:87: an autobaud handler queued when an error closes the
  port reopens it at once, not after reconnect_interval.
* status_writer.cc:108: an old-style status message is green whatever its PPS
  offset; the comment above it wants less than 45ns ("45ms").
* A Beast, unlike a Radarcape, that vanishes without closing its connection is
  never noticed.
* DF11: two wrong bits among the last seven, where the interrogator code is, pass
  unnoticed, as crc_bad ignores these bits. `CleanData` excepts them.

### Bounds

* `MaxHandle` (3 in `distributor`, 2 in `splitter`, one of them the status writer
  where there is one): handles are never reused, so this bounds the clients in a
  behaviour. Two are enough for one to hide or starve the other, three for one to
  be erased between two that stay.
* `MaxWire` (1): client changes wait while a settings message is on its way;
  connecting and detection do not, so up to five can be. A longer queue of client
  changes would only repeat what two in a row show.
* `MetadataSize` 1 and data sizes 1 and 2 instead of 7 and 2, 7, 14: every state
  of the parser is still entered, each at the first, a middle and the last byte of
  a part. The proofs need no bound.
* `NoiseLen` (6): longer than the longest short frame with both bytes escaped.
* `MaxMessages` (4): one being written, one in the buffer, one that reuses it, one
  more.
* Intervals are a few ticks and keep the order of the code's: detection 3s,
  liveness 15s, reconnection 60s; autobauding 1s to 16s, doubled at every round.
  In `serial_input` a rate is accepted in a round of 2 ticks, liveness (5) is longer
  than twice that and shorter than the longest interval (6), so that both the hunt
  that is interrupted and the one that is not happen.
* `Endpoints` (3 in `net_input`, 4 in `connector`): three are needed for a late
  error to meet an attempt that is neither the first nor the last. `Changes` (2):
  client changes that write to the input's socket.
* `Outstanding` (6): failures one closed output may report in `connector`; a
  `SocketOutput` has a read, a write and a posted flush, so three at most, and more
  does no harm. `MaxLoops` (2): with two read loops a third waits for the others to be idle; two is what one restart
  leaves.
* `good_messages` 2 instead of 4, `restart_chunks` 1: more than one chunk is needed
  to accept a rate and to give it up.
* `relay`: a day of 3 seconds of 20 units, stamps up to 127, counts of 2.5 units:
  the scaling is neither exact nor a whole number, the clock wraps after several
  days, and NanoRange is larger than a second, as in the code. `Late`: ages are
  told apart up to one tick more than the interval.
* `fec`: nothing is scaled. The CRC is linear, so what an error does depends on the
  codeword only through its format and interrogator code: none, one bit, two bits.

`CHECK_DEADLOCK FALSE` in `socket_output`: a closed connection does nothing more.

### Fairness

* `framing`: a call of `parse_input` runs to its end.
* `socket_output`: `io_service` runs what is posted and what has completed;
  operations on a closed socket complete with an error. `ReadingPeer` adds a peer
  that takes what it is sent, without which no TCP sender gets rid of anything; it
  is needed for `FlushDelivers`.
* `splitter`: the receiver reads its commands, and a Radarcape sends its status
  message (every second; the program gives up after 15). Connections owe nothing:
  they may fail for ever, and the liveness properties speak of ones that last.
* `net_input`: io_service runs what is queued, lookups and connects end, time
  passes, and the receiver sends. Strong fairness for time and for a Radarcape's
  status: reads come between any two ticks, so each is only enabled again and again;
  both happen once a second in the end, whatever else is read.
* `serial_input`: the same, with weak fairness: a healthy receiver is heard once in a
  tick, so that nothing keeps time from passing.
* `connector`: handlers, lookups, connects, time. `Redial`'s own liveness
  (`KeepsTrying`) is shown, not assumed.
* `relay`, `fec`: safety only.

## Proofs

`BroadcastProofs`, first part: `FilterDistributor` for any number of clients, any
filters and messages, from `DistributorAssumption`:

* `TypeCorrect`: `Spec => []TypeOK`;
* `ClientsNotStarved`: `Spec => []UpstreamCoversClients`;
* `Refinement`: `Spec => ImplementsPubSub`.

The invariant is type correctness together with `filter = upstream_filter(clients)`:
the covering property alone is not inductive, because it does not say that the
stored filter follows from the present clients. Covering then follows from a lemma:
a combination accepts whatever one of its members accepts. For the refinement each
action maps to one step of the hub, and broadcast's erasure of deleted clients to
none.

`BroadcastProofs`, second part: `ModesMessage` for any codewords and any settings of
clients, from `CodewordAssumption`:

* `message_residualIsRemainder`: `message_residual` is the remainder by the
  polynomial, for every string of 56 or 112 bits;
* `ResidualIsRemainderHolds`: `MessageSpec => []ResidualIsRemainder`;
* `AsReceivedHolds`: `MessageSpec => []AsReceived`;
* `CleanDataHolds`: `MessageSpec => [](sent.df # 11 \/ received = Encode(sent) =>
  CleanData)`: all long messages, whatever their 83 payload bits, with up to two
  wrong bits, and all messages that came through well.

The invariant `MessageInv` says what the clients share: `m_data` is what was
received, each of the three members kept late is unset or what would be computed
again, and the last client was handed what its settings alone call for. Neither
`AsReceived` nor `CleanData` is inductive without it, since `corrected_data` returns
what an earlier client left. The rest is arithmetic over polynomials modulo 2:

* a turn of the byte-wise loop, `CrcStep`, is eight `Shift`s with the byte's bits
  added, because `Shift` and so `crcgen` are linear; by induction over the bytes the
  residual has the parity, bit by bit, of the remainders of the powers of x that
  the message is made of (`Residue`), which is `Remainder`;
* the powers x^0 to x^111 have pairwise different remainders, so two wrong bits are
  never none and one is found in the syndrome table at its own place only. `Shift`
  is injective, so if two powers were equal, some x^d would be 1 (`PowerInjective`)
  and the next 23 powers single bits again; but among the 24 from any d on is one of
  x^47, x^71, x^95 and x^111, which are computed (`PowerTable`) and have more bits;
* `Generator` has an even number of terms, so every power's remainder has an odd
  number of bits and the sum of two an even number: two wrong bits never look like
  one.

`BeastParserProofs`, for any metadata size, message sizes, streams, chunks and lists
of messages written, from `ParserAssumption` and `FramingAssumption`:

* `TypeCorrect`: `Spec => []TypeOK`, so `p` stays in the chunk;
* `ParserChunkIndependent`: `Spec => []ChunkIndependent`;
* `BadBytesBound`: `Spec => []BadBytesNotOvercounted`;
* `RoundTripHolds`: `Spec => []RoundTrip`.

The invariant relates each parser state to the reference parser's. The code gives a
frame up before it consumes the byte that broke it, so in `RESYNC` the reference
parser may be in any state; what holds is that the next byte will make it hunt. For
the count, the bytes of the chunk after the last good message have to be added:
`bad_bytes_count + (p - last_good) <= ref.bytes`. One lemma per move of the
reference parser, one per action.

`RoundTrip` follows from two more facts. `StreamRead`: the reference parser, over the
noise and what `write_binary` makes of any list of messages, has at every byte found
the first few of them and in the end all; by induction over the bytes of a message,
escaped or not, and over the messages. `PlaceKept`: on each connection it is where
the bytes consumed so far bring it from a fresh start. `ChunkIndependent` then gives
the property of `parse_input`. `FramingAssumption` has the messages in `Writable`,
the ones a splitter passes on: of a type that has a byte, with the data of its size.

`SocketConnectorProofs`, for any number of addresses, interval and closings an
output may report, from `SocketConnectorAssumption`:

* `TypeCorrect`, and `OneConnectionHolds`: `Spec => []OneConnection`;
* `Refinement`: `Spec => Abstract!Steps`, so every step is one of `Redial`'s.

`OneConnection` does not speak of queued handlers, and a closing reported during an
attempt would schedule a second one. The invariant says why none is: such reports
are queued only while the wait that the first of them started runs, and it ends
only when the queue is empty.

`SocketOutputProofs`, for any number of messages, any initial settings and any bytes a
client sends, from `SocketOutputAssumption`:

* `TypeCorrect`, `OneFlushHolds`, `InOrderHolds`, `RequestObeyedHolds`.

The invariant says where each message is: what was received, what is left of the one
write, and `outbuf` are together the messages written, as long as the socket is
open. For the commands it says that after k bytes of a well-formed request the
parser is in the state k modulo 3 gives, and the settings are those of the commands
read whole. That a chunk of any length does this is proved by induction. The
library's induction theorems cannot be used (they take an operator), but `WFMin`,
which takes a set, can: `Induction` says that a set with 0 and with every successor
holds all of Nat, and the recursive function `Parsing` is shown to exist and to
satisfy its equation that way.

`RelayProofs`, for any clock rate, length of day, width of stamps and timeout, from
`TimestampsAssumption` and `StatusWriterAssumption`:

* `TypeCorrect`, `TimeKeptHolds`, `GreenMeansGpsHolds`, `FileCurrentHolds`.

`TimeKept` rests on lemmas about division: each of the two scalings rounds down, so
two of them lose less than a count and a nanosecond, and the wrap at the end of the
day is the same at both ends. The invariant says what each label is once settled,
and that the file is as old as its timer has been running.

`SplitterProofs`, for any number of clients, all settings, command lines, receivers,
commands and messages, from `SplitterAssumption` and `DFAssumption`:

* `TypeCorrect`, `OutputsMatchClientsHolds`, `SettingsCurrentHolds`;
* `ClientsCoveredHolds`: `Spec => [](AsksForNoLess(cfg) => ClientsCovered)`.

`ClientsCovered` is false of some command lines and receivers (run `chain`), so it
has a hypothesis on `cfg`, which never changes: the receiver says whether it is a
Radarcape, `--force` is not wrong about that, and `--force` keeps nothing from the
receiver that clients want. The invariant ties the receiver to the clients by the
last settings message: while connected it is that of `current_settings`, and when
none is under way the receiver has obeyed it (obeying it again would change
nothing). It also needs that no client's filter has DF5 without DF0: otherwise the
missing negation in `Settings(const Filter &)` would ask for too little. All filters
come from `to_filter`, and none of those does.

`NetInputProofs`, for any intervals in the code's order, number of addresses and of
changes of the filter, from `BeastInputAssumption` and `NetInputAssumption`:

* `TypeCorrect`, `OneAttemptHolds`, `LivenessJustifiedHolds`.

Neither property speaks of queued handlers. The invariant says which may be queued
in each state of the socket (a refused connect, or a made one, at most once and
before anything is read), that those of a closed socket are there only while no time
has passed since `connection_failed`, and that the wait for the next attempt
outlasts the liveness timer. The last needs `radarcape_liveness_interval <
reconnect_interval`: nothing else keeps the timer of a lost connection from closing
the next one.

`SerialInputProofs`, for any number of rates, intervals and read loops, from
`BeastInputAssumption` and `SerialInputAssumption`:

* `TypeCorrect`, `WayForwardHolds`, and `RateKeptHolds`: `Spec => RateKept`, an
  action property.

`WayForward` needs that a closed port always has a reconnection pending: the last
handler queued may be that of a read of a port that has been closed since.

What the proofs changed in the models: `GpsColour` was a CASE with overlapping
guards, which TLA+ does not order as the code does its tests; `Near` allowed one
count where two roundings can add a nanosecond; `ConnectedThrows` left handlers of
the process that ended in the queue; `RequestObeyed` was about one request, and is now about any; the operators of
`BeastFraming` were folds, and are recursive functions of how much is written; and
`ModesMessage` now says what a codeword is (`CodewordAssumption`): only DF 11 has an
interrogator's code, all other bits before the parity are free.

Only model-checked: liveness and everything under fairness (`ParseEnds`,
`Released`, `FlushDelivers`, `RadarcapeDetected`, `LabelSettles`, `SilenceNoticed`,
`Recovers`, `RateFound`, `Reestablished`, the `KeepsTrying` of `ImplementsRedial`),
which the prover does not reach; and `CleanData` for a DF 11 with wrong bits. There
crc_bad looks at 17 bits of the residual only, the parity argument fails, and what is
left is to compute that no three of 56 syndromes agree in those bits, which `fec`
does.

## Not modelled

* Option parsing, logging, the layout of AVR text, the wording of the status file.
* `close()` of the inputs, the listener, the connector and the status writer: the
  program never calls them.
* Overlapping `async_write`s of settings messages on the input's socket: short
  messages, taken to be sent whole.
* `NetInput` after `crossed`; the contents of what `SerialInput` writes.
* Setting up the acceptors in `realmain`: plain I/O that ends the program when it
  fails.
