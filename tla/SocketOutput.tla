---------------------------- MODULE SocketOutput ----------------------------
(***************************************************************************)
(* beast::SocketOutput: one client connection, with the commands it sends  *)
(* and the messages it is sent.                                            *)
(*                                                                         *)
(* Messages are numbered as write is called with them; what write_message  *)
(* makes of one is appended to outbuf as a unit.  asio's async_write sends  *)
(* its buffer a piece at a time, so two of them on one socket would mix     *)
(* their pieces.  Its completion, a posted flush_outbuf and the completion *)
(* of a read are handlers of their own, in any order.                      *)
(*                                                                         *)
(* A byte from the client is a record: 1A, '1', or an option letter with   *)
(* its case.                                                               *)
(***************************************************************************)
EXTENDS BeastSettings, SequencesExt

CONSTANTS
  MaxMessages,       \* bound: messages written
  InitialSettings,   \* of the --listen or --connect option
  Requests           \* the byte sequences a client may send

Byte1A == [letter |-> "1A", on |-> FALSE]
Byte1  == [letter |-> "1", on |-> FALSE]
CommandByte == {Byte1A, Byte1} \cup Command

ASSUME SocketOutputAssumption ==
  /\ MaxMessages \in Nat
  /\ InitialSettings \in Settings
  /\ Requests \subseteq Seq(CommandByte)

VARIABLES
  socket,          \* "open" or "closed"
  state,           \* ParserState of the command parser
  settings,
  notified,        \* the argument of the last settings_notifier call
  closes,          \* close_notifier has been called: never, once, more often
  reading,         \* the async_read_some: "none", "waiting", or "doomed" when
                   \* it was started on a closed socket
  request, used,   \* what the client sends, and how much of it was read
  written,         \* messages written so far
  outbuf,          \* [null, data]
  flush_pending,
  posted,          \* flush_outbuf calls posted and not yet run
  writes,          \* outstanding async_writes: [buf, left]
  received         \* what the peer has received

commands == <<state, settings, notified, request, used>>
output   == <<written, outbuf, flush_pending, posted, writes, received>>
vars     == <<socket, closes, reading, commands, output>>

Buffer(s)  == [null |-> FALSE, data |-> s]
NullBuffer == [null |-> TRUE, data |-> <<>>]

-----------------------------------------------------------------------------
(* Commands *)

\* process_option_command; letters that are no option are ignored.
process_option_command(s, c) == IF c \in Command THEN ProcessOptions(s, {c}) ELSE s

\* One byte of process_commands, on [state, settings, got_a_command].
CommandStep(a, c) ==
  CASE a.state = "FIND_1A" ->
         IF c = Byte1A THEN [a EXCEPT !.state = "READ_1"] ELSE a
    [] a.state = "READ_1" ->
         [a EXCEPT !.state = IF c = Byte1 THEN "READ_OPTION" ELSE "FIND_1A"]
    [] a.state = "READ_OPTION" ->
         [state |-> "FIND_1A", got |-> TRUE,
          settings |-> process_option_command(a.settings, c)]

\* What the loop of process_commands has made of `start' after k bytes of data.
Parsing(start, data) ==
  LET a[k \in 0..Len(data)] == IF k = 0 THEN start ELSE CommandStep(a[k - 1], data[k])
  IN  a

\* A mutation: every chunk is parsed from scratch.
process_commands_restarts(data) ==
  Parsing([state |-> "FIND_1A", settings |-> settings, got |-> FALSE], data)[Len(data)]

process_commands(data) ==
  Parsing([state |-> state, settings |-> settings, got |-> FALSE], data)[Len(data)]

\* handle_error and close: the socket is closed and close_notifier called,
\* again if need be.
CloseSocket == socket' = "closed" /\ closes' = IF closes < 2 THEN closes + 1 ELSE 2

\* The handler of read_commands gets the next n bytes and starts another read.
\* Those bytes may have been read before the socket was closed.
ReadCompletes(n) ==
  LET after == process_commands(SubSeq(request, used + 1, used + n))
  IN
  /\ reading = "waiting"
  /\ reading' = IF socket = "open" THEN "waiting" ELSE "doomed"
  /\ state' = after.state /\ settings' = after.settings
  /\ notified' = IF after.got THEN after.settings ELSE notified
  /\ used' = used + n
  /\ UNCHANGED <<socket, closes, request, output>>

\* A mutation: the handler starts another read after an error too.
ReadFails_rearmed ==
  /\ reading # "none"
  /\ reading' = "doomed"
  /\ CloseSocket
  /\ UNCHANGED <<commands, output>>

\* Its handler gets an error: end of file, a reset, or that the socket is
\* closed.
ReadFails ==
  /\ reading # "none"
  /\ reading' = "none"
  /\ CloseSocket
  /\ UNCHANGED <<commands, output>>

-----------------------------------------------------------------------------
(* Messages *)

\* A mutation of complete_write: every message posts a flush of its own.
write_always_posts ==
  /\ socket = "open" /\ written < MaxMessages
  /\ written' = written + 1
  /\ outbuf' = Buffer(Append(outbuf.data, written'))
  /\ flush_pending' = TRUE /\ posted' = posted + 1
  /\ UNCHANGED <<socket, closes, reading, commands, writes, received>>

\* write of the next message, one whose form the client gets: write_message,
\* prepare_write, complete_write.  On a closed socket it returns at once.
write ==
  /\ socket = "open" /\ written < MaxMessages
  /\ written' = written + 1
  /\ outbuf' = Buffer(Append(outbuf.data, written'))
  /\ flush_pending' = TRUE
  /\ posted' = IF flush_pending THEN posted ELSE posted + 1
  /\ UNCHANGED <<socket, closes, reading, commands, writes, received>>

\* A mutation: the flag is reset as soon as the write is started.
flush_outbuf_early ==
  /\ posted > 0
  /\ posted' = posted - 1
  /\ outbuf.data # <<>>
  /\ writes' = Append(writes, [buf |-> outbuf.data, left |-> outbuf.data])
  /\ outbuf' = NullBuffer
  /\ flush_pending' = FALSE
  /\ UNCHANGED <<socket, closes, reading, commands, written, received>>

flush_outbuf ==
  /\ posted > 0
  /\ posted' = posted - 1
  /\ IF outbuf.data = <<>>
     THEN UNCHANGED <<outbuf, writes>>
     ELSE /\ writes' = Append(writes, [buf |-> outbuf.data, left |-> outbuf.data])
          /\ outbuf' = NullBuffer
  /\ UNCHANGED <<socket, closes, reading, commands, written, flush_pending,
                 received>>

\* async_write number i hands one more message to the peer.
WriteProgresses(i) ==
  /\ socket = "open" /\ writes[i].left # <<>>
  /\ received' = Append(received, Head(writes[i].left))
  /\ writes' = [writes EXCEPT ![i].left = Tail(@)]
  /\ UNCHANGED <<socket, closes, reading, commands, written, outbuf,
                 flush_pending, posted>>

\* What its handler does in any case.  (One mutation reuses the buffer as it
\* is, the other puts it in the place of one made meanwhile.)
FlushDone_dirty(i) ==
  /\ flush_pending' = FALSE
  /\ writes' = RemoveAt(writes, i)
  /\ outbuf' = IF outbuf.null THEN Buffer(writes[i].buf) ELSE outbuf

FlushDone_replaces(i) ==
  /\ flush_pending' = FALSE
  /\ writes' = RemoveAt(writes, i)
  /\ outbuf' = Buffer(<<>>)

FlushDone(i) ==
  /\ flush_pending' = FALSE
  /\ writes' = RemoveAt(writes, i)
  /\ outbuf' = IF outbuf.null THEN Buffer(<<>>) ELSE outbuf

WriteCompletes(i) ==
  /\ writes[i].left = <<>>
  /\ FlushDone(i)
  /\ UNCHANGED <<socket, closes, reading, commands, written, posted, received>>

WriteFails(i) ==
  /\ writes[i].left # <<>>
  /\ FlushDone(i)
  /\ CloseSocket
  /\ UNCHANGED <<reading, commands, written, posted, received>>

-----------------------------------------------------------------------------

Init ==
  /\ socket = "open" /\ closes = 0
  /\ state = "FIND_1A" /\ settings = InitialSettings /\ notified = InitialSettings
  /\ reading = "waiting"
  /\ request \in Requests /\ used = 0
  /\ written = 0 /\ outbuf = NullBuffer
  /\ flush_pending = FALSE /\ posted = 0 /\ writes = <<>>
  /\ received = <<>>

Next ==
  \/ \E n \in 1..Len(request) - used : ReadCompletes(n)
  \/ ReadFails
  \/ write
  \/ flush_outbuf
  \/ \E i \in DOMAIN writes :
       WriteProgresses(i) \/ WriteCompletes(i) \/ WriteFails(i)

Spec == Init /\ [][Next]_vars

\* io_service runs what is posted and what has completed, and operations on a
\* closed socket complete.  Nothing is said of the peer: an open socket need
\* not take any data.
Handlers ==
  /\ WF_vars(flush_outbuf)
  /\ WF_vars(socket = "closed" /\ ReadFails)
  /\ WF_vars(\E i \in DOMAIN writes :
               WriteCompletes(i) \/ (socket = "closed" /\ WriteFails(i)))

\* A peer that reads what it is sent.
ReadingPeer == WF_vars(\E i \in DOMAIN writes : WriteProgresses(i))

FairSpec == Spec /\ Handlers
ServedSpec == FairSpec /\ ReadingPeer

-----------------------------------------------------------------------------

\* Type correctness of one output.
TypeOK ==
  /\ socket \in {"open", "closed"} /\ closes \in 0..2
  /\ reading \in {"none", "waiting", "doomed"}
  /\ state \in {"FIND_1A", "READ_1", "READ_OPTION"}
  /\ settings \in Settings /\ notified \in Settings
  /\ request \in Requests /\ used \in 0..Len(request)
  /\ written \in 0..MaxMessages
  /\ outbuf \in [null : BOOLEAN, data : Seq(Nat)]
  /\ flush_pending \in BOOLEAN /\ posted \in 0..1
  /\ writes \in Seq([buf : Seq(Nat), left : Seq(Nat)])
  /\ received \in Seq(Nat)

\* At most one flush is under way, posted or being written, and flush_pending
\* says whether one is: the flag is never left set with nothing to reset it,
\* nor reset while a write is outstanding.
OneFlush == posted + Len(writes) = IF flush_pending THEN 1 ELSE 0

\* The peer receives the messages in the order they were written, none twice,
\* none mixed into another, and none left out.
InOrder == \A i \in DOMAIN received : received[i] = i

\* A request that is a sequence of option commands, none of which takes back
\* another one.
WellFormed(r) ==
  /\ Len(r) % 3 = 0
  /\ \A i \in DOMAIN r : /\ i % 3 = 1 => r[i] = Byte1A
                         /\ i % 3 = 2 => r[i] = Byte1
                         /\ i % 3 = 0 => r[i] \in Command
  /\ \A i, j \in DOMAIN r :
       i % 3 = 0 /\ j % 3 = 0 /\ r[i].letter = r[j].letter => r[i] = r[j]

\* The commands among the first k bytes of a well-formed request.
Asked(k) == {request[i] : i \in {j \in DOMAIN request : j % 3 = 0 /\ j <= k}}

\* Whatever way a request is cut into reads, once all of it has been read the
\* settings are those it asks for; and whatever bytes come, the distributor
\* has been told the settings there are.
RequestObeyed ==
  /\ WellFormed(request) /\ used = Len(request) =>
       settings = ProcessOptions(InitialSettings, Asked(used))
  /\ notified = settings

\* When the socket has been closed, by whatever error came first, every
\* outstanding operation ends and none is started again for good: no handler keeps
\* the object any more.  (The distributor's bind does, until its next broadcast.)
Released == socket = "closed" ~> [](reading = "none" /\ posted = 0 /\ writes = <<>>)

\* What outbuf holds when a flush is posted, messages that had to wait for an
\* earlier write to complete included, reaches a peer that reads, unless the
\* connection fails.  (A message that comes during a write has no flush posted
\* for it, and waits in outbuf until write is called again.)
FlushDelivers ==
  \A n \in 1..MaxMessages :
    posted > 0 /\ written = n ~> socket = "closed" \/ Len(received) >= n
=============================================================================
