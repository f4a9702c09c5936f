---------------------------- MODULE StreamMachine ----------------------------
(***************************************************************************)
(* One end of a message stream (src/src/stream/): the state of the Rust    *)
(* StreamMachine as a record, and each of its operations as an operator    *)
(* from a record to a record.  The two ends are put together in StreamLink.*)
(*                                                                         *)
(* Bytes are counted, not stored: offsets name them, and the code compares *)
(* nothing else of a payload.  Peaks, statistics, the revision counter and *)
(* the retained failure facts are left out.  A call that returns an error  *)
(* or WouldBlock and changes nothing is not a step; its condition is the   *)
(* negation of the operation's guard (CanWrite, CanStartFlush, ...).       *)
(***************************************************************************)
EXTENDS IoClock

CONSTANTS
  SendBuffer,        \* Config::send_buffer, per side
  ReceiveWindow,     \* Config::receive_window per side; the other side's
                     \* peer_receive_window (both come from Open/Opened)
  MaxPayload,        \* Config::max_payload
  CoalesceDelay,     \* Config::coalesce_delay_ms
  CloseTimeout,      \* Config::close_timeout_ms
  IoTimeout,         \* Config::io_timeout_ms, 0 disables it
  InteractionBudget, \* Config::interaction_budget_ms
  MaxOffset          \* i64::MAX in the code

Side == {"Initiator", "Endpoint"}
Peer(s) == IF s = "Initiator" THEN "Endpoint" ELSE "Initiator"

\* What Config::validate checks of the numbers the machine computes with.
ASSUME ConfigAssumption ==
  /\ SendBuffer \in [Side -> Nat \ {0}]
  /\ ReceiveWindow \in [Side -> Nat \ {0}]
  /\ MaxPayload \in Nat \ {0}
  /\ CoalesceDelay \in Nat
  /\ CloseTimeout \in Nat \ {0}
  /\ IoTimeout \in Nat
  /\ InteractionBudget \in Nat
  /\ MaxOffset \in Nat
  /\ \A s \in Side : ReceiveWindow[s] <= MaxOffset

\* The errors that end a stream (stream::Error; the others are return values).
Error == {"Protocol", "Cancelled", "CarrierLost", "Timeout", "PeerFailed"}

ASSUME NoneIsNoError == None \notin Error

-----------------------------------------------------------------------------
(* Messages: the stream kinds of protocol::Envelope, without the envelope. *)

Data(offset, len) == [kind |-> "Data", offset |-> offset, len |-> len]
Window(limit) == [kind |-> "Window", max_offset |-> limit]
Flush(barrier) == [kind |-> "Flush", barrier |-> barrier]
Flushed(barrier) == [kind |-> "Flushed", barrier |-> barrier]
EndWrite(offset) == [kind |-> "EndWrite", final_offset |-> offset]
Close(offset) == [kind |-> "Close", final_offset |-> offset]
Closed(closed) == [kind |-> "Closed", closed |-> closed]
Cancel(reason) == [kind |-> "Cancel", reason |-> reason]
Failed(code) == [kind |-> "Failed", code |-> code]

Offset == 0 .. MaxOffset
Barrier == [id: Nat, offset: Offset]
CloseReport == [failed: BOOLEAN, discarded: BOOLEAN]
CloseResult == [discarded: BOOLEAN]

\* Every message a peer may put on the wire, well-behaved or not.
Message ==
  [kind: {"Data"}, offset: Offset, len: Nat]
    \cup [kind: {"Window"}, max_offset: Offset]
    \cup [kind: {"Flush", "Flushed"}, barrier: Barrier]
    \cup [kind: {"EndWrite", "Close"}, final_offset: Offset]
    \cup [kind: {"Closed"}, closed: CloseReport]
    \cup [kind: {"Cancel"}, reason: {"Timeout", "Cancelled"}]
    \cup [kind: {"Failed"}, code: {"Timeout", "Protocol", "Refused"}]

Lesser(a, b) == IF a <= b THEN a ELSE b
\* i64::saturating_add of two naturals
SaturatingAdd(a, b) == Lesser(a + b, MaxOffset)

-----------------------------------------------------------------------------
(* State. *)

PendingFlush == [id: Nat, offset: Offset, sent: BOOLEAN]

Machine ==
  [side: Side,
   now: Nat,
   io: Clock,
   send: Nat,                             \* bytes accepted and not yet sent
   recv: Nat,                             \* bytes received and not yet read
   batch_deadline: Nat \cup {None},
   force_send: BOOLEAN,
   sent: Offset,
   received: Offset,
   consumed: Offset,
   peer_limit: Offset,                    \* credit the peer granted us
   advertised_limit: Offset,              \* credit we granted the peer
   end_requested: BOOLEAN,
   end_sent: BOOLEAN,
   end_received: BOOLEAN,
   flush: PendingFlush \cup {None},       \* our barrier
   flush_serial: Nat,
   flush_acked: Nat,
   peer_flush: Barrier \cup {None},       \* the peer's barrier
   peer_flush_serial: Nat,
   close_deadline: Nat \cup {None},
   close_sent: BOOLEAN,
   close_received: BOOLEAN,
   discarding: BOOLEAN,
   discarded: BOOLEAN,
   close_pending: CloseReport \cup {None},
   completed: CloseResult \cup {None},
   error: Error \cup {None},
   terminal_message: Message \cup {None}]

New(side) ==
  [side |-> side, now |-> 0, io |-> NewClock(IoTimeout, InteractionBudget),
   send |-> 0, recv |-> 0, batch_deadline |-> None, force_send |-> FALSE,
   sent |-> 0, received |-> 0, consumed |-> 0,
   peer_limit |-> ReceiveWindow[Peer(side)],
   advertised_limit |-> ReceiveWindow[side],
   end_requested |-> FALSE, end_sent |-> FALSE, end_received |-> FALSE,
   flush |-> None, flush_serial |-> 0, flush_acked |-> 0,
   peer_flush |-> None, peer_flush_serial |-> 0,
   close_deadline |-> None, close_sent |-> FALSE, close_received |-> FALSE,
   discarding |-> FALSE, discarded |-> FALSE, close_pending |-> None,
   completed |-> None, error |-> None, terminal_message |-> None]

Live(m) == m.error = None /\ m.completed = None

-----------------------------------------------------------------------------
(* The end of a stream: StreamMachine::fail and its callers. *)

\* What fail tells the peer.  Only the initiator's timeout is a Cancel.
Notice(side, error) ==
  IF error = "Cancelled" \/ (error = "Timeout" /\ side = "Initiator")
  THEN Cancel(error)
  ELSE Failed(IF error = "Timeout" THEN "Timeout" ELSE "Protocol")

Fail(m, error, notify) ==
  IF ~Live(m)
  THEN m
  ELSE [m EXCEPT !.error = error,
                 !.send = 0,
                 !.flush = None,
                 !.peer_flush = None,
                 !.close_pending = None,
                 !.batch_deadline = None,
                 !.io = Stop(@, m.now),
                 !.terminal_message = IF notify THEN Notice(m.side, error) ELSE @]

\* Mutant: a cancellation the peer is not told of.
CancelSilently(m) == Fail(m, "Cancelled", FALSE)

CancelStream(m) == Fail(m, "Cancelled", TRUE)

\* The notice of an earlier failure is dropped too: there is no carrier.
Disconnect(m) == [Fail(m, "CarrierLost", FALSE) EXCEPT !.terminal_message = None]

\* A failure the endpoint host reports without the close handshake.
CanFailTerminal(m) == Live(m) /\ m.side = "Endpoint"
FailTerminal(m) ==
  [Fail(m, "PeerFailed", FALSE) EXCEPT !.terminal_message = Failed("Refused")]

-----------------------------------------------------------------------------
(* The application's calls. *)

CanWrite(m) ==
  /\ Live(m)
  /\ ~m.end_requested
  /\ m.flush = None
  /\ m.send < SendBuffer[m.side]

\* Bytes of an n-byte input that write accepts.
Accepted(m, n) == Lesser(n, SendBuffer[m.side] - m.send)

Write(m, n) ==
  IF m.sent + m.send + Accepted(m, n) > MaxOffset
  THEN Fail(m, "Protocol", TRUE)
  ELSE [m EXCEPT !.send = @ + Accepted(m, n),
                 !.batch_deadline = IF m.send = 0 THEN m.now + CoalesceDelay ELSE @]

\* Bytes that a read with room for n takes out of the receive buffer.
Readable(m, n) == Lesser(n, m.recv)

\* A read, even one that finds nothing, ends the coalescing of our own bytes.
Read(m, n) ==
  [m EXCEPT !.force_send = @ \/ m.send > 0,
            !.recv = @ - Readable(m, n),
            !.consumed = @ + Readable(m, n)]

CanStartFlush(m) == Live(m) /\ m.flush = None /\ ~m.end_sent
StartFlush(m) ==
  [m EXCEPT !.flush_serial = @ + 1,
            !.flush = [id |-> m.flush_serial + 1, offset |-> m.sent + m.send,
                       sent |-> FALSE],
            !.force_send = TRUE]

CanEndWrite(m) == Live(m) /\ ~m.end_requested
RequestEnd(m) ==
  [m EXCEPT !.end_requested = TRUE, !.force_send = @ \/ ~m.end_requested]

\* The initiator stops reading: what is buffered, and what still comes, is
\* discarded, and its own direction ends.
CanStartClose(m) == Live(m) /\ m.side = "Initiator" /\ m.close_deadline = None
StartClose(m) ==
  RequestEnd([m EXCEPT !.io = Stop(@, m.now),
                       !.close_deadline = m.now + CloseTimeout,
                       !.discarding = TRUE,
                       !.discarded = @ \/ m.recv > 0,
                       !.consumed = @ + m.recv,
                       !.recv = 0])

\* The endpoint host reports the exchange's result once both directions are
\* drained; failed is the presence of Closed.failure.
CanCompleteClose(m) ==
  /\ Live(m)
  /\ m.side = "Endpoint"
  /\ m.close_received /\ m.end_sent /\ m.end_received
  /\ m.recv = 0
  /\ m.peer_flush = None /\ m.flush = None
  /\ m.close_pending = None
CompleteClose(m, failed) ==
  [m EXCEPT !.close_pending = [failed |-> failed, discarded |-> m.discarded]]

-----------------------------------------------------------------------------
(* Time and backend I/O. *)

Expired(m) ==
  (m.close_deadline # None /\ m.now >= m.close_deadline) \/ Due(m.io, m.now)

\* Mutant: the deadlines are compared with the time before the step.
AdvanceLate(m, now) ==
  IF now < m.now THEN m
  ELSE IF Live(m) /\ Expired(m) THEN Fail([m EXCEPT !.now = now], "Timeout", TRUE)
  ELSE [m EXCEPT !.now = now]

\* The host's clock; a step backwards is ignored.
Advance(m, now) ==
  LET later == [m EXCEPT !.now = now]
  IN  IF now < m.now THEN m
      ELSE IF Live(m) /\ Expired(later) THEN Fail(later, "Timeout", TRUE)
      ELSE later

CanReportIo(m) ==
  /\ Live(m)
  /\ m.side = "Endpoint"
  /\ m.close_deadline = None /\ ~m.close_received

SetIoState(m, state) ==
  LET changed == [m EXCEPT !.io = SetState(@, m.now, state)]
  IN  IF Expired(m) \/ (m.io.state # state /\ Due(changed.io, m.now))
      THEN Fail(IF Expired(m) THEN m ELSE changed, "Timeout", TRUE)
      ELSE changed

\* At least one byte moved; outside Network it is refused (WrongState).
RecordIoProgress(m) ==
  IF Expired(m) THEN Fail(m, "Timeout", TRUE)
  ELSE IF m.io.state = "Network" THEN [m EXCEPT !.io = Progress(@, m.now, IoTimeout)]
  ELSE m

-----------------------------------------------------------------------------
(* A message of the peer (incoming.rs).  For each kind: what the machine   *)
(* admits, and what an admitted message does.                              *)

\* Mutant: only the buffer is checked, not the credit granted.
AdmitsDataUncredited(m, msg) ==
  LET end == msg.offset + msg.len
  IN  /\ end <= MaxOffset
      /\ ~m.end_received
      /\ msg.offset = m.received
      /\ msg.len > 0 /\ msg.len <= MaxPayload
      /\ ~m.discarding => m.recv + msg.len <= ReceiveWindow[m.side]

AdmitsData(m, msg) ==
  LET end == msg.offset + msg.len
  IN  /\ end <= MaxOffset
      /\ ~m.end_received
      /\ msg.offset = m.received
      /\ msg.len > 0 /\ msg.len <= MaxPayload
      /\ end <= m.advertised_limit
      /\ ~m.discarding => m.recv + msg.len <= ReceiveWindow[m.side]

\* Mutant: a discarded payload is not remembered as one.
AcceptDataForgetful(m, msg) ==
  LET end == msg.offset + msg.len
  IN  IF m.discarding
      THEN [m EXCEPT !.consumed = end, !.received = end]
      ELSE [m EXCEPT !.recv = @ + msg.len, !.received = end]

AcceptData(m, msg) ==
  LET end == msg.offset + msg.len
  IN  IF m.discarding
      THEN [m EXCEPT !.consumed = end, !.discarded = TRUE, !.received = end]
      ELSE [m EXCEPT !.recv = @ + msg.len, !.received = end]

\* A limit that grants nothing new is ignored; one beyond the peer's own
\* window is refused.
AdmitsWindow(m, msg) ==
  msg.max_offset > m.peer_limit =>
    msg.max_offset <= SaturatingAdd(m.sent, ReceiveWindow[Peer(m.side)])

AcceptWindow(m, msg) ==
  [m EXCEPT !.peer_limit = IF msg.max_offset > @ THEN msg.max_offset ELSE @]

AdmitsFlush(m, msg) ==
  /\ m.peer_flush = None
  /\ msg.barrier.id > m.peer_flush_serial
  /\ msg.barrier.offset = m.received
  /\ ~m.end_received

AcceptFlush(m, msg) ==
  [m EXCEPT !.peer_flush_serial = msg.barrier.id, !.peer_flush = msg.barrier]

AdmitsFlushed(m, msg) ==
  /\ m.flush # None
  /\ m.flush.sent
  /\ m.flush.id = msg.barrier.id
  /\ m.flush.offset = msg.barrier.offset

AcceptFlushed(m, msg) == [m EXCEPT !.flush_acked = m.flush.id, !.flush = None]

AdmitsEndWrite(m, msg) == msg.final_offset = m.received

AcceptEndWrite(m, msg) == [m EXCEPT !.end_received = TRUE]

AdmitsClose(m, msg) ==
  m.side = "Endpoint" /\ m.end_received /\ msg.final_offset = m.received

\* The endpoint still has to consume the request bytes it buffers.
AcceptClose(m, msg) ==
  IF m.close_received
  THEN m
  ELSE [m EXCEPT !.close_received = TRUE,
                 !.io = Stop(@, m.now),
                 !.close_deadline = m.now + CloseTimeout]

AdmitsClosed(m, msg) == m.side = "Initiator" /\ m.close_sent /\ m.end_received

AcceptClosed(m, msg) ==
  IF msg.closed.failed
  THEN Fail(m, "PeerFailed", FALSE)
  ELSE [m EXCEPT !.completed = [discarded |-> m.discarded \/ msg.closed.discarded]]

Admits(m, msg) ==
  CASE msg.kind = "Data" -> AdmitsData(m, msg)
    [] msg.kind = "Window" -> AdmitsWindow(m, msg)
    [] msg.kind = "Flush" -> AdmitsFlush(m, msg)
    [] msg.kind = "Flushed" -> AdmitsFlushed(m, msg)
    [] msg.kind = "EndWrite" -> AdmitsEndWrite(m, msg)
    [] msg.kind = "Close" -> AdmitsClose(m, msg)
    [] msg.kind = "Closed" -> AdmitsClosed(m, msg)
    [] OTHER -> TRUE

Accept(m, msg) ==
  CASE msg.kind = "Data" -> AcceptData(m, msg)
    [] msg.kind = "Window" -> AcceptWindow(m, msg)
    [] msg.kind = "Flush" -> AcceptFlush(m, msg)
    [] msg.kind = "Flushed" -> AcceptFlushed(m, msg)
    [] msg.kind = "EndWrite" -> AcceptEndWrite(m, msg)
    [] msg.kind = "Close" -> AcceptClose(m, msg)
    [] msg.kind = "Closed" -> AcceptClosed(m, msg)
    [] msg.kind = "Cancel" -> Fail(m, msg.reason, FALSE)
    [] msg.kind = "Failed" -> Fail(m, "PeerFailed", FALSE)

\* Mutant: messages are still applied after the outcome.
ReceiveLate(m, msg) ==
  IF Expired(m) THEN Fail(m, "Timeout", TRUE)
  ELSE IF Admits(m, msg) THEN Accept(m, msg)
  ELSE Fail(m, "Protocol", TRUE)

\* A stream that has ended ignores what still arrives.
Receive(m, msg) ==
  IF ~Live(m) THEN m
  ELSE IF Expired(m) THEN Fail(m, "Timeout", TRUE)
  ELSE IF Admits(m, msg) THEN Accept(m, msg)
  ELSE Fail(m, "Protocol", TRUE)

-----------------------------------------------------------------------------
(* The next message to the peer (outgoing.rs).  One operator says when a   *)
(* kind is due; Outgoing takes the first due kind, in the code's order.    *)

\* Mutant: the endpoint acknowledges bytes its sink has not consumed.
SinkOffsetReceived(m) == m.received

\* Reverse data is safe in the initiator's bounded read buffer; forward data
\* must have been consumed by the endpoint's sink.
SinkOffset(m) == IF m.side = "Initiator" THEN m.received ELSE m.consumed
\* Mutant: off by one at the barrier.
FlushedDueLate(m) == m.peer_flush # None /\ m.peer_flush.offset < SinkOffset(m)

FlushedDue(m) == m.peer_flush # None /\ m.peer_flush.offset <= SinkOffset(m)

Limit(m) == SaturatingAdd(m.consumed, ReceiveWindow[m.side])
WindowDue(m) == Limit(m) > m.advertised_limit

\* Mutant: the barrier does not wait for the bytes before it.
FlushDueEarly(m) == m.flush # None /\ ~m.flush.sent

FlushDue(m) == m.flush # None /\ ~m.flush.sent /\ m.sent = m.flush.offset

Eligible(m) ==
  \/ m.force_send
  \/ m.send >= MaxPayload
  \/ m.send = SendBuffer[m.side]
  \/ m.batch_deadline # None /\ m.now >= m.batch_deadline
Credit(m) == m.peer_limit - m.sent
DataDue(m) == m.send > 0 /\ Eligible(m) /\ Credit(m) > 0
Count(m) == Lesser(Lesser(m.send, MaxPayload), Credit(m))

SendData(m) ==
  LET drained == m.send = Count(m)
  IN  [m EXCEPT !.send = @ - Count(m),
                !.sent = @ + Count(m),
                !.batch_deadline = IF drained THEN None ELSE @,
                !.force_send = IF drained THEN FALSE ELSE @]

EndWriteDue(m) == m.end_requested /\ ~m.end_sent /\ m.send = 0

CloseDue(m) ==
  m.side = "Initiator" /\ m.close_deadline # None /\ m.end_sent /\ ~m.close_sent

Out(msg, m) == [msg |-> msg, m |-> m]

\* StreamMachine::next_message: the message, or None, and the machine after it.
Outgoing(m) ==
  IF m.terminal_message # None
    THEN Out(m.terminal_message, [m EXCEPT !.terminal_message = None])
  ELSE IF ~Live(m)
    THEN Out(None, m)
  ELSE IF FlushedDue(m)
    THEN Out(Flushed(m.peer_flush), [m EXCEPT !.peer_flush = None])
  ELSE IF WindowDue(m)
    THEN Out(Window(Limit(m)), [m EXCEPT !.advertised_limit = Limit(m)])
  ELSE IF m.close_pending # None
    THEN Out(Closed(m.close_pending),
             [m EXCEPT !.completed = [discarded |-> m.close_pending.discarded],
                       !.close_pending = None])
  ELSE IF FlushDue(m)
    THEN Out(Flush([id |-> m.flush.id, offset |-> m.flush.offset]),
             [m EXCEPT !.flush.sent = TRUE])
  ELSE IF DataDue(m)
    THEN Out(Data(m.sent, Count(m)), SendData(m))
  ELSE IF EndWriteDue(m)
    THEN Out(EndWrite(m.sent), [m EXCEPT !.end_sent = TRUE])
  ELSE IF CloseDue(m)
    THEN Out(Close(m.sent), [m EXCEPT !.close_sent = TRUE])
  ELSE Out(None, m)
=============================================================================
