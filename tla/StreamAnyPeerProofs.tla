------------------------- MODULE StreamAnyPeerProofs -------------------------
(***************************************************************************)
(* One StreamMachine against any peer, for every configuration: its ranges *)
(* and bounds are inductive, and its first outcome stays.  Each operation  *)
(* has a lemma about the record it returns; NextGood puts them together.   *)
(***************************************************************************)
EXTENDS StreamAnyPeer, TLAPS

\* Every operation of the I/O clock returns a clock.
LEMMA ClockTyped ==
  ASSUME NEW c \in Clock, NEW now \in Nat
  PROVE  /\ Account(c, now) \in Clock
         /\ Stop(c, now) \in Clock
         /\ \A state \in IoState : SetState(c, now, state) \in Clock
         /\ \A t \in Nat : Progress(c, now, t) \in Clock
<1>1. Account(c, now) \in Clock
  <2>1. CASE c.deadline = None
    BY <2>1 DEF Account
  <2>2. CASE c.deadline # None
    <3>. DEFINE r == SaturatingSub(c.deadline, now)
                n == IF c.state = "Network" THEN r ELSE c.network
                i == IF c.state = "Interaction" THEN r ELSE c.interaction
    <3>1. c.deadline \in Nat /\ c.network \in Nat /\ c.interaction \in Nat
      BY <2>2 DEF Clock
    <3>2. n \in Nat /\ i \in Nat
      BY <3>1 DEF SaturatingSub
    <3>3. Account(c, now) = [c EXCEPT !.network = n, !.interaction = i, !.deadline = None]
      BY <2>2 DEF Account
    <3>. HIDE DEF n, i
    <3>4. [c EXCEPT !.network = n, !.interaction = i, !.deadline = None] \in Clock
      BY <3>2 DEF Clock
    <3>. QED
      BY <3>3, <3>4
  <2>. QED
    BY <2>1, <2>2
<1>2. Stop(c, now) \in Clock
  BY <1>1 DEF Stop, IoState, Clock
<1>3. ASSUME NEW state \in IoState PROVE SetState(c, now, state) \in Clock
  <2>. DEFINE charged == Account(c, now)
              d == IF state = "Network" /\ charged.network > 0 THEN now + charged.network
                   ELSE IF state = "Interaction" THEN now + charged.interaction
                   ELSE None
  <2>1. charged.network \in Nat /\ charged.interaction \in Nat
    BY <1>1 DEF Clock
  <2>2. d \in Nat \cup {None}
    BY <2>1
  <2>3. SetState(c, now, state) = IF c.state = state THEN c
                                  ELSE [charged EXCEPT !.state = state, !.deadline = d]
    BY DEF SetState
  <2>. HIDE DEF d, charged
  <2>4. charged \in Clock
    BY <1>1 DEF charged
  <2>5. [charged EXCEPT !.state = state, !.deadline = d] \in Clock
    BY <2>2, <2>4 DEF Clock
  <2>. QED
    BY <2>3, <2>5
<1>4. ASSUME NEW t \in Nat PROVE Progress(c, now, t) \in Clock
  <2>. DEFINE d == IF t > 0 THEN now + t ELSE None
  <2>1. d \in Nat \cup {None}
    OBVIOUS
  <2>2. Progress(c, now, t) = [c EXCEPT !.network = t, !.deadline = d]
    BY DEF Progress
  <2>. HIDE DEF d
  <2>3. [c EXCEPT !.network = t, !.deadline = d] \in Clock
    BY <2>1 DEF Clock
  <2>. QED
    BY <2>2, <2>3
<1>. QED
  BY <1>1, <1>2, <1>3, <1>4

\* A new machine has every field in its range.
LEMMA NewTyped == ASSUME NEW s \in Side PROVE New(s) \in Machine
<1>1. NewClock(IoTimeout, InteractionBudget) \in Clock
  BY ConfigAssumption DEF NewClock, Clock, IoState
<1>2. ReceiveWindow[s] \in Offset /\ ReceiveWindow[Peer(s)] \in Offset /\ 0 \in Offset
  BY ConfigAssumption DEF Offset, Peer, Side
<1>. QED
  BY <1>1, <1>2 DEF New, Machine

\* What fail tells the peer is a message of the protocol.
LEMMA NoticeTyped ==
  ASSUME NEW side, NEW e \in Error PROVE Notice(side, e) \in Message
<1>1. ASSUME NEW r \in {"Timeout", "Cancelled"} PROVE Cancel(r) \in Message
  <2>1. Cancel(r) \in [kind: {"Cancel"}, reason: {"Timeout", "Cancelled"}]
    BY <1>1 DEF Cancel
  <2>. QED
    BY <2>1 DEF Message
<1>2. ASSUME NEW c \in {"Timeout", "Protocol", "Refused"} PROVE Failed(c) \in Message
  <2>1. Failed(c) \in [kind: {"Failed"}, code: {"Timeout", "Protocol", "Refused"}]
    BY <1>2 DEF Failed
  <2>. QED
    BY <2>1 DEF Message
<1>. QED
  BY <1>1, <1>2 DEF Notice

\* fail leaves every field in its range.
LEMMA FailTyped ==
  ASSUME NEW s \in Machine, NEW e \in Error, NEW notify \in BOOLEAN
  PROVE  Fail(s, e, notify) \in Machine
<1>1. Stop(s.io, s.now) \in Clock
  BY ClockTyped DEF Machine
<1>2. Notice(s.side, e) \in Message
  BY NoticeTyped
<1>. DEFINE io == Stop(s.io, s.now)
            terminal == IF notify THEN Notice(s.side, e) ELSE s.terminal_message
<1>3. terminal \in Message \cup {None}
  BY <1>2 DEF Machine
<1>4. Fail(s, e, notify) = IF ~Live(s) THEN s
        ELSE [s EXCEPT !.error = e, !.send = 0, !.flush = None, !.peer_flush = None,
                       !.close_pending = None, !.batch_deadline = None, !.io = io,
                       !.terminal_message = terminal]
  BY DEF Fail
<1>. HIDE DEF io, terminal
<1>5. io \in Clock
  BY <1>1 DEF io
<1>6. [s EXCEPT !.error = e, !.send = 0, !.flush = None, !.peer_flush = None,
                       !.close_pending = None, !.batch_deadline = None, !.io = io,
                       !.terminal_message = terminal] \in Machine
  BY ZenonT(60), <1>3, <1>5 DEF Machine
<1>. QED
  BY <1>4, <1>6

\* The strengthening: a machine that discards has an empty receive buffer, which
\* is why the bytes it throws away may be counted as consumed at once.
Sane(s) == s.side \in Sides /\ Bounded(s) /\ (s.discarding => s.recv = 0)
Good(s) == s \in Machine /\ Sane(s)

\* The numbers Bounded computes with are naturals.
Numbers(s) ==
  /\ s.side \in Side
  /\ s.now \in Nat /\ s.send \in Nat /\ s.recv \in Nat
  /\ s.sent \in Nat /\ s.received \in Nat /\ s.consumed \in Nat
  /\ s.peer_limit \in Nat /\ s.advertised_limit \in Nat
  /\ s.peer_limit <= MaxOffset /\ s.advertised_limit <= MaxOffset
  /\ SendBuffer[s.side] \in Nat
  /\ ReceiveWindow[s.side] \in Nat /\ ReceiveWindow[Peer(s.side)] \in Nat
  /\ MaxOffset \in Nat /\ MaxPayload \in Nat

\* Follows from the ranges of the fields and the configuration.
LEMMA MachineNumbers == ASSUME NEW s \in Machine PROVE Numbers(s)
<1>1. s.side \in Side /\ Peer(s.side) \in Side
  BY DEF Machine, Side, Peer
<1>2. MaxOffset \in Nat
  BY ConfigAssumption
<1>. QED
  BY <1>1, <1>2, ConfigAssumption DEF Numbers, Machine, Offset

\* The fields Bounded speaks of.
SameCounts(s, t) ==
  /\ t.side = s.side /\ t.send = s.send /\ t.recv = s.recv
  /\ t.sent = s.sent /\ t.received = s.received /\ t.consumed = s.consumed
  /\ t.peer_limit = s.peer_limit /\ t.advertised_limit = s.advertised_limit
  /\ t.discarding = s.discarding

\* A step that changes no count keeps the bounds.
LEMMA SameGood ==
  ASSUME NEW s, NEW t \in Machine, Good(s), SameCounts(s, t) PROVE Good(t)
  BY DEF Good, Sane, Bounded, SameCounts

\* A new machine, with nothing buffered, is within its bounds.
LEMMA NewGood == ASSUME NEW side \in Sides PROVE Good(New(side))
<1>. DEFINE t == New(side)
<1>1. t \in Machine
  BY NewTyped, AnyPeerAssumption
<1>2. Numbers(t)
  BY <1>1, MachineNumbers
<1>3. /\ t.side = side /\ t.send = 0 /\ t.recv = 0 /\ t.sent = 0
      /\ t.received = 0 /\ t.consumed = 0 /\ t.discarding = FALSE
      /\ t.peer_limit = ReceiveWindow[Peer(side)]
      /\ t.advertised_limit = ReceiveWindow[side]
  BY DEF New
<1>. HIDE DEF t
<1>4. Sane(t)
  BY <1>2, <1>3 DEF Sane, Bounded, Numbers
<1>. QED
  BY <1>1, <1>4 DEF Good, t

\* fail drops the unsent bytes and moves no offset.
LEMMA FailGood ==
  ASSUME NEW s, Good(s), NEW e \in Error, NEW notify \in BOOLEAN
  PROVE  Good(Fail(s, e, notify))
<1>. DEFINE t == Fail(s, e, notify)
<1>1. s \in Machine /\ t \in Machine
  BY FailTyped DEF Good
<1>2. Live(s) => /\ t.side = s.side /\ t.send = 0 /\ t.recv = s.recv
                 /\ t.sent = s.sent /\ t.received = s.received /\ t.consumed = s.consumed
                 /\ t.peer_limit = s.peer_limit /\ t.advertised_limit = s.advertised_limit
                 /\ t.discarding = s.discarding
  BY <1>1 DEF Fail, Machine
<1>3. ~Live(s) => t = s
  BY DEF Fail
<1>. HIDE DEF t
<1>4. Numbers(s)
  BY <1>1, MachineNumbers
<1>5. Sane(t)
  BY <1>2, <1>3, <1>4 DEF Good, Sane, Bounded, Numbers
<1>. QED
  BY <1>1, <1>5 DEF Good, t

\* write accepts what fits the send buffer, and fails rather than pass the last
\* offset.
LEMMA WriteGood ==
  ASSUME NEW s, Good(s), CanWrite(s), NEW n \in Nat
  PROVE  Good(Write(s, n))
<1>. DEFINE a == Accepted(s, n)
<1>1. s \in Machine /\ Numbers(s)
  BY MachineNumbers DEF Good
<1>2. a \in Nat /\ s.send + a <= SendBuffer[s.side]
  BY <1>1 DEF Numbers, Accepted, Lesser, CanWrite
<1>3. CASE s.sent + s.send + a > MaxOffset
  BY <1>3, FailGood DEF Write, Error
<1>4. CASE ~(s.sent + s.send + a > MaxOffset)
  <2>. DEFINE d == IF s.send = 0 THEN s.now + CoalesceDelay ELSE s.batch_deadline
              k == s.send + a
              t == [s EXCEPT !.send = k, !.batch_deadline = d]
  <2>1. k \in Nat /\ d \in Nat \cup {None}
    BY <1>1, <1>2, ConfigAssumption DEF Numbers, Machine
  <2>2. Write(s, n) = t
    BY <1>4 DEF Write
  <2>. HIDE DEF d, k
  <2>3. t \in Machine
    BY ZenonT(60), <1>1, <2>1 DEF Machine
  <2>4. /\ t.side = s.side /\ t.send = k /\ t.recv = s.recv
        /\ t.sent = s.sent /\ t.received = s.received /\ t.consumed = s.consumed
        /\ t.peer_limit = s.peer_limit /\ t.advertised_limit = s.advertised_limit
        /\ t.discarding = s.discarding
    BY <1>1 DEF Machine
  <2>. HIDE DEF t
  <2>5. Sane(t)
    BY <1>1, <1>2, <1>4, <2>1, <2>4 DEF Good, Sane, Bounded, Numbers, k
  <2>. QED
    BY <2>2, <2>3, <2>5 DEF Good
<1>. QED
  BY <1>3, <1>4

\* read moves bytes from received to consumed and loses none.
LEMMA ReadGood ==
  ASSUME NEW s, Good(s), NEW n \in Nat PROVE Good(Read(s, n))
<1>. DEFINE f == s.force_send \/ s.send > 0
            r == s.recv - Readable(s, n)
            c == s.consumed + Readable(s, n)
            t == [s EXCEPT !.force_send = f, !.recv = r, !.consumed = c]
<1>1. s \in Machine /\ Numbers(s)
  BY MachineNumbers DEF Good
<1>2. r \in Nat /\ c \in Offset /\ r + c = s.recv + s.consumed /\ r <= s.recv /\ s.consumed <= c
  BY <1>1 DEF Numbers, Readable, Lesser, Good, Sane, Bounded, Offset
<1>3. f \in BOOLEAN
  BY <1>1 DEF Machine
<1>4. Read(s, n) = t
  BY DEF Read
<1>. HIDE DEF f, r, c
<1>5. t \in Machine
  BY ZenonT(60), <1>1, <1>2, <1>3 DEF Machine
<1>6. /\ t.side = s.side /\ t.send = s.send /\ t.recv = r
      /\ t.sent = s.sent /\ t.received = s.received /\ t.consumed = c
      /\ t.peer_limit = s.peer_limit /\ t.advertised_limit = s.advertised_limit
      /\ t.discarding = s.discarding
  BY <1>1 DEF Machine
<1>. HIDE DEF t
<1>7. Sane(t)
  BY <1>1, <1>2, <1>6 DEF Good, Sane, Bounded, Numbers, Offset
<1>. QED
  BY <1>4, <1>5, <1>7 DEF Good

\* end_write moves no byte.
LEMMA RequestEndGood == ASSUME NEW s, Good(s) PROVE Good(RequestEnd(s))
<1>. DEFINE f == s.force_send \/ ~s.end_requested
            u == [s EXCEPT !.end_requested = TRUE]
            t == [u EXCEPT !.force_send = f]
<1>1. s \in Machine
  BY DEF Good
<1>2. f \in BOOLEAN
  BY <1>1 DEF Machine
<1>3. u \in Machine
  BY ZenonT(60), <1>1 DEF Machine
<1>4. SameCounts(s, u)
  BY <1>1 DEF Machine, SameCounts
<1>5. RequestEnd(s) = t
  BY DEF RequestEnd
<1>. HIDE DEF f, u
<1>6. t \in Machine
  BY <1>2, <1>3 DEF Machine
<1>7. SameCounts(u, t)
  BY <1>3 DEF Machine, SameCounts
<1>. QED
  BY <1>3, <1>4, <1>5, <1>6, <1>7, SameGood

\* A barrier's offset, everything accepted so far, is an offset.
LEMMA StartFlushGood ==
  ASSUME NEW s, Good(s) PROVE Good(StartFlush(s))
<1>. DEFINE k == s.flush_serial + 1
            o == s.sent + s.send
            b == [id |-> k, offset |-> o, sent |-> FALSE]
            t == [s EXCEPT !.flush_serial = k, !.flush = b, !.force_send = TRUE]
<1>1. s \in Machine /\ Numbers(s)
  BY MachineNumbers DEF Good
<1>2. k \in Nat
  BY <1>1 DEF Machine
<1>3. o \in Offset
  BY <1>1 DEF Good, Sane, Bounded, Numbers, Offset
<1>4. StartFlush(s) = t
  BY DEF StartFlush
<1>. HIDE DEF k, o
<1>5. b \in PendingFlush
  BY <1>2, <1>3 DEF PendingFlush
<1>. HIDE DEF b
<1>6. t \in Machine
  BY ZenonT(60), <1>1, <1>2, <1>5 DEF Machine
<1>7. SameCounts(s, t)
  BY <1>1 DEF Machine, SameCounts
<1>. QED
  BY <1>4, <1>6, <1>7, SameGood

\* start_close consumes the whole receive buffer at once.
LEMMA StartCloseGood == ASSUME NEW s, Good(s) PROVE Good(StartClose(s))
<1>. DEFINE io == Stop(s.io, s.now)
            d == s.now + CloseTimeout
            g == s.discarded \/ s.recv > 0
            c == s.consumed + s.recv
            z == 0
            u == [s EXCEPT !.io = io, !.close_deadline = d, !.discarding = TRUE]
            v == [u EXCEPT !.discarded = g]
            t == [v EXCEPT !.consumed = c, !.recv = z]
<1>1. s \in Machine /\ Numbers(s)
  BY MachineNumbers DEF Good
<1>2. io \in Clock
  BY <1>1, ClockTyped DEF Machine
<1>3. d \in Nat /\ z \in Nat
  BY <1>1, ConfigAssumption DEF Numbers
<1>4. g \in BOOLEAN
  BY <1>1 DEF Machine
<1>5. c \in Offset
  BY <1>1 DEF Good, Sane, Bounded, Numbers, Offset
<1>6. StartClose(s) = RequestEnd(t)
  BY DEF StartClose
<1>. HIDE DEF io, d, g, c, z
<1>7. u \in Machine
  BY ZenonT(60), <1>1, <1>2, <1>3 DEF Machine
<1>8. /\ u.side = s.side /\ u.send = s.send
      /\ u.sent = s.sent /\ u.received = s.received
      /\ u.peer_limit = s.peer_limit /\ u.advertised_limit = s.advertised_limit
  BY <1>1 DEF Machine
<1>. HIDE DEF u
<1>9. v \in Machine
  BY <1>4, <1>7 DEF Machine
<1>10. /\ v.side = s.side /\ v.send = s.send
       /\ v.sent = s.sent /\ v.received = s.received
       /\ v.peer_limit = s.peer_limit /\ v.advertised_limit = s.advertised_limit
  BY <1>7, <1>8 DEF Machine
<1>. HIDE DEF v
<1>11. t \in Machine
  BY ZenonT(60), <1>3, <1>5, <1>9 DEF Machine
<1>12. /\ t.side = s.side /\ t.send = s.send /\ t.recv = 0
       /\ t.sent = s.sent /\ t.received = s.received /\ t.consumed = c
       /\ t.peer_limit = s.peer_limit /\ t.advertised_limit = s.advertised_limit
  BY <1>9, <1>10 DEF Machine, z
<1>. HIDE DEF t
<1>13. Sane(t)
  BY <1>1, <1>12 DEF Good, Sane, Bounded, Numbers, c
<1>. QED
  BY <1>6, <1>11, <1>12, <1>13, RequestEndGood DEF Good

\* complete_close only records the report.
LEMMA CompleteCloseGood ==
  ASSUME NEW s, Good(s), NEW f \in BOOLEAN PROVE Good(CompleteClose(s, f))
<1>. DEFINE r == [failed |-> f, discarded |-> s.discarded]
            t == [s EXCEPT !.close_pending = r]
<1>1. s \in Machine
  BY DEF Good
<1>2. r \in CloseReport
  BY <1>1 DEF Machine, CloseReport
<1>3. CompleteClose(s, f) = t
  BY DEF CompleteClose
<1>. HIDE DEF r
<1>4. t \in Machine
  BY <1>1, <1>2 DEF Machine
<1>5. SameCounts(s, t)
  BY <1>1 DEF Machine, SameCounts
<1>. QED
  BY <1>3, <1>4, <1>5, SameGood

\* The pending notice is no count.
LEMMA TerminalMessageGood ==
  ASSUME NEW s, Good(s), NEW msg \in Message \cup {None}
  PROVE  Good([s EXCEPT !.terminal_message = msg])
<1>. DEFINE t == [s EXCEPT !.terminal_message = msg]
<1>1. s \in Machine
  BY DEF Good
<1>2. t \in Machine
  BY <1>1 DEF Machine
<1>3. SameCounts(s, t)
  BY <1>1 DEF Machine, SameCounts
<1>. QED
  BY <1>2, <1>3, SameGood

\* cancel, disconnect and fail_terminal end the stream within its bounds.
LEMMA EndingsGood ==
  ASSUME NEW s, Good(s)
  PROVE  Good(CancelStream(s)) /\ Good(Disconnect(s)) /\ Good(FailTerminal(s))
<1>1. Failed("Refused") \in Message
  <2>1. Failed("Refused") \in [kind: {"Failed"}, code: {"Timeout", "Protocol", "Refused"}]
    BY DEF Failed
  <2>. QED
    BY <2>1 DEF Message
<1>2. Good(Fail(s, "CarrierLost", FALSE)) /\ Good(Fail(s, "PeerFailed", FALSE))
  BY FailGood DEF Error
<1>3. Good(CancelStream(s))
  BY FailGood DEF Error, CancelStream
<1>. QED
  BY <1>1, <1>2, <1>3, TerminalMessageGood DEF Disconnect, FailTerminal

\* The I/O clock is no count.
LEMMA ClockGood ==
  ASSUME NEW s, Good(s), NEW c \in Clock PROVE Good([s EXCEPT !.io = c])
<1>. DEFINE t == [s EXCEPT !.io = c]
<1>1. s \in Machine
  BY DEF Good
<1>2. t \in Machine
  BY <1>1 DEF Machine
<1>3. SameCounts(s, t)
  BY <1>1 DEF Machine, SameCounts
<1>. QED
  BY <1>2, <1>3, SameGood

\* The time is no count.
LEMMA NowGood ==
  ASSUME NEW s, Good(s), NEW now \in Nat PROVE Good([s EXCEPT !.now = now])
<1>. DEFINE t == [s EXCEPT !.now = now]
<1>1. s \in Machine
  BY DEF Good
<1>2. t \in Machine
  BY <1>1 DEF Machine
<1>3. SameCounts(s, t)
  BY <1>1 DEF Machine, SameCounts
<1>. QED
  BY <1>2, <1>3, SameGood

\* advance moves the time and may end the stream.
LEMMA AdvanceGood ==
  ASSUME NEW s, Good(s), NEW now \in Nat PROVE Good(Advance(s, now))
<1>. DEFINE later == [s EXCEPT !.now = now]
<1>1. Good(later)
  BY NowGood
<1>. HIDE DEF later
<1>2. Good(Fail(later, "Timeout", TRUE))
  BY <1>1, FailGood DEF Error
<1>3. Advance(s, now) \in {s, later, Fail(later, "Timeout", TRUE)}
  BY DEF Advance, later
<1>. QED
  BY <1>1, <1>2, <1>3

\* The host's I/O reports move the clock and may end the stream.
LEMMA IoReportsGood ==
  ASSUME NEW s, Good(s)
  PROVE  /\ \A state \in IoState : Good(SetIoState(s, state))
         /\ Good(RecordIoProgress(s))
<1>1. s.io \in Clock /\ s.now \in Nat
  BY DEF Good, Machine
<1>2. Good(Fail(s, "Timeout", TRUE))
  BY FailGood DEF Error
<1>3. ASSUME NEW state \in IoState PROVE Good(SetIoState(s, state))
  <2>. DEFINE c == SetState(s.io, s.now, state)
              changed == [s EXCEPT !.io = c]
  <2>1. c \in Clock
    BY <1>1, ClockTyped
  <2>2. SetIoState(s, state) \in {changed, Fail(s, "Timeout", TRUE), Fail(changed, "Timeout", TRUE)}
    BY DEF SetIoState
  <2>. HIDE DEF c
  <2>3. Good(changed)
    BY <2>1, ClockGood
  <2>. HIDE DEF changed
  <2>4. Good(Fail(changed, "Timeout", TRUE))
    BY <2>3, FailGood DEF Error
  <2>. QED
    BY <1>2, <2>2, <2>3, <2>4
<1>4. Good(RecordIoProgress(s))
  <2>. DEFINE c == Progress(s.io, s.now, IoTimeout)
              changed == [s EXCEPT !.io = c]
  <2>1. c \in Clock
    BY <1>1, ClockTyped, ConfigAssumption
  <2>2. RecordIoProgress(s) \in {s, changed, Fail(s, "Timeout", TRUE)}
    BY DEF RecordIoProgress
  <2>. HIDE DEF c
  <2>3. Good(changed)
    BY <2>1, ClockGood
  <2>. QED
    BY <1>2, <2>2, <2>3
<1>. QED
  BY <1>3, <1>4

-----------------------------------------------------------------------------
(* Messages of the peer. *)

\* Data that receive admits fits the window that was granted, buffered or
\* discarded: the case that needs an empty buffer while discarding.
LEMMA DataGood ==
  ASSUME NEW s, Good(s), NEW msg, msg.offset \in Offset, msg.len \in Nat, AdmitsData(s, msg)
  PROVE  Good(AcceptData(s, msg))
<1>. DEFINE end == msg.offset + msg.len
<1>1. s \in Machine /\ Numbers(s)
  BY MachineNumbers DEF Good
<1>2. end \in Offset /\ end <= s.advertised_limit /\ end = s.received + msg.len
  BY <1>1 DEF AdmitsData, Offset, Numbers
<1>3. CASE s.discarding
  <2>. DEFINE t == [s EXCEPT !.consumed = end, !.discarded = TRUE, !.received = end]
  <2>1. AcceptData(s, msg) = t
    BY <1>3 DEF AcceptData
  <2>. HIDE DEF end
  <2>0. s \in Machine /\ end \in Offset
    BY <1>1, <1>2
  <2>2. t \in Machine
    BY ZenonT(60), <2>0 DEF Machine
  <2>3. /\ t.side = s.side /\ t.send = s.send /\ t.recv = s.recv
        /\ t.sent = s.sent /\ t.received = end /\ t.consumed = end
        /\ t.peer_limit = s.peer_limit /\ t.advertised_limit = s.advertised_limit
    BY <1>1 DEF Machine
  <2>. HIDE DEF t
  <2>4. Sane(t)
    BY <1>1, <1>2, <1>3, <2>3 DEF Good, Sane, Bounded, Numbers, Offset
  <2>. QED
    BY <2>1, <2>2, <2>4 DEF Good
<1>4. CASE ~s.discarding
  <2>. DEFINE r == s.recv + msg.len
              t == [s EXCEPT !.recv = r, !.received = end]
  <2>1. AcceptData(s, msg) = t
    BY <1>4 DEF AcceptData
  <2>2. r \in Nat /\ r <= ReceiveWindow[s.side] /\ end = s.consumed + r
    BY <1>1, <1>2, <1>4 DEF AdmitsData, Numbers, Good, Sane, Bounded
  <2>. HIDE DEF end, r
  <2>3. t \in Machine
    BY ZenonT(60), <1>1, <1>2, <2>2 DEF Machine
  <2>4. /\ t.side = s.side /\ t.send = s.send /\ t.recv = r
        /\ t.sent = s.sent /\ t.received = end /\ t.consumed = s.consumed
        /\ t.peer_limit = s.peer_limit /\ t.advertised_limit = s.advertised_limit
        /\ t.discarding = s.discarding
    BY <1>1 DEF Machine
  <2>. HIDE DEF t
  <2>5. Sane(t)
    BY <1>1, <1>2, <1>4, <2>2, <2>4 DEF Good, Sane, Bounded, Numbers, Offset
  <2>. QED
    BY <2>1, <2>3, <2>5 DEF Good
<1>. QED
  BY <1>3, <1>4

\* A granted limit never passes what the peer can hold of our bytes.
LEMMA WindowGood ==
  ASSUME NEW s, Good(s), NEW msg, msg.max_offset \in Offset, AdmitsWindow(s, msg)
  PROVE  Good(AcceptWindow(s, msg))
<1>. DEFINE l == IF msg.max_offset > s.peer_limit THEN msg.max_offset ELSE s.peer_limit
            t == [s EXCEPT !.peer_limit = l]
<1>1. s \in Machine /\ Numbers(s)
  BY MachineNumbers DEF Good
<1>2. /\ l \in Offset /\ s.sent <= l
      /\ l <= s.sent + ReceiveWindow[Peer(s.side)]
  BY <1>1 DEF AdmitsWindow, SaturatingAdd, Lesser, Numbers, Good, Sane, Bounded, Offset
<1>3. AcceptWindow(s, msg) = t
  BY DEF AcceptWindow
<1>. HIDE DEF l
<1>4. t \in Machine
  BY <1>1, <1>2 DEF Machine
<1>5. /\ t.side = s.side /\ t.send = s.send /\ t.recv = s.recv
      /\ t.sent = s.sent /\ t.received = s.received /\ t.consumed = s.consumed
      /\ t.peer_limit = l /\ t.advertised_limit = s.advertised_limit
      /\ t.discarding = s.discarding
  BY <1>1 DEF Machine
<1>. HIDE DEF t
<1>6. Sane(t)
  BY <1>1, <1>2, <1>5 DEF Good, Sane, Bounded, Numbers, Offset
<1>. QED
  BY <1>3, <1>4, <1>6 DEF Good

\* A peer's barrier, or the answer to ours, moves no byte.
LEMMA BarriersGood ==
  ASSUME NEW s, Good(s), NEW msg
  PROVE  /\ msg.barrier \in Barrier => Good(AcceptFlush(s, msg))
         /\ AdmitsFlushed(s, msg) => Good(AcceptFlushed(s, msg))
<1>1. s \in Machine
  BY DEF Good
<1>2. ASSUME msg.barrier \in Barrier PROVE Good(AcceptFlush(s, msg))
  <2>. DEFINE b == msg.barrier  i == msg.barrier.id
              t == [s EXCEPT !.peer_flush_serial = i, !.peer_flush = b]
  <2>1. b \in Barrier /\ i \in Nat
    BY <1>2 DEF Barrier
  <2>2. AcceptFlush(s, msg) = t
    BY DEF AcceptFlush
  <2>. HIDE DEF b, i
  <2>3. t \in Machine
    BY ZenonT(60), <1>1, <2>1 DEF Machine
  <2>4. SameCounts(s, t)
    BY <1>1 DEF Machine, SameCounts
  <2>. QED
    BY <2>2, <2>3, <2>4, SameGood
<1>3. ASSUME AdmitsFlushed(s, msg) PROVE Good(AcceptFlushed(s, msg))
  <2>. DEFINE i == s.flush.id
              t == [s EXCEPT !.flush_acked = i, !.flush = None]
  <2>1. i \in Nat
    BY <1>1, <1>3 DEF AdmitsFlushed, Machine, PendingFlush
  <2>2. AcceptFlushed(s, msg) = t
    BY DEF AcceptFlushed
  <2>. HIDE DEF i
  <2>3. t \in Machine
    BY ZenonT(60), <1>1, <2>1 DEF Machine
  <2>4. SameCounts(s, t)
    BY <1>1 DEF Machine, SameCounts
  <2>. QED
    BY <2>2, <2>3, <2>4, SameGood
<1>. QED
  BY <1>2, <1>3

\* EndWrite, Close and Closed move no byte.
LEMMA ClosingGood ==
  ASSUME NEW s, Good(s), NEW msg
  PROVE  /\ Good(AcceptEndWrite(s, msg))
         /\ Good(AcceptClose(s, msg))
         /\ msg.closed \in CloseReport => Good(AcceptClosed(s, msg))
<1>1. s \in Machine
  BY DEF Good
<1>2. Good(AcceptEndWrite(s, msg))
  <2>. DEFINE t == [s EXCEPT !.end_received = TRUE]
  <2>1. t \in Machine
    BY ZenonT(60), <1>1 DEF Machine
  <2>2. SameCounts(s, t)
    BY <1>1 DEF Machine, SameCounts
  <2>. QED
    BY <2>1, <2>2, SameGood DEF AcceptEndWrite
<1>3. Good(AcceptClose(s, msg))
  <2>. DEFINE io == Stop(s.io, s.now)
              d == s.now + CloseTimeout
              t == [s EXCEPT !.close_received = TRUE, !.io = io, !.close_deadline = d]
  <2>1. s.io \in Clock /\ s.now \in Nat
    BY <1>1 DEF Machine
  <2>2. io \in Clock
    BY <2>1, ClockTyped
  <2>3. d \in Nat
    BY <2>1, ConfigAssumption
  <2>4. AcceptClose(s, msg) \in {s, t}
    BY DEF AcceptClose
  <2>. HIDE DEF io, d
  <2>5. t \in Machine
    BY ZenonT(60), <1>1, <2>2, <2>3 DEF Machine
  <2>6. SameCounts(s, t)
    BY <1>1 DEF Machine, SameCounts
  <2>. QED
    BY <2>4, <2>5, <2>6, SameGood
<1>4. ASSUME msg.closed \in CloseReport PROVE Good(AcceptClosed(s, msg))
  <2>. DEFINE r == [discarded |-> s.discarded \/ msg.closed.discarded]
              t == [s EXCEPT !.completed = r]
  <2>1. r \in CloseResult
    BY <1>1, <1>4 DEF Machine, CloseReport, CloseResult
  <2>2. AcceptClosed(s, msg) \in {t, Fail(s, "PeerFailed", FALSE)}
    BY DEF AcceptClosed
  <2>. HIDE DEF r
  <2>3. t \in Machine
    BY <1>1, <2>1 DEF Machine
  <2>4. SameCounts(s, t)
    BY <1>1 DEF Machine, SameCounts
  <2>5. Good(t)
    BY <2>3, <2>4, SameGood
  <2>6. Good(Fail(s, "PeerFailed", FALSE))
    BY FailGood DEF Error
  <2>. QED
    BY <2>2, <2>5, <2>6
<1>. QED
  BY <1>2, <1>3, <1>4

\* Any message of the protocol, admitted or not, keeps the bounds.
LEMMA ReceiveGood ==
  ASSUME NEW s, Good(s), NEW msg \in Message PROVE Good(Receive(s, msg))
<1>1. Good(Fail(s, "Timeout", TRUE)) /\ Good(Fail(s, "Protocol", TRUE))
  BY FailGood DEF Error
<1>2. ASSUME Admits(s, msg) PROVE Good(Accept(s, msg))
  <2>1. CASE msg \in [kind: {"Data"}, offset: Offset, len: Nat]
    BY <1>2, <2>1, DataGood DEF Admits, Accept
  <2>2. CASE msg \in [kind: {"Window"}, max_offset: Offset]
    BY <1>2, <2>2, WindowGood DEF Admits, Accept
  <2>3. CASE msg \in [kind: {"Flush", "Flushed"}, barrier: Barrier]
    BY <1>2, <2>3, BarriersGood DEF Admits, Accept
  <2>4. CASE msg \in [kind: {"EndWrite", "Close"}, final_offset: Offset]
    BY <1>2, <2>4, ClosingGood DEF Admits, Accept
  <2>5. CASE msg \in [kind: {"Closed"}, closed: CloseReport]
    BY <1>2, <2>5, ClosingGood DEF Admits, Accept
  <2>6. CASE msg \in [kind: {"Cancel"}, reason: {"Timeout", "Cancelled"}]
    <3>1. msg.kind = "Cancel" /\ msg.reason \in Error
      BY <2>6 DEF Error
    <3>. QED
      BY <3>1, FailGood DEF Accept
  <2>7. CASE msg \in [kind: {"Failed"}, code: {"Timeout", "Protocol", "Refused"}]
    <3>1. msg.kind = "Failed"
      BY <2>7
    <3>. QED
      BY <3>1, FailGood DEF Accept, Error
  <2>. QED
    BY <2>1, <2>2, <2>3, <2>4, <2>5, <2>6, <2>7 DEF Message
<1>3. \/ Receive(s, msg) = s
      \/ Receive(s, msg) = Fail(s, "Timeout", TRUE)
      \/ Receive(s, msg) = Fail(s, "Protocol", TRUE)
      \/ Admits(s, msg) /\ Receive(s, msg) = Accept(s, msg)
  BY DEF Receive
<1>. QED
  BY <1>1, <1>2, <1>3

-----------------------------------------------------------------------------
(* Messages to the peer. *)

\* A Window grants no more than the receive window beyond what is consumed.
LEMMA GrantGood ==
  ASSUME NEW s, Good(s), WindowDue(s) PROVE Good([s EXCEPT !.advertised_limit = Limit(s)])
<1>. DEFINE l == Limit(s)
            t == [s EXCEPT !.advertised_limit = l]
<1>1. s \in Machine /\ Numbers(s)
  BY MachineNumbers DEF Good
<1>2. l \in Offset /\ s.received <= l /\ l <= s.consumed + ReceiveWindow[s.side]
  BY <1>1 DEF WindowDue, Limit, SaturatingAdd, Lesser, Numbers, Good, Sane, Bounded, Offset
<1>. HIDE DEF l
<1>3. t \in Machine
  BY <1>1, <1>2 DEF Machine
<1>4. /\ t.side = s.side /\ t.send = s.send /\ t.recv = s.recv
      /\ t.sent = s.sent /\ t.received = s.received /\ t.consumed = s.consumed
      /\ t.peer_limit = s.peer_limit /\ t.advertised_limit = l
      /\ t.discarding = s.discarding
  BY <1>1 DEF Machine
<1>. HIDE DEF t
<1>5. Sane(t)
  BY <1>1, <1>2, <1>4 DEF Good, Sane, Bounded, Numbers
<1>. QED
  BY <1>3, <1>5 DEF Good, t, l

\* Data stays within the peer's credit, and every byte sent was accepted.
LEMMA SendDataGood ==
  ASSUME NEW s, Good(s), DataDue(s) PROVE Good(SendData(s))
<1>. DEFINE k == s.send - Count(s)
            n == s.sent + Count(s)
            drained == s.send = Count(s)
            d == IF drained THEN None ELSE s.batch_deadline
            f == IF drained THEN FALSE ELSE s.force_send
            u == [s EXCEPT !.send = k, !.sent = n]
            v == [u EXCEPT !.batch_deadline = d]
            t == [v EXCEPT !.force_send = f]
<1>1. s \in Machine /\ Numbers(s)
  BY MachineNumbers DEF Good
<1>2. /\ k \in Nat /\ n \in Offset /\ k <= s.send /\ s.sent <= n /\ k + n = s.send + s.sent
      /\ n <= s.peer_limit
  BY <1>1 DEF DataDue, Count, Credit, Lesser, Numbers, Good, Sane, Bounded, Offset
<1>3. d \in Nat \cup {None} /\ f \in BOOLEAN
  BY ZenonT(60), <1>1 DEF Machine
<1>4. SendData(s) = t
  BY DEF SendData
<1>. HIDE DEF k, n, d, f
<1>5. u \in Machine
  BY ZenonT(60), <1>1, <1>2 DEF Machine
<1>6. /\ u.side = s.side /\ u.send = k /\ u.recv = s.recv
      /\ u.sent = n /\ u.received = s.received /\ u.consumed = s.consumed
      /\ u.peer_limit = s.peer_limit /\ u.advertised_limit = s.advertised_limit
      /\ u.discarding = s.discarding
  BY <1>1 DEF Machine
<1>. HIDE DEF u
<1>7. Good(u)
  BY <1>1, <1>2, <1>5, <1>6 DEF Good, Sane, Bounded, Numbers, Offset
<1>8. v \in Machine
  BY <1>3, <1>5 DEF Machine
<1>9. SameCounts(u, v)
  BY <1>5 DEF Machine, SameCounts
<1>. HIDE DEF v
<1>10. t \in Machine
  BY <1>3, <1>8 DEF Machine
<1>11. SameCounts(v, t)
  BY <1>8 DEF Machine, SameCounts
<1>. QED
  BY <1>4, <1>7, <1>8, <1>9, <1>10, <1>11, SameGood

\* The other messages to the peer move no byte.
LEMMA NoticesGood ==
  ASSUME NEW s, Good(s)
  PROVE  /\ Good([s EXCEPT !.peer_flush = None])
         /\ Good([s EXCEPT !.end_sent = TRUE])
         /\ Good([s EXCEPT !.close_sent = TRUE])
         /\ s.flush # None => Good([s EXCEPT !.flush.sent = TRUE])
         /\ s.close_pending # None =>
              Good([s EXCEPT !.completed = [discarded |-> s.close_pending.discarded],
                             !.close_pending = None])
<1>1. s \in Machine
  BY DEF Good
<1>2. Good([s EXCEPT !.peer_flush = None])
  <2>. DEFINE t == [s EXCEPT !.peer_flush = None]
  <2>1. t \in Machine
    BY <1>1 DEF Machine
  <2>2. SameCounts(s, t)
    BY <1>1 DEF Machine, SameCounts
  <2>. QED
    BY <2>1, <2>2, SameGood
<1>3. Good([s EXCEPT !.end_sent = TRUE])
  <2>. DEFINE t == [s EXCEPT !.end_sent = TRUE]
  <2>1. t \in Machine
    BY ZenonT(60), <1>1 DEF Machine
  <2>2. SameCounts(s, t)
    BY <1>1 DEF Machine, SameCounts
  <2>. QED
    BY <2>1, <2>2, SameGood
<1>4. Good([s EXCEPT !.close_sent = TRUE])
  <2>. DEFINE t == [s EXCEPT !.close_sent = TRUE]
  <2>1. t \in Machine
    BY ZenonT(60), <1>1 DEF Machine
  <2>2. SameCounts(s, t)
    BY <1>1 DEF Machine, SameCounts
  <2>. QED
    BY <2>1, <2>2, SameGood
<1>5. ASSUME s.flush # None PROVE Good([s EXCEPT !.flush.sent = TRUE])
  <2>. DEFINE b == [s.flush EXCEPT !.sent = TRUE]
              t == [s EXCEPT !.flush = b]
  <2>1. b \in PendingFlush
    BY ZenonT(60), <1>1, <1>5 DEF Machine, PendingFlush
  <2>2. [s EXCEPT !.flush.sent = TRUE] = t
    OBVIOUS
  <2>. HIDE DEF b
  <2>3. t \in Machine
    BY <1>1, <2>1 DEF Machine
  <2>4. SameCounts(s, t)
    BY <1>1 DEF Machine, SameCounts
  <2>. QED
    BY <2>2, <2>3, <2>4, SameGood
<1>6. ASSUME s.close_pending # None
      PROVE  Good([s EXCEPT !.completed = [discarded |-> s.close_pending.discarded],
                            !.close_pending = None])
  <2>. DEFINE r == [discarded |-> s.close_pending.discarded]
              t == [s EXCEPT !.completed = r, !.close_pending = None]
  <2>1. r \in CloseResult
    BY <1>1, <1>6 DEF Machine, CloseReport, CloseResult
  <2>. HIDE DEF r
  <2>2. t \in Machine
    BY ZenonT(60), <1>1, <2>1 DEF Machine
  <2>3. SameCounts(s, t)
    BY <1>1 DEF Machine, SameCounts
  <2>4. Good(t)
    BY <2>2, <2>3, SameGood
  <2>. QED
    BY <2>4 DEF r
<1>. QED
  BY <1>2, <1>3, <1>4, <1>5, <1>6

\* Whichever message next_message takes, the bounds hold after it.
LEMMA OutgoingGood == ASSUME NEW s, Good(s) PROVE Good(Outgoing(s).m)
<1>1. Good([s EXCEPT !.terminal_message = None])
  BY TerminalMessageGood
<1>2. \/ Outgoing(s).m = s
      \/ Outgoing(s).m = [s EXCEPT !.terminal_message = None]
      \/ Outgoing(s).m = [s EXCEPT !.peer_flush = None]
      \/ WindowDue(s) /\ Outgoing(s).m = [s EXCEPT !.advertised_limit = Limit(s)]
      \/ s.close_pending # None /\ Outgoing(s).m =
           [s EXCEPT !.completed = [discarded |-> s.close_pending.discarded],
                     !.close_pending = None]
      \/ s.flush # None /\ Outgoing(s).m = [s EXCEPT !.flush.sent = TRUE]
      \/ DataDue(s) /\ Outgoing(s).m = SendData(s)
      \/ Outgoing(s).m = [s EXCEPT !.end_sent = TRUE]
      \/ Outgoing(s).m = [s EXCEPT !.close_sent = TRUE]
  BY DEF Outgoing, Out, FlushDue
<1>. QED
  BY <1>1, <1>2, NoticesGood, GrantGood, SendDataGood

-----------------------------------------------------------------------------

\* The inductive invariant.
IInv == Good(m) /\ networkSpent \in Nat /\ interactionSpent \in Nat

\* The invariant holds of a new machine.
THEOREM InitGood == Init => IInv
  BY NewGood DEF Init, IInv

\* Every call of the application, the host or the peer keeps the invariant.
THEOREM NextGood == IInv /\ [Next]_vars => IInv'
<1>. SUFFICES ASSUME IInv, [Next]_vars PROVE IInv'
  OBVIOUS
<1>1. Good(m) /\ networkSpent \in Nat /\ interactionSpent \in Nat
  BY DEF IInv
<1>2. CASE \E n \in Chunks : AppWrite(n) \/ AppRead(n)
  BY <1>1, <1>2, AnyPeerAssumption, WriteGood, ReadGood DEF AppWrite, AppRead, Untimed, IInv
<1>3. CASE AppFlush \/ AppEndWrite \/ AppClose \/ AppCancel
  BY <1>1, <1>3, StartFlushGood, RequestEndGood, StartCloseGood, EndingsGood
     DEF AppFlush, AppEndWrite, AppClose, AppCancel, Untimed, IInv
<1>4. CASE HostCompleteClose \/ HostRefuse \/ HostDisconnect
  BY <1>1, <1>4, CompleteCloseGood, EndingsGood
     DEF HostCompleteClose, HostRefuse, HostDisconnect, Untimed, IInv
<1>5. CASE \E msg \in Messages : HostReceive(msg)
  BY <1>1, <1>5, AnyPeerAssumption, ReceiveGood DEF HostReceive, Untimed, IInv
<1>6. CASE HostTake
  BY <1>1, <1>6, OutgoingGood DEF HostTake, Untimed, IInv
<1>7. CASE (\E state \in IoState : HostSetIo(state)) \/ HostProgress
  BY <1>1, <1>7, IoReportsGood DEF HostSetIo, HostProgress, Untimed, IInv
<1>8. CASE \E ms \in 1 .. MaxTime : HostAdvance(ms)
  <2>1. PICK ms \in 1 .. MaxTime : HostAdvance(ms)
    BY <1>8
  <2>2. ms \in Nat /\ m.now \in Nat
    BY <1>1, AnyPeerAssumption DEF Good, Machine
  <2>3. Good(m')
    BY <1>1, <2>1, <2>2, AdvanceGood DEF HostAdvance
  <2>4. networkSpent' \in Nat /\ interactionSpent' \in Nat
    BY <1>1, <2>1, <2>2 DEF HostAdvance
  <2>. QED
    BY <2>3, <2>4 DEF IInv
<1>9. CASE UNCHANGED vars
  BY <1>1, <1>9 DEF vars, IInv
<1>. QED
  BY <1>2, <1>3, <1>4, <1>5, <1>6, <1>7, <1>8, <1>9 DEF Next

\* Every field of a StreamMachine stays in its range, whatever its peer sends.
THEOREM MachineTyped == Spec => []TypeOK
<1>1. IInv => TypeOK
  BY DEF IInv, Good, Sane, TypeOK
<1>. QED
  BY InitGood, NextGood, <1>1, PTL DEF Spec

\* A StreamMachine stays within its buffers, its windows and the last offset, and
\* its counts agree, for every configuration and whatever its peer sends.
THEOREM MachineBounded == Spec => []BoundsHold
<1>1. IInv => BoundsHold
  BY DEF IInv, Good, Sane, BoundsHold
<1>. QED
  BY InitGood, NextGood, <1>1, PTL DEF Spec

-----------------------------------------------------------------------------
(* The first outcome stays. *)

\* t has the outcome of s, and owes the peer no other notice.
Settled(s, t) ==
  /\ t.error = s.error
  /\ t.completed = s.completed
  /\ t.terminal_message \in {s.terminal_message, None}

\* The operations that a machine with an outcome still serves.
LEMMA EndedStays ==
  ASSUME NEW s \in Machine, ~Live(s)
  PROVE  /\ \A n : Settled(s, Read(s, n))
         /\ Settled(s, CancelStream(s))
         /\ Settled(s, Disconnect(s))
         /\ \A msg : Settled(s, Receive(s, msg))
         /\ Settled(s, Outgoing(s).m)
         /\ \A now : Settled(s, Advance(s, now))
<1>1. \A e, notify : Fail(s, e, notify) = s
  BY DEF Fail
<1>2. \A n : Settled(s, Read(s, n))
  BY DEF Read, Settled, Machine
<1>3. Settled(s, CancelStream(s))
  BY <1>1 DEF CancelStream, Settled
<1>4. Settled(s, [s EXCEPT !.terminal_message = None])
  BY DEF Settled, Machine
<1>5. Settled(s, Disconnect(s))
  BY <1>1, <1>4 DEF Disconnect
<1>6. \A msg : Settled(s, Receive(s, msg))
  BY DEF Receive, Settled
<1>7. Outgoing(s).m \in {s, [s EXCEPT !.terminal_message = None]}
  BY DEF Outgoing, Out
<1>8. Settled(s, s)
  BY DEF Settled
<1>9. \A now : Advance(s, now) \in {s, [s EXCEPT !.now = now]}
  BY DEF Advance
<1>10. \A now : Settled(s, [s EXCEPT !.now = now])
  BY DEF Settled, Machine
<1>. QED
  BY <1>2, <1>3, <1>4, <1>5, <1>6, <1>7, <1>8, <1>9, <1>10

\* No call, message, timer or carrier loss changes an outcome once fail or the
\* close handshake has set it.
THEOREM OutcomeStays == Spec => FirstOutcomeStays
<1>1. ASSUME IInv, [Next]_vars, ~Live(m) PROVE Settled(m, m')
  <2>1. m \in Machine
    BY <1>1 DEF IInv, Good
  <2>2. CASE \E n \in Chunks : AppWrite(n) \/ AppRead(n)
    BY <1>1, <2>1, <2>2, EndedStays DEF AppWrite, CanWrite, AppRead
  <2>3. CASE AppFlush \/ AppEndWrite \/ AppClose \/ AppCancel
    BY <1>1, <2>1, <2>3, EndedStays
       DEF AppFlush, CanStartFlush, AppEndWrite, CanEndWrite, AppClose, CanStartClose, AppCancel
  <2>4. CASE HostCompleteClose \/ HostRefuse \/ HostDisconnect
    BY <1>1, <2>1, <2>4, EndedStays
       DEF HostCompleteClose, CanCompleteClose, HostRefuse, CanFailTerminal, HostDisconnect
  <2>5. CASE (\E msg \in Messages : HostReceive(msg)) \/ HostTake
    BY <1>1, <2>1, <2>5, EndedStays DEF HostReceive, HostTake
  <2>6. CASE (\E state \in IoState : HostSetIo(state)) \/ HostProgress
    BY <1>1, <2>6 DEF HostSetIo, HostProgress, CanReportIo
  <2>7. CASE \E ms \in 1 .. MaxTime : HostAdvance(ms)
    BY <1>1, <2>1, <2>7, EndedStays DEF HostAdvance
  <2>8. CASE UNCHANGED vars
    BY <2>8 DEF vars, Settled
  <2>. QED
    BY <1>1, <2>2, <2>3, <2>4, <2>5, <2>6, <2>7, <2>8 DEF Next
<1>2. IInv /\ [Next]_vars =>
        [~Live(m) => /\ m'.error = m.error
                     /\ m'.completed = m.completed
                     /\ m'.terminal_message \in {m.terminal_message, None}]_vars
  BY <1>1 DEF Settled
<1>. QED
  BY InitGood, NextGood, <1>2, PTL DEF Spec, FirstOutcomeStays
=============================================================================
