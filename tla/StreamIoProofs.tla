---------------------------- MODULE StreamIoProofs ----------------------------
(***************************************************************************)
(* The timers of one machine, whatever its peer sends: the two allowances  *)
(* account for every waited millisecond, and a live machine is never past  *)
(* a deadline.                                                             *)
(***************************************************************************)
EXTENDS StreamAnyPeerProofs

\* What a live machine's clock satisfies when ns and is are the milliseconds
\* waited: the strengthening of IoAllowanceExact.  Which wait runs decides
\* whether a deadline is set; a disabled network timeout keeps its allowance
\* at zero, and an enabled one is never used up by a live machine.
ClockOK(c, now, ns, is) ==
  /\ c.deadline # None => now < c.deadline
  /\ c.state \in {"Idle", "Backpressure"} => c.deadline = None
  /\ c.state = "Network" => (c.deadline # None <=> IoTimeout > 0)
  /\ c.state = "Interaction" => c.deadline # None
  /\ IoTimeout = 0 => c.network = 0
  /\ IoTimeout > 0 => ns + RemainingNetwork(c, now) = IoTimeout /\ RemainingNetwork(c, now) > 0
  /\ is + RemainingInteraction(c, now) = InteractionBudget

\* A live machine has reached neither of its deadlines.
Timely(s, ns, is) ==
  Live(s) => /\ s.close_deadline # None => s.now < s.close_deadline
             /\ ClockOK(s.io, s.now, ns, is)

-----------------------------------------------------------------------------
(* The clock. *)

\* account charges the running wait what it has used and leaves no deadline.
LEMMA AccountOK ==
  ASSUME NEW c \in Clock, NEW now \in Nat, NEW ns \in Nat, NEW is \in Nat,
         ClockOK(c, now, ns, is)
  PROVE  LET a == Account(c, now)
         IN  /\ a.state = c.state /\ a.deadline = None
             /\ a.network \in Nat /\ a.interaction \in Nat
             /\ IoTimeout = 0 => a.network = 0
             /\ IoTimeout > 0 => ns + a.network = IoTimeout /\ a.network > 0
             /\ is + a.interaction = InteractionBudget
<1>. DEFINE a == Account(c, now)
<1>1. a \in Clock
  BY ClockTyped
<1>2. IoTimeout \in Nat /\ InteractionBudget \in Nat
  BY ConfigAssumption
<1>3. /\ c.state \in IoState /\ c.network \in Nat /\ c.interaction \in Nat
      /\ c.deadline \in Nat \cup {None}
  BY DEF Clock
<1>4. CASE c.deadline = None
  <2>1. a = c
    BY <1>4 DEF Account
  <2>. QED
    BY <1>2, <1>3, <1>4, <2>1 DEF ClockOK, RemainingNetwork, RemainingInteraction
<1>5. CASE c.deadline # None
  <2>. DEFINE r == c.deadline - now
  <2>1. r \in Nat /\ r > 0 /\ SaturatingSub(c.deadline, now) = r
    BY <1>3, <1>5 DEF ClockOK, SaturatingSub
  <2>2. /\ a.state = c.state /\ a.deadline = None
        /\ a.network = IF c.state = "Network" THEN SaturatingSub(c.deadline, now) ELSE c.network
        /\ a.interaction = IF c.state = "Interaction" THEN SaturatingSub(c.deadline, now)
                                                     ELSE c.interaction
    BY <1>5 DEF Account, Clock
  <2>. HIDE DEF r, a
  <2>. QED
    BY <1>2, <1>3, <1>5, <2>1, <2>2 DEF ClockOK, RemainingNetwork, RemainingInteraction, a
<1>. QED
  BY <1>3, <1>4, <1>5

\* Leaving every wait keeps both allowances as they stand.
LEMMA StopOK ==
  ASSUME NEW c \in Clock, NEW now \in Nat, NEW ns \in Nat, NEW is \in Nat,
         ClockOK(c, now, ns, is)
  PROVE  ClockOK(Stop(c, now), now, ns, is)
<1>. DEFINE a == Account(c, now)
            t == [a EXCEPT !.state = "Idle"]
<1>1. a \in Clock
  BY ClockTyped
<1>2. /\ a.deadline = None
      /\ a.network \in Nat /\ a.interaction \in Nat
      /\ IoTimeout = 0 => a.network = 0
      /\ IoTimeout > 0 => ns + a.network = IoTimeout /\ a.network > 0
      /\ is + a.interaction = InteractionBudget
  BY AccountOK
<1>3. Stop(c, now) = t
  BY DEF Stop
<1>. HIDE DEF a
<1>4. /\ t.state = "Idle" /\ t.deadline = a.deadline
      /\ t.network = a.network /\ t.interaction = a.interaction
  BY <1>1 DEF Clock
<1>. HIDE DEF t
<1>. QED
  BY <1>2, <1>3, <1>4 DEF ClockOK, RemainingNetwork, RemainingInteraction

\* Entering another wait that is not due at once runs it on what is left of its
\* own allowance.
LEMMA SetStateOK ==
  ASSUME NEW c \in Clock, NEW now \in Nat, NEW ns \in Nat, NEW is \in Nat,
         ClockOK(c, now, ns, is), NEW state \in IoState,
         c.state # state => ~Due(SetState(c, now, state), now)
  PROVE  ClockOK(SetState(c, now, state), now, ns, is)
<1>. DEFINE a == Account(c, now)
            d == IF state = "Network" /\ a.network > 0 THEN now + a.network
                 ELSE IF state = "Interaction" THEN now + a.interaction
                 ELSE None
            t == [a EXCEPT !.state = state, !.deadline = d]
<1>1. a \in Clock
  BY ClockTyped
<1>2. /\ a.network \in Nat /\ a.interaction \in Nat
      /\ IoTimeout = 0 => a.network = 0
      /\ IoTimeout > 0 => ns + a.network = IoTimeout /\ a.network > 0
      /\ is + a.interaction = InteractionBudget
  BY AccountOK
<1>3. CASE c.state = state
  BY <1>3 DEF SetState
<1>4. CASE c.state # state
  <2>1. SetState(c, now, state) = t /\ ~Due(t, now)
    BY <1>4 DEF SetState
  <2>2. state \in {"Idle", "Backpressure"} => d = None
    OBVIOUS
  <2>3. state = "Network" => d = IF a.network > 0 THEN now + a.network ELSE None
    OBVIOUS
  <2>4. state = "Interaction" => d = now + a.interaction
    OBVIOUS
  <2>. HIDE DEF a, d
  <2>5. /\ t.state = state /\ t.deadline = d
        /\ t.network = a.network /\ t.interaction = a.interaction
    BY <1>1 DEF Clock
  <2>. HIDE DEF t
  <2>6. d # None => ~(now >= d)
    BY <2>1, <2>5 DEF Due
  <2>7. IoTimeout \in Nat
    BY ConfigAssumption
  <2>8. CASE state \in {"Idle", "Backpressure"}
    BY <1>2, <2>1, <2>2, <2>5, <2>8 DEF ClockOK, RemainingNetwork, RemainingInteraction
  <2>9. CASE state = "Network"
    <3>1. CASE IoTimeout > 0
      <4>1. d = now + a.network /\ d \in Int /\ d # None /\ now < d
            /\ SaturatingSub(d, now) = a.network
        BY <1>2, <2>3, <2>9, <3>1, NoneAssumption DEF SaturatingSub
      <4>. QED
        BY <1>2, <2>1, <2>5, <2>9, <3>1, <4>1
           DEF ClockOK, RemainingNetwork, RemainingInteraction
    <3>2. CASE IoTimeout = 0
      BY <1>2, <2>1, <2>3, <2>5, <2>9, <3>2
         DEF ClockOK, RemainingNetwork, RemainingInteraction
    <3>. QED
      BY <2>7, <3>1, <3>2
  <2>10. CASE state = "Interaction"
    <3>1. d = now + a.interaction /\ d \in Int /\ d # None
      BY <1>2, <2>4, <2>10, NoneAssumption
    <3>2. now < d /\ SaturatingSub(d, now) = a.interaction
      BY <1>2, <2>6, <3>1 DEF SaturatingSub
    <3>. QED
      BY <1>2, <2>1, <2>5, <2>10, <3>1, <3>2
         DEF ClockOK, RemainingNetwork, RemainingInteraction
  <2>. QED
    BY <2>8, <2>9, <2>10 DEF IoState
<1>. QED
  BY <1>3, <1>4

\* Bytes that moved on the network start its allowance again.
LEMMA ProgressOK ==
  ASSUME NEW c \in Clock, NEW now \in Nat, NEW ns \in Nat, NEW is \in Nat,
         ClockOK(c, now, ns, is), c.state = "Network"
  PROVE  ClockOK(Progress(c, now, IoTimeout), now, 0, is)
<1>. DEFINE d == IF IoTimeout > 0 THEN now + IoTimeout ELSE None
            t == [c EXCEPT !.network = IoTimeout, !.deadline = d]
<1>1. Progress(c, now, IoTimeout) = t
  BY DEF Progress
<1>2. IoTimeout \in Nat
  BY ConfigAssumption
<1>3. IoTimeout > 0 => d = now + IoTimeout
  OBVIOUS
<1>4. ~(IoTimeout > 0) => d = None
  OBVIOUS
<1>. HIDE DEF d
<1>5. /\ t.state = c.state /\ t.deadline = d
      /\ t.network = IoTimeout /\ t.interaction = c.interaction
  BY DEF Clock
<1>. HIDE DEF t
<1>6. CASE IoTimeout > 0
  <2>1. d \in Int /\ d # None /\ now < d /\ SaturatingSub(d, now) = IoTimeout
    BY <1>2, <1>3, <1>6, NoneAssumption DEF SaturatingSub
  <2>. QED
    BY <1>1, <1>2, <1>5, <1>6, <2>1 DEF ClockOK, RemainingNetwork, RemainingInteraction
<1>7. CASE ~(IoTimeout > 0)
  BY <1>1, <1>2, <1>4, <1>5, <1>7 DEF ClockOK, RemainingNetwork, RemainingInteraction
<1>. QED
  BY <1>6, <1>7

\* Time that passes short of the deadline is spent by the wait that runs.
LEMMA PassOK ==
  ASSUME NEW c \in Clock, NEW now \in Nat, NEW ns \in Nat, NEW is \in Nat,
         ClockOK(c, now, ns, is), NEW ms \in Nat, ~Due(c, now + ms)
  PROVE  ClockOK(c, now + ms, ns + IF c.state = "Network" THEN ms ELSE 0,
                              is + IF c.state = "Interaction" THEN ms ELSE 0)
<1>1. /\ c.state \in IoState /\ c.network \in Nat /\ c.interaction \in Nat
      /\ c.deadline \in Nat \cup {None}
  BY DEF Clock
<1>2. IoTimeout \in Nat /\ InteractionBudget \in Nat
  BY ConfigAssumption
<1>3. CASE c.deadline = None
  BY <1>1, <1>2, <1>3 DEF ClockOK, RemainingNetwork, RemainingInteraction
<1>4. CASE c.deadline # None
  <2>1. c.deadline \in Nat /\ now + ms < c.deadline
    BY <1>1, <1>4 DEF Due
  <2>2. /\ SaturatingSub(c.deadline, now) = c.deadline - now
        /\ SaturatingSub(c.deadline, now + ms) = c.deadline - now - ms
    BY <2>1 DEF SaturatingSub
  <2>3. CASE c.state = "Network"
    BY <1>1, <1>2, <1>4, <2>1, <2>2, <2>3 DEF ClockOK, RemainingNetwork, RemainingInteraction
  <2>4. CASE c.state = "Interaction"
    BY <1>1, <1>2, <1>4, <2>1, <2>2, <2>4 DEF ClockOK, RemainingNetwork, RemainingInteraction
  <2>. QED
    BY <1>1, <1>4, <2>3, <2>4 DEF ClockOK, IoState
<1>. QED
  BY <1>3, <1>4

-----------------------------------------------------------------------------
(* The machine. *)

\* t is no more alive than s and has its timers.
SameTime(s, t) ==
  /\ t.now = s.now /\ t.io = s.io /\ t.close_deadline = s.close_deadline
  /\ Live(t) => Live(s)

\* A machine that failed, failing now or before, is not live.
LEMMA FailEnds ==
  ASSUME NEW s \in Machine, NEW e \in Error, NEW notify
  PROVE  ~Live(Fail(s, e, notify))
<1>1. CASE Live(s)
  <2>1. Fail(s, e, notify).error = e
    BY <1>1 DEF Fail, Machine
  <2>. QED
    BY <2>1, NoneIsNoError DEF Live
<1>2. CASE ~Live(s)
  BY <1>2 DEF Fail
<1>. QED
  BY <1>1, <1>2

\* The application's calls, apart from a close, leave the timers alone.
LEMMA CallsQuiet ==
  ASSUME NEW s \in Machine
  PROVE  /\ \A n : ~Live(Write(s, n)) \/ SameTime(s, Write(s, n))
         /\ \A n : SameTime(s, Read(s, n))
         /\ SameTime(s, StartFlush(s))
         /\ SameTime(s, RequestEnd(s))
         /\ \A f : SameTime(s, CompleteClose(s, f))
<1>1. ASSUME NEW n PROVE ~Live(Write(s, n)) \/ SameTime(s, Write(s, n))
  <2>1. CASE s.sent + s.send + Accepted(s, n) > MaxOffset
    BY <2>1, FailEnds DEF Write, Error
  <2>2. CASE ~(s.sent + s.send + Accepted(s, n) > MaxOffset)
    BY <2>2 DEF Write, SameTime, Live, Machine
  <2>. QED
    BY <2>1, <2>2
<1>2. \A n : SameTime(s, Read(s, n))
  BY DEF Read, SameTime, Live, Machine
<1>3. SameTime(s, StartFlush(s))
  BY DEF StartFlush, SameTime, Live, Machine
<1>4. SameTime(s, RequestEnd(s))
  BY DEF RequestEnd, SameTime, Live, Machine
<1>5. \A f : SameTime(s, CompleteClose(s, f))
  BY DEF CompleteClose, SameTime, Live, Machine
<1>. QED
  BY <1>1, <1>2, <1>3, <1>4, <1>5

\* Taking a message to the peer leaves the timers alone.
LEMMA OutgoingQuiet ==
  ASSUME NEW s \in Machine PROVE SameTime(s, Outgoing(s).m)
<1>1. SameTime(s, SendData(s))
  BY DEF SendData, SameTime, Live, Machine
<1>2. SameTime(s, s)
  BY DEF SameTime
<1>3. /\ SameTime(s, [s EXCEPT !.terminal_message = None])
      /\ SameTime(s, [s EXCEPT !.peer_flush = None])
      /\ SameTime(s, [s EXCEPT !.advertised_limit = Limit(s)])
      /\ SameTime(s, [s EXCEPT !.flush.sent = TRUE])
      /\ SameTime(s, [s EXCEPT !.end_sent = TRUE])
      /\ SameTime(s, [s EXCEPT !.close_sent = TRUE])
  BY DEF SameTime, Live, Machine
<1>4. ASSUME NEW r, Live(s) PROVE SameTime(s, [s EXCEPT !.completed = r, !.close_pending = None])
  BY <1>4 DEF SameTime, Machine
<1>5. \/ Outgoing(s).m \in {s, SendData(s), [s EXCEPT !.terminal_message = None],
                            [s EXCEPT !.peer_flush = None],
                            [s EXCEPT !.advertised_limit = Limit(s)],
                            [s EXCEPT !.flush.sent = TRUE],
                            [s EXCEPT !.end_sent = TRUE],
                            [s EXCEPT !.close_sent = TRUE]}
      \/ Live(s) /\ Outgoing(s).m =
                      [s EXCEPT !.completed = [discarded |-> s.close_pending.discarded],
                                !.close_pending = None]
  BY DEF Outgoing, Out
<1>. QED
  BY <1>1, <1>2, <1>3, <1>4, <1>5

\* The messages of the peer that start no timer.
LEMMA MessagesQuiet ==
  ASSUME NEW s \in Machine, NEW msg, Live(s)
  PROVE  /\ SameTime(s, AcceptData(s, msg))
         /\ SameTime(s, AcceptWindow(s, msg))
         /\ SameTime(s, AcceptFlush(s, msg))
         /\ SameTime(s, AcceptFlushed(s, msg))
         /\ SameTime(s, AcceptEndWrite(s, msg))
         /\ ~Live(AcceptClosed(s, msg)) \/ SameTime(s, AcceptClosed(s, msg))
<1>1. SameTime(s, AcceptData(s, msg))
  BY DEF AcceptData, SameTime, Machine
<1>2. SameTime(s, AcceptWindow(s, msg))
  BY DEF AcceptWindow, SameTime, Machine
<1>3. SameTime(s, AcceptFlush(s, msg)) /\ SameTime(s, AcceptFlushed(s, msg))
  BY DEF AcceptFlush, AcceptFlushed, SameTime, Machine
<1>4. SameTime(s, AcceptEndWrite(s, msg))
  BY DEF AcceptEndWrite, SameTime, Machine
<1>5. ~Live(AcceptClosed(s, msg)) \/ SameTime(s, AcceptClosed(s, msg))
  <2>1. ~Live(Fail(s, "PeerFailed", FALSE))
    BY FailEnds DEF Error
  <2>2. \A r : SameTime(s, [s EXCEPT !.completed = r])
    BY DEF SameTime, Machine
  <2>. QED
    BY <2>1, <2>2 DEF AcceptClosed
<1>. QED
  BY <1>1, <1>2, <1>3, <1>4, <1>5

\* A close, asked for or received, stops the clock and starts its own timer.
LEMMA ClosesTimely ==
  ASSUME NEW s \in Machine, NEW ns \in Nat, NEW is \in Nat, Timely(s, ns, is), Live(s),
         NEW t, t.now = s.now, t.io = Stop(s.io, s.now), t.close_deadline = s.now + CloseTimeout
  PROVE  Timely(t, ns, is)
<1>1. s.now \in Nat /\ s.io \in Clock
  BY DEF Machine
<1>2. ClockOK(Stop(s.io, s.now), s.now, ns, is)
  BY <1>1, StopOK DEF Timely
<1>3. s.now < s.now + CloseTimeout
  BY <1>1, ConfigAssumption
<1>. QED
  BY <1>2, <1>3 DEF Timely

\* A step that leaves the timers alone, or ends the stream, stays timely.
LEMMA QuietTimely ==
  ASSUME NEW s, NEW t, NEW ns, NEW is, Timely(s, ns, is), ~Live(t) \/ SameTime(s, t)
  PROVE  Timely(t, ns, is)
  BY DEF Timely, SameTime

\* start_close stops the I/O clock and starts the close timer.
LEMMA StartCloseTimely ==
  ASSUME NEW s \in Machine, NEW ns \in Nat, NEW is \in Nat, Timely(s, ns, is), Live(s)
  PROVE  Timely(StartClose(s), ns, is)
<1>1. /\ StartClose(s).now = s.now /\ StartClose(s).io = Stop(s.io, s.now)
      /\ StartClose(s).close_deadline = s.now + CloseTimeout
  BY DEF StartClose, RequestEnd, Machine
<1>. QED
  BY <1>1, ClosesTimely

\* Whatever arrives, a machine that stays live stays timely.
LEMMA ReceiveTimely ==
  ASSUME NEW s \in Machine, NEW ns \in Nat, NEW is \in Nat, Timely(s, ns, is),
         NEW msg \in Message
  PROVE  Timely(Receive(s, msg), ns, is)
<1>1. CASE ~Live(s)
  BY <1>1 DEF Receive
<1>2. ~Live(Fail(s, "Timeout", TRUE)) /\ ~Live(Fail(s, "Protocol", TRUE))
  BY FailEnds DEF Error
<1>3. ASSUME Live(s) PROVE Timely(Accept(s, msg), ns, is)
  <2>1. CASE msg.kind \in {"Data", "Window", "Flush", "Flushed", "EndWrite", "Closed"}
    <3>1. Accept(s, msg) \in {AcceptData(s, msg), AcceptWindow(s, msg), AcceptFlush(s, msg),
                              AcceptFlushed(s, msg), AcceptEndWrite(s, msg), AcceptClosed(s, msg)}
      BY <2>1 DEF Accept
    <3>. QED
      BY <1>3, <3>1, MessagesQuiet, QuietTimely
  <2>2. CASE msg.kind = "Close"
    <3>1. Accept(s, msg) = AcceptClose(s, msg)
      BY <2>2 DEF Accept
    <3>2. CASE s.close_received
      BY <3>1, <3>2 DEF AcceptClose
    <3>3. CASE ~s.close_received
      <4>1. /\ AcceptClose(s, msg).now = s.now
            /\ AcceptClose(s, msg).io = Stop(s.io, s.now)
            /\ AcceptClose(s, msg).close_deadline = s.now + CloseTimeout
        BY <3>3 DEF AcceptClose, Machine
      <4>. QED
        BY <1>3, <3>1, <4>1, ClosesTimely
    <3>. QED
      BY <3>2, <3>3
  <2>3. CASE msg.kind = "Cancel"
    <3>1. msg.reason \in Error
      BY <2>3 DEF Message, Error
    <3>. QED
      BY <2>3, <3>1, FailEnds, QuietTimely DEF Accept
  <2>4. CASE msg.kind = "Failed"
    BY <2>4, FailEnds, QuietTimely DEF Accept, Error
  <2>5. msg.kind \in {"Data", "Window", "Flush", "Flushed", "EndWrite", "Closed", "Close",
                      "Cancel", "Failed"}
    BY DEF Message
  <2>. QED
    BY <2>1, <2>2, <2>3, <2>4, <2>5
<1>4. CASE Live(s)
  <2>1. Receive(s, msg) \in {Fail(s, "Timeout", TRUE), Fail(s, "Protocol", TRUE), Accept(s, msg)}
    BY <1>4 DEF Receive
  <2>. QED
    BY <1>2, <1>3, <1>4, <2>1, QuietTimely
<1>. QED
  BY <1>1, <1>4

\* set_io_state ends a stream whose allowance is used up, before or by the wait
\* it enters.
LEMMA SetIoTimely ==
  ASSUME NEW s \in Machine, NEW ns \in Nat, NEW is \in Nat, Timely(s, ns, is), Live(s),
         NEW state \in IoState
  PROVE  Timely(SetIoState(s, state), ns, is)
<1>. DEFINE c == SetState(s.io, s.now, state)
            changed == [s EXCEPT !.io = c]
<1>1. s.now \in Nat /\ s.io \in Clock
  BY DEF Machine
<1>2. c \in Clock
  BY <1>1, ClockTyped
<1>3. changed \in Machine /\ changed.io = c /\ changed.now = s.now
      /\ changed.close_deadline = s.close_deadline
  <2>. HIDE DEF c
  <2>. QED
    BY <1>2 DEF Machine
<1>4. ~Live(Fail(s, "Timeout", TRUE)) /\ ~Live(Fail(changed, "Timeout", TRUE))
  <2>. HIDE DEF changed
  <2>. QED
    BY <1>3, FailEnds DEF Error
<1>5. \/ SetIoState(s, state) \in {Fail(s, "Timeout", TRUE), Fail(changed, "Timeout", TRUE)}
      \/ /\ SetIoState(s, state) = changed
         /\ s.io.state # state => ~Due(changed.io, s.now)
  BY DEF SetIoState
<1>. HIDE DEF changed
<1>6. ASSUME s.io.state # state => ~Due(changed.io, s.now)
      PROVE  Timely(changed, ns, is)
  <2>1. ClockOK(c, s.now, ns, is)
    BY <1>1, <1>3, <1>6, SetStateOK DEF Timely
  <2>. HIDE DEF c
  <2>. QED
    BY <1>3, <2>1 DEF Timely
<1>. QED
  BY <1>4, <1>5, <1>6, QuietTimely

\* record_io_progress refreshes the network allowance, and only that one.
LEMMA ProgressTimely ==
  ASSUME NEW s \in Machine, NEW ns \in Nat, NEW is \in Nat, Timely(s, ns, is), Live(s)
  PROVE  Timely(RecordIoProgress(s), IF s.io.state = "Network" THEN 0 ELSE ns, is)
<1>. DEFINE c == Progress(s.io, s.now, IoTimeout)
            changed == [s EXCEPT !.io = c]
<1>1. s.now \in Nat /\ s.io \in Clock
  BY DEF Machine
<1>2. ~Live(Fail(s, "Timeout", TRUE))
  BY FailEnds DEF Error
<1>3. CASE Expired(s)
  BY <1>2, <1>3 DEF RecordIoProgress, Timely
<1>4. CASE ~Expired(s) /\ s.io.state = "Network"
  <2>1. RecordIoProgress(s) = changed
    BY <1>4 DEF RecordIoProgress
  <2>2. ClockOK(c, s.now, 0, is)
    BY <1>1, <1>4, ProgressOK DEF Timely
  <2>. HIDE DEF c
  <2>3. changed.io = c /\ changed.now = s.now /\ changed.close_deadline = s.close_deadline
    BY DEF Machine
  <2>. HIDE DEF changed
  <2>. QED
    BY <1>4, <2>1, <2>2, <2>3 DEF Timely
<1>5. CASE ~Expired(s) /\ s.io.state # "Network"
  BY <1>5 DEF RecordIoProgress
<1>. QED
  BY <1>3, <1>4, <1>5

\* advance spends the time of the wait that runs, or ends the stream.
LEMMA AdvanceTimely ==
  ASSUME NEW s \in Machine, NEW ns \in Nat, NEW is \in Nat, Timely(s, ns, is), NEW ms \in Nat
  PROVE  Timely(Advance(s, s.now + ms), ns + IF s.io.state = "Network" THEN ms ELSE 0,
                                        is + IF s.io.state = "Interaction" THEN ms ELSE 0)
<1>. DEFINE then == s.now + ms
            later == [s EXCEPT !.now = then]
<1>1. s.now \in Nat /\ s.io \in Clock /\ s.close_deadline \in Nat \cup {None}
  BY DEF Machine
<1>2. then \in Nat /\ ~(then < s.now)
  BY <1>1
<1>3. CASE ~Live(s)
  <2>1. Advance(s, then) = later
    BY <1>2, <1>3 DEF Advance
  <2>. HIDE DEF then
  <2>2. later.error = s.error /\ later.completed = s.completed
    BY DEF Machine
  <2>. QED
    BY <1>3, <2>1, <2>2 DEF Timely, Live, then
<1>4. CASE Live(s) /\ Expired(later)
  <2>1. Advance(s, then) = Fail(later, "Timeout", TRUE)
    BY <1>2, <1>4 DEF Advance
  <2>. HIDE DEF then
  <2>2. later \in Machine
    BY <1>2 DEF Machine
  <2>. HIDE DEF later
  <2>3. ~Live(Fail(later, "Timeout", TRUE))
    BY <2>2, FailEnds DEF Error
  <2>. QED
    BY <2>1, <2>3 DEF Timely, then
<1>5. CASE Live(s) /\ ~Expired(later)
  <2>1. Advance(s, then) = later
    BY <1>2, <1>5 DEF Advance
  <2>2. later.now = then /\ later.io = s.io /\ later.close_deadline = s.close_deadline
    <3>. HIDE DEF then
    <3>. QED
      BY DEF Machine
  <2>. HIDE DEF later
  <2>3. ~Due(s.io, then) /\ ~(s.close_deadline # None /\ then >= s.close_deadline)
    BY <1>5, <2>2 DEF Expired
  <2>4. s.close_deadline # None => then < s.close_deadline
    BY <1>1, <1>2, <2>3
  <2>5. ClockOK(s.io, then, ns + IF s.io.state = "Network" THEN ms ELSE 0,
                            is + IF s.io.state = "Interaction" THEN ms ELSE 0)
    BY <1>1, <1>5, <2>3, PassOK DEF Timely
  <2>. QED
    BY <2>1, <2>2, <2>4, <2>5 DEF Timely
<1>. QED
  BY <1>3, <1>4, <1>5

-----------------------------------------------------------------------------

\* The inductive invariant of the timers.
TInv == IInv /\ Timely(m, networkSpent, interactionSpent)

\* A new machine waits for nothing and has both allowances whole.
THEOREM InitTimely == Init => TInv
<1>. SUFFICES ASSUME Init PROVE TInv
  OBVIOUS
<1>1. PICK s \in Sides : m = New(s)
  BY DEF Init
<1>2. m.now = 0 /\ m.close_deadline = None /\ m.io = NewClock(IoTimeout, InteractionBudget)
  BY <1>1 DEF New
<1>3. ClockOK(NewClock(IoTimeout, InteractionBudget), 0, 0, 0)
  BY ConfigAssumption DEF ClockOK, NewClock, RemainingNetwork, RemainingInteraction
<1>. QED
  BY <1>2, <1>3, InitGood DEF TInv, Timely, Init

\* Every step keeps the invariant of the timers.
THEOREM NextTimely == TInv /\ [Next]_vars => TInv'
<1>. SUFFICES ASSUME TInv, [Next]_vars PROVE TInv'
  OBVIOUS
<1>1. /\ m \in Machine /\ networkSpent \in Nat /\ interactionSpent \in Nat
      /\ Timely(m, networkSpent, interactionSpent)
  BY DEF TInv, IInv, Good
<1>2. IInv'
  BY NextGood DEF TInv
<1>3. ASSUME Untimed, ~Live(m') \/ SameTime(m, m') PROVE TInv'
  BY <1>1, <1>2, <1>3, QuietTimely DEF TInv, Untimed
<1>4. CASE \E n \in Chunks : AppWrite(n) \/ AppRead(n)
  BY <1>1, <1>3, <1>4, CallsQuiet DEF AppWrite, AppRead
<1>5. CASE AppFlush \/ AppEndWrite \/ HostCompleteClose
  BY <1>1, <1>3, <1>5, CallsQuiet DEF AppFlush, AppEndWrite, HostCompleteClose
<1>6. CASE AppClose
  BY <1>1, <1>2, <1>6, StartCloseTimely DEF AppClose, CanStartClose, TInv, Untimed
<1>7. CASE AppCancel
  BY <1>1, <1>3, <1>7, FailEnds DEF AppCancel, CancelStream, Error
<1>8. CASE HostRefuse \/ HostDisconnect
  <2>1. ASSUME NEW e \in Error, NEW msg,
               m' = [Fail(m, e, FALSE) EXCEPT !.terminal_message = msg]
        PROVE  ~Live(m')
    <3>1. Fail(m, e, FALSE) \in Machine /\ ~Live(Fail(m, e, FALSE))
      BY <1>1, FailTyped, FailEnds
    <3>. QED
      BY ZenonT(60), <2>1, <3>1 DEF Live, Machine
  <2>2. "PeerFailed" \in Error /\ "CarrierLost" \in Error
    BY DEF Error
  <2>3. CASE HostRefuse
    BY <1>3, <2>1, <2>2, <2>3 DEF HostRefuse, FailTerminal
  <2>4. CASE HostDisconnect
    BY <1>3, <2>1, <2>2, <2>4 DEF HostDisconnect, Disconnect
  <2>. QED
    BY <1>8, <2>3, <2>4
<1>9. CASE \E msg \in Messages : HostReceive(msg)
  BY <1>1, <1>2, <1>9, AnyPeerAssumption, ReceiveTimely DEF HostReceive, TInv, Untimed
<1>10. CASE HostTake
  BY <1>1, <1>3, <1>10, OutgoingQuiet DEF HostTake
<1>11. CASE \E state \in IoState : HostSetIo(state)
  BY <1>1, <1>2, <1>11, SetIoTimely DEF HostSetIo, CanReportIo, TInv, Untimed
<1>12. CASE HostProgress
  BY <1>1, <1>2, <1>12, ProgressTimely DEF HostProgress, CanReportIo, TInv
<1>13. CASE \E ms \in 1 .. MaxTime : HostAdvance(ms)
  <2>1. PICK ms \in 1 .. MaxTime : HostAdvance(ms)
    BY <1>13
  <2>2. ms \in Nat
    BY AnyPeerAssumption
  <2>. QED
    BY <1>1, <1>2, <2>1, <2>2, AdvanceTimely DEF HostAdvance, TInv
<1>14. CASE UNCHANGED vars
  BY <1>1, <1>2, <1>14 DEF vars, TInv
<1>. QED
  BY <1>4, <1>5, <1>6, <1>7, <1>8, <1>9, <1>10, <1>11, <1>12, <1>13, <1>14 DEF Next

\* The I/O allowances of a live stream account for every waited millisecond, for
\* every timeout and budget and whatever order waits, progress and messages come in.
THEOREM AllowanceExact == Spec => []IoAllowanceExact
<1>1. TInv => IoAllowanceExact
  BY DEF TInv, Timely, ClockOK, IoAllowanceExact
<1>. QED
  BY InitTimely, NextTimely, <1>1, PTL DEF Spec

\* A live stream is never past its close or I/O deadline.
THEOREM NeverOverdue == Spec => []NoOverdueStream
<1>1. TInv => NoOverdueStream
  <2>. SUFFICES ASSUME TInv, Live(m) PROVE NoOverdueStream
    BY DEF NoOverdueStream
  <2>1. /\ m.now \in Nat /\ m.io.deadline \in Nat \cup {None}
        /\ m.close_deadline \in Nat \cup {None}
    BY DEF TInv, IInv, Good, Machine, Clock
  <2>2. /\ m.close_deadline # None => m.now < m.close_deadline
        /\ ClockOK(m.io, m.now, networkSpent, interactionSpent)
    BY DEF TInv, Timely
  <2>3. ~Expired(m)
    BY <2>1, <2>2 DEF ClockOK, Expired, Due
  <2>. QED
    BY <2>2, <2>3 DEF ClockOK, NoOverdueStream
<1>. QED
  BY InitTimely, NextTimely, <1>1, PTL DEF Spec
=============================================================================
