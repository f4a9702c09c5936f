---------------------------- MODULE StreamAnyPeer ----------------------------
(***************************************************************************)
(* One StreamMachine whose peer may send any well-formed message at any    *)
(* time.  What must hold here does not depend on the peer's behaviour: the *)
(* machine's own bounds, the accounting of the backend I/O clock, and the  *)
(* finality of the first outcome.                                          *)
(***************************************************************************)
EXTENDS StreamMachine

CONSTANTS
  Sides,       \* the sides this machine may play
  Messages,    \* what the peer may send
  Chunks,      \* the sizes of the application's reads and writes
  MaxFlushes,  \* bound: barriers the application starts
  MaxTime      \* bound: the host's clock stops here

ASSUME AnyPeerAssumption ==
  /\ Sides \subseteq Side
  /\ Messages \subseteq Message
  /\ Chunks \subseteq Nat \ {0}
  /\ MaxFlushes \in Nat
  /\ MaxTime \in Nat

VARIABLES
  m,                \* the machine
  networkSpent,     \* history: ms waited on the backend since it last moved bytes
  interactionSpent  \* history: ms waited on helpers

vars == <<m, networkSpent, interactionSpent>>

Init == (\E s \in Sides : m = New(s)) /\ networkSpent = 0 /\ interactionSpent = 0

Untimed == UNCHANGED <<networkSpent, interactionSpent>>

AppWrite(n) == CanWrite(m) /\ m' = Write(m, n) /\ Untimed

AppRead(n) == m' = Read(m, n) /\ Untimed

AppFlush ==
  CanStartFlush(m) /\ m.flush_serial < MaxFlushes /\ m' = StartFlush(m) /\ Untimed

AppEndWrite == CanEndWrite(m) /\ m' = RequestEnd(m) /\ Untimed

AppClose == CanStartClose(m) /\ m' = StartClose(m) /\ Untimed

AppCancel == m' = CancelStream(m) /\ Untimed

HostCompleteClose ==
  CanCompleteClose(m) /\ (\E f \in BOOLEAN : m' = CompleteClose(m, f)) /\ Untimed

HostRefuse == CanFailTerminal(m) /\ m' = FailTerminal(m) /\ Untimed

HostDisconnect == m' = Disconnect(m) /\ Untimed

HostReceive(msg) == m' = Receive(m, msg) /\ Untimed

HostTake == Outgoing(m).msg # None /\ m' = Outgoing(m).m /\ Untimed

HostSetIo(state) == CanReportIo(m) /\ m' = SetIoState(m, state) /\ Untimed

HostProgress ==
  /\ CanReportIo(m)
  /\ m' = RecordIoProgress(m)
  /\ networkSpent' = IF m.io.state = "Network" THEN 0 ELSE networkSpent
  /\ UNCHANGED interactionSpent

\* Time passes; the wait that is running is the one that is spent.
HostAdvance(ms) ==
  /\ m.now + ms <= MaxTime
  /\ m' = Advance(m, m.now + ms)
  /\ networkSpent' = networkSpent + IF m.io.state = "Network" THEN ms ELSE 0
  /\ interactionSpent' = interactionSpent + IF m.io.state = "Interaction" THEN ms ELSE 0

Next ==
  \/ \E n \in Chunks : AppWrite(n) \/ AppRead(n)
  \/ AppFlush
  \/ AppEndWrite
  \/ AppClose
  \/ AppCancel
  \/ HostCompleteClose
  \/ HostRefuse
  \/ HostDisconnect
  \/ \E msg \in Messages : HostReceive(msg)
  \/ HostTake
  \/ \E state \in IoState : HostSetIo(state)
  \/ HostProgress
  \/ \E ms \in 1 .. MaxTime : HostAdvance(ms)

Spec == Init /\ [][Next]_vars

-----------------------------------------------------------------------------
(* Properties. *)

TypeOK ==
  /\ m \in Machine
  /\ m.side \in Sides
  /\ networkSpent \in Nat
  /\ interactionSpent \in Nat

Bounded(s) ==
  /\ s.recv <= ReceiveWindow[s.side]
  /\ s.send <= SendBuffer[s.side]
  /\ s.sent + s.send <= MaxOffset
  /\ s.received = s.consumed + s.recv
  /\ s.received <= s.advertised_limit
  /\ s.advertised_limit <= s.consumed + ReceiveWindow[s.side]
  /\ s.sent <= s.peer_limit
  /\ s.peer_limit <= s.sent + ReceiveWindow[Peer(s.side)]

\* Whatever the peer sends, the machine buffers no more than its receive window
\* and its send buffer, sends within the credit it was granted, grants no more
\* than it can hold, and never loses count of a byte.
BoundsHold == Bounded(m)

\* A live stream's two allowances account for every waited millisecond: leaving
\* and re-entering a wait refreshes neither, backpressure and idling cost
\* nothing, and a finite network timeout never turns into a disabled one.
IoAllowanceExact ==
  Live(m) =>
    /\ IoTimeout > 0 => networkSpent + RemainingNetwork(m.io, m.now) = IoTimeout
    /\ interactionSpent + RemainingInteraction(m.io, m.now) = InteractionBudget

\* A live machine is never past a deadline it has not acted on, so no message,
\* read or report is served after the stream should have timed out, and with a
\* finite timeout the backend is never waited on without a deadline.
NoOverdueStream ==
  Live(m) =>
    /\ ~Expired(m)
    /\ m.io.state = "Network" /\ IoTimeout > 0 => m.io.deadline # None
    /\ m.io.state = "Interaction" => m.io.deadline # None

\* The first terminal outcome stays, and the machine that has one answers the
\* peer at most with the one notice it already owed.
FirstOutcomeStays ==
  [][~Live(m) =>
       /\ m'.error = m.error
       /\ m'.completed = m.completed
       /\ m'.terminal_message \in {m.terminal_message, None}]_vars
=============================================================================
