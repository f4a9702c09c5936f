------------------------------ MODULE Sequenced ------------------------------
(***************************************************************************)
(* The ordering kernel of profile 3 (src/src/sequenced.rs): an Outbound    *)
(* that numbers the frames of one direction, a carrier that may lose,      *)
(* repeat and reorder them, and the Receiver that reassembles each stream  *)
(* and applies it through its host's callback.                             *)
(*                                                                         *)
(* Every method takes &mut self, so a step is one call.  A call that       *)
(* returns an error without effect is not a step.  The callback's answer,  *)
(* for each frame it is given, is a choice.  The host may also submit a    *)
(* frame that the Outbound never sent.                                     *)
(***************************************************************************)
EXTENDS Integers, Sequences, FiniteSets, FiniteSetsExt

CONSTANTS
  Stream,         \* the streams the host knows
  Sends,          \* Sends[d]: the kinds of frame the producers of direction d enqueue
  Stray,          \* frames that are submitted although no Outbound sent them
  ChargeOf,       \* ChargeOf[k]: the charge of a frame of kind k, FRAME_OVERHEAD included
  WorstFrame,     \* encoded_frame + decode_allocation + FRAME_OVERHEAD
  RecordCharge,   \* RECORD_CHARGE
  QueuedBytes, ControlBytes,   \* Limits::queued_bytes, control_reserve_bytes
  QueuedFrames, ControlFrames, \* Limits::queued_frames, control_reserve_frames
  MaxQueued,      \* Outbound::max_queued
  MaxLifetime,    \* MAX_LIFETIME_STREAMS
  MaxActive,      \* MAX_ACTIVE_STREAMS
  MaxReorderStream,  \* MAX_REORDER_PER_STREAM
  MaxReorderBinding, \* MAX_REORDER_PER_BINDING
  GapTimeout,     \* GAP_TIMEOUT_MS
  MaxSeq,         \* bound: the last sequence number (i64::MAX - 1 in the code)
  MaxTime,        \* bound: the last instant
  MaxSent,        \* bound: frames enqueued, over all streams
  None            \* an option's absent value

Direction == {"Initiator", "Endpoint"}

Abortive == {"OpenFailed", "IdentityCheckFailed", "Failed", "Cancel"}
SenderFinal == Abortive \cup {"Closed", "IdentityChecked"}
FirstKind(d) ==
  IF d = "Initiator" THEN {"Open", "CheckIdentity"}
  ELSE {"Opened", "OpenFailed", "IdentityChecked", "IdentityCheckFailed", "Failed"}

Kind == FirstKind("Initiator") \cup FirstKind("Endpoint") \cup SenderFinal
          \cup {"Data", "Window", "Flush", "Flushed", "EndWrite", "Close"}

\* Envelopes that passed the codec; body tells two with equal headers apart.
Frame == [stream : Stream, seq : 1..MaxSeq, kind : Kind, body : {"sent", "other"}]

\* The errors after which a receiver stays failed.
Cause == {"GapTimeout", "Protocol", "ApplyRejected"}

Cost(m) == ChargeOf[m.kind]
Available == QueuedBytes - ControlBytes
FrameSlots == QueuedFrames - ControlFrames

\* valid_limits and Outbound::new
ASSUME LimitsAssumption ==
  /\ IsFiniteSet(Stream)
  /\ None \notin Frame /\ None \notin Nat /\ None \notin Cause
  /\ Sends \in [Direction -> SUBSET Kind] /\ Stray \subseteq Frame
  /\ WorstFrame \in Nat /\ ChargeOf \in [Kind -> 0..WorstFrame]
  /\ RecordCharge \in Nat /\ QueuedBytes \in Nat /\ ControlBytes \in Nat
  /\ QueuedFrames \in Nat /\ ControlFrames \in Nat
  /\ QueuedBytes >= 2 * WorstFrame + ControlBytes + RecordCharge
  /\ QueuedFrames >= ControlFrames + 2
  /\ MaxQueued \in 1..FrameSlots
  /\ MaxLifetime \in Nat /\ MaxActive \in Nat
  /\ MaxReorderStream \in Nat /\ MaxReorderBinding \in Nat
  /\ GapTimeout \in Nat /\ MaxSeq \in Nat /\ MaxTime \in Nat /\ MaxSent \in Nat

VARIABLES
  direction,   \* which side sends
  \* Outbound
  queue, queuedCharge, next, ended, closeSent,
  net,         \* frames the carrier has; it may deliver each at any time, and again
  \* Receiver
  streams,     \* registered streams
  expected, pending, gapSince, opening, terminal,   \* StreamState, by stream
  bufferedFrames, bufferedCharge, retainedCharge,
  failed,      \* why the receiver failed, None while it has not
  now,
  \* history
  applied,     \* applied[s]: frames whose callback succeeded
  ticket,      \* ticket[s][q]: what the reports said of frame q of s
  strayed      \* whether a stray frame was submitted

outVars == <<queue, queuedCharge, next, ended, closeSent>>
streamVars == <<expected, pending, gapSince, opening, terminal>>
chargeVars == <<bufferedFrames, bufferedCharge, retainedCharge>>
historyVars == <<applied, ticket, strayed>>
recvVars == <<streams, streamVars, chargeVars, failed, applied, ticket>>
vars == <<direction, outVars, net, streams, streamVars, chargeVars, failed, now, historyVars>>

EmptyMap == [q \in {} |-> None]

Init ==
  /\ direction \in Direction
  /\ queue = <<>> /\ queuedCharge = 0
  /\ next = [s \in Stream |-> 1] /\ ended = {} /\ closeSent = {}
  /\ net = {} /\ streams = {}
  /\ expected = [s \in Stream |-> 1] /\ pending = [s \in Stream |-> EmptyMap]
  /\ gapSince = [s \in Stream |-> None]
  /\ opening = [s \in Stream |-> None] /\ terminal = [s \in Stream |-> None]
  /\ bufferedFrames = 0 /\ bufferedCharge = 0 /\ retainedCharge = 0
  /\ failed = None /\ now = 0
  /\ applied = [s \in Stream |-> <<>>]
  /\ ticket = [s \in Stream |-> [q \in 1..MaxSeq |-> "none"]]
  /\ strayed = FALSE

-----------------------------------------------------------------------------
(* Outbound *)

\* Streams that were ever numbered: the keys of next.
Numbered == {s \in Stream : next[s] > 1}

\* Mutant: frames are numbered after the stream's end.
MayEnqueueAfterEnd(s, k) ==
  /\ s \in closeSent => k \in {"Window", "Flushed", "Cancel", "Failed"}
  /\ s \notin Numbered =>
       /\ Cardinality(Numbered) < MaxLifetime
       /\ Cardinality(Numbered) - Cardinality(ended) < MaxActive
       /\ k \in FirstKind(direction)
  /\ next[s] <= MaxSeq

MayEnqueue(s, k) ==
  /\ s \notin ended
  /\ s \in closeSent => k \in {"Window", "Flushed", "Cancel", "Failed"}
  /\ s \notin Numbered =>
       /\ Cardinality(Numbered) < MaxLifetime
       /\ Cardinality(Numbered) - Cardinality(ended) < MaxActive
       /\ k \in FirstKind(direction)
  /\ next[s] <= MaxSeq

\* Frames other than Data may use the control reserve.
HasRoom(k) ==
  /\ Len(queue) < MaxQueued + (IF k = "Data" THEN 0 ELSE ControlFrames)
  /\ queuedCharge + ChargeOf[k] <= QueuedBytes - (IF k = "Data" THEN ControlBytes ELSE 0)

Sent == MapThenSumSet(LAMBDA s : next[s] - 1, Stream)

Enqueue(s, k) ==
  /\ MayEnqueue(s, k) /\ HasRoom(k)
  /\ Sent < MaxSent
  /\ queue' = Append(queue, [stream |-> s, seq |-> next[s], kind |-> k, body |-> "sent"])
  /\ queuedCharge' = queuedCharge + ChargeOf[k]
  /\ next' = [next EXCEPT ![s] = @ + 1]
  /\ closeSent' = IF k = "Close" THEN closeSent \cup {s} ELSE closeSent
  /\ ended' = IF k \in SenderFinal THEN ended \cup {s} ELSE ended
  /\ UNCHANGED <<direction, net, recvVars, now, strayed>>

\* Outbound::pop, and the host hands the frame to its carrier.
Pop ==
  /\ queue # <<>>
  /\ queue' = Tail(queue) /\ queuedCharge' = queuedCharge - Cost(Head(queue))
  /\ net' = net \cup {Head(queue)}
  /\ UNCHANGED <<direction, next, ended, closeSent, recvVars, now, strayed>>

-----------------------------------------------------------------------------
(* Receiver: registration, the gap deadline, and the budget *)

Records(n) == n * RecordCharge

Register(s) ==
  /\ failed = None /\ s \notin streams
  /\ Cardinality(streams) < MaxLifetime
  /\ Cardinality({t \in streams : terminal[t] = None}) < MaxActive
  /\ Records(Cardinality(streams) + 1) + retainedCharge + bufferedCharge + WorstFrame <= Available
  /\ streams' = streams \cup {s}
  /\ UNCHANGED <<direction, outVars, net, streamVars, chargeVars, failed, now, historyVars>>

Overdue == \E s \in streams : gapSince[s] # None /\ now >= gapSince[s] + GapTimeout

\* Receiver::advance, by itself or at the start of submit and retry.
Advance ==
  /\ failed = None /\ Overdue
  /\ failed' = "GapTimeout"
  /\ UNCHANGED <<direction, outVars, net, streams, streamVars, chargeVars, now, historyVars>>

Tick ==
  /\ now < MaxTime /\ now' = now + 1
  /\ UNCHANGED <<direction, outVars, net, recvVars, strayed>>

\* check_retain
CanRetain(charge, releasing) ==
  Records(Cardinality(streams)) + retainedCharge + (bufferedCharge - releasing) + charge
    <= Available

Early(s) == {q \in DOMAIN pending[s] : q > expected[s]}

\* Mutant: an early frame may take the last slot.
CanBufferEarlyFull(m) ==
  /\ Cardinality(Early(m.stream)) < MaxReorderStream
  /\ bufferedFrames < MaxReorderBinding
  /\ bufferedCharge + retainedCharge + Records(Cardinality(streams)) + Cost(m) + WorstFrame
       <= Available
  /\ bufferedFrames + 1 <= FrameSlots

\* The tests of Receiver::buffer, for a frame that is out of order and for one
\* whose callback blocked.
CanBufferEarly(m) ==
  /\ Cardinality(Early(m.stream)) < MaxReorderStream
  /\ bufferedFrames < MaxReorderBinding
  /\ bufferedCharge + retainedCharge + Records(Cardinality(streams)) + Cost(m) + WorstFrame
       <= Available
  /\ bufferedFrames + 2 <= FrameSlots
CanBufferBlocked(m) ==
  /\ bufferedCharge + retainedCharge + Records(Cardinality(streams)) + Cost(m) <= Available
  /\ bufferedFrames + 1 <= FrameSlots

\* The effects of Receiver::buffer; the report says Buffered.
Buffer(m) ==
  LET s == m.stream IN
  /\ bufferedFrames' = bufferedFrames + 1 /\ bufferedCharge' = bufferedCharge + Cost(m)
  /\ gapSince' = [gapSince EXCEPT ![s] = IF @ = None THEN now ELSE @]
  /\ pending' = [pending EXCEPT ![s] =
                   [q \in DOMAIN @ \cup {m.seq} |-> IF q = m.seq THEN m ELSE @[q]]]
  /\ ticket' = [ticket EXCEPT ![s][m.seq] = "Buffered"]
  /\ UNCHANGED <<streams, expected, opening, terminal, retainedCharge, failed, applied>>

-----------------------------------------------------------------------------
(* Receiver::submit_inner, the frames it refuses *)

\* The receiver looks at m only after advance, and only on a known stream.
Reaches(m) == failed = None /\ ~Overdue /\ m.stream \in streams

ConflictsAfterEnd(m) ==
  LET s == m.stream IN
  /\ terminal[s] # None
  /\ \/ m.seq = 1 /\ opening[s] # None /\ opening[s] # m
     \/ m.seq > terminal[s].seq
     \/ m.seq = terminal[s].seq /\ m # terminal[s]

ConflictsBefore(m) ==
  LET s == m.stream IN
  /\ terminal[s] = None
  /\ IF m.seq < expected[s] THEN m.seq = 1 /\ opening[s] # m
     ELSE m.seq \in DOMAIN pending[s] /\ pending[s][m.seq] # m

\* Mutant: the end of the stream is not looked at.
FreshAfterEnd(m) ==
  LET s == m.stream IN m.seq >= expected[s] /\ m.seq \notin DOMAIN pending[s]

\* Not resolved and not held yet.
Fresh(m) ==
  LET s == m.stream IN
  terminal[s] = None /\ m.seq >= expected[s] /\ m.seq \notin DOMAIN pending[s]

Misplaced(m) == Fresh(m) /\ m.seq = 1 /\ m.kind \notin FirstKind(direction)

\* An abortive frame that need not wait for the ones before it.
Jumps(m) ==
  /\ Fresh(m) /\ m.seq > expected[m.stream] /\ m.kind \in Abortive
  /\ opening[m.stream] # None \/ (direction = "Initiator" /\ m.kind = "Cancel")

JumpsWrongly(m) ==
  /\ Jumps(m)
  /\ \E q \in DOMAIN pending[m.stream] :
       (q < m.seq /\ pending[m.stream][q].kind \in SenderFinal) \/ q > m.seq

EndsEarly(m) ==
  /\ Fresh(m) /\ m.seq = expected[m.stream]
  /\ m.kind \in SenderFinal /\ DOMAIN pending[m.stream] # {}

Refused(m) ==
  \/ ConflictsAfterEnd(m) \/ ConflictsBefore(m)
  \/ Misplaced(m) \/ JumpsWrongly(m) \/ EndsEarly(m)

Fail(cause) ==
  /\ failed' = cause
  /\ UNCHANGED <<streams, streamVars, chargeVars, applied, ticket>>

-----------------------------------------------------------------------------
(* Receiver::submit_inner, the frames it takes *)

PendingCost(s, Q) == MapThenSumSet(LAMBDA q : Cost(pending[s][q]), Q)

\* Mutant: the gap clock is never stopped.
GapAfterNever(s, left) == gapSince

\* The gap clock stops when no frame is left.
GapAfter(s, left) == [gapSince EXCEPT ![s] = IF left = {} THEN None ELSE @]

\* Mutant: every frame before the terminal counts as superseded.
TellSupersededAll(m) ==
  LET s == m.stream IN
  /\ terminal[s] # None /\ m.seq < terminal[s].seq
  /\ ticket' = [ticket EXCEPT ![s][m.seq] = "Superseded"]
  /\ UNCHANGED <<streams, streamVars, chargeVars, failed, applied>>

\* A frame behind a jump, told so when it comes late.
TellSuperseded(m) ==
  LET s == m.stream IN
  /\ terminal[s] # None /\ expected[s] <= m.seq /\ m.seq < terminal[s].seq
  /\ ticket' = [ticket EXCEPT ![s][m.seq] = "Superseded"]
  /\ UNCHANGED <<streams, streamVars, chargeVars, failed, applied>>

MayJump(m) ==
  Jumps(m) /\ CanRetain(Cost(m), PendingCost(m.stream, DOMAIN pending[m.stream]))

Jump(m) ==
  LET s == m.stream  held == DOMAIN pending[s] IN
  /\ MayJump(m)
  /\ pending' = [pending EXCEPT ![s] = EmptyMap]
  /\ bufferedFrames' = bufferedFrames - Cardinality(held)
  /\ bufferedCharge' = bufferedCharge - PendingCost(s, held)
  /\ terminal' = [terminal EXCEPT ![s] = m]
  /\ retainedCharge' = retainedCharge + Cost(m)
  /\ gapSince' = GapAfter(s, {})
  /\ applied' = [applied EXCEPT ![s] = Append(@, m)]
  /\ ticket' = [ticket EXCEPT ![s] = [q \in 1..MaxSeq |->
                  IF q = m.seq THEN "Applied" ELSE IF q \in held THEN "Superseded" ELSE @[q]]]
  /\ UNCHANGED <<streams, expected, opening, failed>>

BufferEarly(m) ==
  /\ Fresh(m) /\ m.seq > expected[m.stream] /\ ~Jumps(m)
  /\ CanBufferEarly(m) /\ Buffer(m)

\* The expected frame, which goes to the callback.
InTurn(m) ==
  /\ Fresh(m) /\ m.seq = expected[m.stream]
  /\ m.seq = 1 \/ m.kind \in SenderFinal => CanRetain(Cost(m), 0)

BufferBlocked(m) == InTurn(m) /\ CanBufferBlocked(m) /\ Buffer(m)

\* Mutant: a terminal is kept without a charge.
KeptCostOpening(m) == IF m.seq = 1 /\ m.kind \notin SenderFinal THEN Cost(m) ELSE 0

\* mark_applied keeps an opening, and a final frame that is not the first one.
KeptCost(m) ==
  IF (m.seq = 1) # (m.kind \in SenderFinal) THEN Cost(m) ELSE 0

BatchCost(batch) == MapThenSumSet(LAMBDA i : KeptCost(batch[i]), DOMAIN batch)

\* The callback took the frames of batch, which follow each other from
\* expected[s]; mark_applied for each.
MarkApplied(s, batch) ==
  LET n == Len(batch) IN
  /\ expected' = [expected EXCEPT ![s] = @ + n]
  /\ opening' = [opening EXCEPT ![s] =
       IF n > 0 /\ batch[1].seq = 1 /\ batch[1].kind \notin SenderFinal THEN batch[1] ELSE @]
  /\ terminal' = [terminal EXCEPT ![s] =
       IF n > 0 /\ batch[n].kind \in SenderFinal THEN batch[n] ELSE @]
  /\ retainedCharge' = retainedCharge + BatchCost(batch)
  /\ applied' = [applied EXCEPT ![s] = @ \o batch]

\* Mutant: a final frame may be applied before frames that are held.
PrematureNever(s, q) == FALSE

\* The frame q is final and is not the last one held.
Premature(s, q) ==
  pending[s][q].kind \in SenderFinal /\ \E r \in DOMAIN pending[s] : r > q

Keep(s, Q) == pending' = [pending EXCEPT ![s] = [q \in Q |-> @[q]]]

\* drain_pending after the frames of direct: the callback takes k held frames
\* and the loop stops because the next one is missing or blocks, or is final
\* too soon, or is rejected.
DrainTo(s, direct, k) ==
  LET e == expected[s] + Len(direct)
      held == DOMAIN pending[s]
      run == e..(e + k - 1)
      batch == direct \o [i \in 1..k |-> pending[s][e + i - 1]]
  IN /\ \A q \in run : q \in held /\ ~Premature(s, q)
     /\ MarkApplied(s, batch)
     /\ bufferedFrames' = bufferedFrames - k
     /\ bufferedCharge' = bufferedCharge - PendingCost(s, run)
     /\ \/ /\ e + k \in held => ~Premature(s, e + k)
           /\ Keep(s, held \ run) /\ failed' = failed
           /\ gapSince' = GapAfter(s, held \ run)
           /\ ticket' = [ticket EXCEPT ![s] = [q \in 1..MaxSeq |->
                  IF \E i \in DOMAIN batch : batch[i].seq = q THEN "Applied" ELSE @[q]]]
        \/ /\ e + k \in held /\ Premature(s, e + k)
           /\ Keep(s, held \ run) /\ failed' = "Protocol"
           /\ UNCHANGED <<gapSince, ticket>>
        \/ /\ e + k \in held /\ ~Premature(s, e + k)
           /\ Keep(s, (held \ run) \ {e + k}) /\ failed' = "ApplyRejected"
           /\ UNCHANGED <<gapSince, ticket>>
     /\ UNCHANGED streams

Drain(s, direct) == \E k \in 0..Cardinality(DOMAIN pending[s]) : DrainTo(s, direct, k)

\* The submissions that have an effect; the others answer AlreadyResolved,
\* Buffered, Superseded again, or WouldBlock.
Effect(m) ==
  IF Refused(m) THEN Fail("Protocol")
  ELSE \/ TellSuperseded(m)
       \/ Jump(m)
       \/ BufferEarly(m)
       \/ BufferBlocked(m)
       \/ InTurn(m) /\ Drain(m.stream, <<m>>)
       \/ (InTurn(m) \/ MayJump(m)) /\ Fail("ApplyRejected")

Submit(m) ==
  /\ Reaches(m) /\ Effect(m)
  /\ strayed' = (strayed \/ m \notin net)
  /\ UNCHANGED <<direction, outVars, net, now>>

\* Receiver::retry
Retry(s) ==
  /\ failed = None /\ ~Overdue /\ s \in streams
  /\ Drain(s, <<>>)
  /\ UNCHANGED <<direction, outVars, net, now, strayed>>

Next ==
  \/ \E s \in Stream : \E k \in Sends[direction] : Enqueue(s, k)
  \/ Pop
  \/ \E s \in Stream : Register(s)
  \/ Advance \/ Tick
  \/ \E m \in net \cup Stray : Submit(m)
  \/ \E s \in Stream : Retry(s)

Spec == Init /\ [][Next]_vars

-----------------------------------------------------------------------------
(* Properties. *)

Order == INSTANCE SequencedOrder WITH Final <- SenderFinal

\* Receiver::submit and retry apply each stream's frames in order, each once,
\* none after its end, whatever is submitted (sequenced.rs, submit_inner and
\* drain_pending): the receiver implements the abstract order.
AppliedInOrder == Order!Spec

\* The counters of the receiver are the sums over its tables: every frame that
\* is buffered is released exactly once, by application or by a jump, and every
\* kept opening and terminal is charged (buffer, uncharge, mark_applied).  A
\* final first frame is kept and not charged.
BuffersExact ==
  failed = None =>
    /\ bufferedFrames = MapThenSumSet(LAMBDA s : Cardinality(DOMAIN pending[s]), Stream)
    /\ bufferedCharge = MapThenSumSet(LAMBDA s : PendingCost(s, DOMAIN pending[s]), Stream)
    /\ retainedCharge = MapThenSumSet(LAMBDA s :
          (IF opening[s] = None THEN 0 ELSE Cost(opening[s]))
            + (IF terminal[s] = None THEN 0 ELSE IF terminal[s].seq = 1 THEN 0 ELSE Cost(terminal[s])),
          Stream)

\* Records, kept frames and buffered frames together stay within the bytes that
\* remain beside the control reserve, over all streams (register, check_retain
\* and buffer each test only their own addition).  Frames that came early never
\* take the last frame slot: it is free unless a frame whose turn it is waits for
\* its callback (buffer, out_of_order).
WithinBudget ==
  failed = None =>
    /\ Records(Cardinality(streams)) + retainedCharge + bufferedCharge <= Available
    /\ bufferedFrames <= FrameSlots
    /\ \A s \in streams : Cardinality(Early(s)) <= MaxReorderStream
    /\ bufferedFrames >= FrameSlots => \E s \in streams : expected[s] \in DOMAIN pending[s]

\* The reports account for every frame the receiver took: the frames it said it
\* buffered are the ones it holds, the ones it said it applied were applied, and
\* a superseded one lies behind a jump (Report::resolved).
TicketsTrue ==
  failed = None => \A s \in Stream : \A q \in 1..MaxSeq :
    /\ ticket[s][q] = "Buffered" <=> q \in DOMAIN pending[s]
    /\ ticket[s][q] = "Applied" <=> \E i \in DOMAIN applied[s] : applied[s][i].seq = q
    /\ ticket[s][q] = "Superseded" =>
         terminal[s] # None /\ expected[s] <= q /\ q < terminal[s].seq

\* A frame reported applied or superseded keeps that answer.
TicketsFinal ==
  [][\A s \in Stream : \A q \in 1..MaxSeq :
       ticket[s][q] \in {"Applied", "Superseded"} => ticket'[s][q] = ticket[s][q]]_vars

\* The gap clock of a stream runs exactly while frames of it are held: no held
\* frame is without a deadline, and no stream fails the session for frames that
\* were resolved (buffer, drain_pending, submit_inner).
GapClocked ==
  failed = None => \A s \in Stream : gapSince[s] # None <=> DOMAIN pending[s] # {}

\* Frames that an Outbound numbered never look like a protocol error, in whatever
\* order and however often they come.
HonestNeverRefused == ~strayed => failed # "Protocol"
=============================================================================
