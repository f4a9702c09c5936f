----------------------------- MODULE StreamLink -----------------------------
(***************************************************************************)
(* The two ends of one stream over an ordered carrier: an initiator and an *)
(* endpoint StreamMachine, each driven by its host and its application,    *)
(* and one bounded FIFO of messages per direction.  Every interleaving of  *)
(* the two applications, the two hosts and the carrier is a behaviour.     *)
(*                                                                         *)
(* The carrier keeps order and loses nothing while it is up (sequenced.rs  *)
(* provides that); when it goes down everything in flight is lost and both *)
(* hosts learn of it in their own time.  Backend I/O reports touch one end *)
(* only and are in StreamAnyPeer.                                          *)
(***************************************************************************)
EXTENDS StreamMachine, Sequences

CONSTANTS
  Courses,     \* what may befall an exchange, below
  Chunks,      \* the sizes of the applications' reads and writes
  QueueLimit   \* bound of the host's delivery queue

OptionalEvents == {"Cancel", "CarrierLoss", "Refusal"}

(***************************************************************************)
(* A course bounds one exchange: the bytes and the barriers each           *)
(* application may start, the instant at which the hosts' clocks stop, and *)
(* which of the optional events the environment makes.                     *)
(***************************************************************************)
ASSUME LinkAssumption ==
  /\ \A c \in Courses :
       /\ c.bytes \in [Side -> Nat] /\ c.flushes \in [Side -> Nat]
       /\ c.maxTime \in Nat
       /\ c.events \subseteq OptionalEvents
  /\ Chunks \subseteq Nat \ {0}
  /\ QueueLimit \in Nat \ {0}

VARIABLES
  course,     \* the course this exchange takes
  m,          \* m[s]: the machine of side s
  queue,      \* queue[s]: messages s has sent and its peer has not received
  up,         \* the carrier still carries
  written,    \* history: bytes s's application has written
  delivered,  \* history: bytes s's application has read
  flushed     \* history: the offset of the last barrier s saw acknowledged

vars == <<course, m, queue, up, written, delivered, flushed>>

Init ==
  /\ course \in Courses
  /\ m = [s \in Side |-> New(s)]
  /\ queue = [s \in Side |-> <<>>]
  /\ up = TRUE
  /\ written = [s \in Side |-> 0]
  /\ delivered = [s \in Side |-> 0]
  /\ flushed = [s \in Side |-> 0]

-----------------------------------------------------------------------------
(* Steps of one end. *)

\* Every step of one end goes through here.
Becomes(s, next) ==
  /\ m' = [m EXCEPT ![s] = next]
  /\ UNCHANGED course

AppWrite(s, n) ==
  /\ CanWrite(m[s])
  /\ written[s] + Accepted(m[s], n) <= course.bytes[s]
  /\ Becomes(s, Write(m[s], n))
  /\ written' = [written EXCEPT ![s] =
                   IF Live(m'[s]) THEN @ + Accepted(m[s], n) ELSE @]
  /\ UNCHANGED <<queue, up, delivered, flushed>>

AppRead(s, n) ==
  /\ m[s].recv > 0 \/ (m[s].send > 0 /\ ~m[s].force_send)
  /\ Becomes(s, Read(m[s], n))
  /\ delivered' = [delivered EXCEPT ![s] = @ + Readable(m[s], n)]
  /\ UNCHANGED <<queue, up, written, flushed>>

AppFlush(s) ==
  /\ CanStartFlush(m[s])
  /\ m[s].flush_serial < course.flushes[s]
  /\ Becomes(s, StartFlush(m[s]))
  /\ UNCHANGED <<queue, up, written, delivered, flushed>>

AppEndWrite(s) ==
  /\ CanEndWrite(m[s])
  /\ Becomes(s, RequestEnd(m[s]))
  /\ UNCHANGED <<queue, up, written, delivered, flushed>>

AppClose(s) ==
  /\ CanStartClose(m[s])
  /\ Becomes(s, StartClose(m[s]))
  /\ UNCHANGED <<queue, up, written, delivered, flushed>>

HostCompleteClose(s) ==
  /\ CanCompleteClose(m[s])
  /\ \E failed \in BOOLEAN :
       /\ failed => "Refusal" \in course.events
       /\ Becomes(s, CompleteClose(m[s], failed))
  /\ UNCHANGED <<queue, up, written, delivered, flushed>>

HostRefuse(s) ==
  /\ "Refusal" \in course.events
  /\ CanFailTerminal(m[s])
  /\ Becomes(s, FailTerminal(m[s]))
  /\ UNCHANGED <<queue, up, written, delivered, flushed>>

AppCancel(s) ==
  /\ "Cancel" \in course.events
  /\ Live(m[s])
  /\ Becomes(s, CancelStream(m[s]))
  /\ UNCHANGED <<queue, up, written, delivered, flushed>>

HostAdvance(s) ==
  /\ m[s].now < course.maxTime
  /\ Becomes(s, Advance(m[s], m[s].now + 1))
  /\ UNCHANGED <<queue, up, written, delivered, flushed>>

-----------------------------------------------------------------------------
(* Steps of the carrier. *)

Emit(s) ==
  LET out == Outgoing(m[s])
  IN  /\ up
      /\ out.msg # None
      /\ Len(queue[s]) < QueueLimit
      /\ queue' = [queue EXCEPT ![s] = Append(@, out.msg)]
      /\ Becomes(s, out.m)
      /\ UNCHANGED <<up, written, delivered, flushed>>

\* The oldest message of the peer reaches s.
Deliver(s) ==
  LET msg == Head(queue[Peer(s)])
  IN  /\ up
      /\ queue[Peer(s)] # <<>>
      /\ queue' = [queue EXCEPT ![Peer(s)] = Tail(@)]
      /\ Becomes(s, Receive(m[s], msg))
      /\ flushed' = IF m'[s].flush_acked # m[s].flush_acked
                    THEN [flushed EXCEPT ![s] = m[s].flush.offset]
                    ELSE flushed
      /\ UNCHANGED <<up, written, delivered>>

CarrierLoss ==
  /\ "CarrierLoss" \in course.events
  /\ up
  /\ up' = FALSE
  /\ queue' = [s \in Side |-> <<>>]
  /\ UNCHANGED <<course, m, written, delivered, flushed>>

HostDisconnect(s) ==
  /\ ~up
  /\ Live(m[s]) \/ m[s].terminal_message # None
  /\ Becomes(s, Disconnect(m[s]))
  /\ UNCHANGED <<queue, up, written, delivered, flushed>>

-----------------------------------------------------------------------------

App(s) ==
  \/ \E n \in Chunks : AppWrite(s, n) \/ AppRead(s, n)
  \/ AppFlush(s)
  \/ AppEndWrite(s)
  \/ AppClose(s)
  \/ AppCancel(s)

Host(s) ==
  \/ HostCompleteClose(s)
  \/ HostRefuse(s)
  \/ HostAdvance(s)
  \/ HostDisconnect(s)

Next ==
  \/ \E s \in Side : App(s) \/ Host(s) \/ Emit(s) \/ Deliver(s)
  \/ CarrierLoss

Spec == Init /\ [][Next]_vars

(***************************************************************************)
(* Fairness.  The hosts run a dispatcher that polls the machine whenever   *)
(* its revision moves, so Emit and Deliver are weakly fair, and they tell  *)
(* a machine about a lost carrier.  The applications of a working exchange *)
(* keep reading, and the endpoint host ends its own direction and reports  *)
(* the result once the initiator has asked to close.  Nothing makes an     *)
(* application write, flush, cancel or close.                              *)
(***************************************************************************)
EndpointFinishes ==
  /\ m["Endpoint"].close_received
  /\ AppEndWrite("Endpoint") \/ HostCompleteClose("Endpoint")

Fairness ==
  /\ \A s \in Side :
       /\ WF_vars(Emit(s))
       /\ WF_vars(Deliver(s))
       /\ WF_vars(HostDisconnect(s))
       /\ WF_vars(\E n \in Chunks : AppRead(s, n))
  /\ WF_vars(EndpointFinishes)

FairSpec == Spec /\ Fairness

-----------------------------------------------------------------------------
(* Properties. *)

\* Receiving what an honest peer sent is never a protocol error, in whatever
\* order the two ends write, read, flush, end and close: Error::Protocol out of
\* receive always means a broken peer.
HonestPeerNeverRejected ==
  [][\A s \in Side :
       queue'[Peer(s)] # queue[Peer(s)] /\ Live(m[s]) => m'[s].error # "Protocol"]_vars

\* A flush that completed means what flush promises: the initiator's bytes
\* reached the endpoint's sink, the endpoint's bytes the initiator's buffer.
FlushedMeansArrived ==
  /\ flushed["Initiator"] <= delivered["Endpoint"]
  /\ flushed["Endpoint"] <= m["Initiator"].received

\* A clean end of file (read returning 0) is only seen after every byte the
\* peer's application wrote: a failed or cancelled prefix never looks whole.
CleanEof ==
  \A s \in Side :
    Live(m[s]) /\ ~m[s].discarding /\ m[s].recv = 0 /\ m[s].end_received =>
      delivered[s] = written[Peer(s)]

\* A completed close is the same result at both ends: the endpoint's sink has
\* the whole request, the whole response was sent, and the initiator's result
\* says unread_response_discarded exactly when its application missed bytes.
CloseIsWhole ==
  /\ m["Endpoint"].completed # None =>
       /\ delivered["Endpoint"] = written["Initiator"]
       /\ m["Endpoint"].sent = written["Endpoint"]
  /\ m["Initiator"].completed # None =>
       /\ m["Endpoint"].completed # None
       /\ m["Initiator"].completed.discarded
            <=> delivered["Initiator"] # written["Endpoint"]

\* What the end of a stream tells its application is true: an end of file and a
\* completed close are about all the bytes (read, receive, complete_close).
EndIsWhole == CleanEof /\ CloseIsWhole

\* Neither credit nor barriers can wedge the pair: while both applications
\* keep reading, a barrier is acknowledged or its stream ends.
FlushCompletes ==
  \A s \in Side : m[s].flush # None ~> m[s].flush = None

\* Once the initiator asks to close, and the endpoint host finishes, the
\* initiator's stream reaches its outcome without the close timer.
CloseCompletes == m["Initiator"].discarding ~> ~Live(m["Initiator"])

\* The calls an application waits for, flush and close, complete.
CallsComplete == FlushCompletes /\ CloseCompletes

\* Neither end is left alone: when one end has its outcome, the other gets one,
\* whichever of result, failure, cancellation, timeout or lost carrier it was.
EndTogether ==
  \A s \in Side : ~Live(m[s]) ~> ~Live(m[Peer(s)])
=============================================================================
