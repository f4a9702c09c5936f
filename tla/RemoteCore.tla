------------------------------ MODULE RemoteCore ------------------------------
(***************************************************************************)
(* The core's half of a carrier-backed host                                *)
(* (src/crates/gwz-connection/src/remote/core.rs, backend.rs, stream.rs):  *)
(* the admission queue and the slots, one binding per operation with its   *)
(* mux, its exchanges and their streams, the outbox and the waiters.       *)
(*                                                                         *)
(* The operators map the state c behind the handle's mutex and its end l   *)
(* of the carrier's lane to the ones after a step; `Pump` is what every    *)
(* call does before and after its own change.  The mux is MuxMachine's and *)
(* a stream is StreamMachine's (S).  A call's name is its admission's id,  *)
(* for `requests` keeps it from being queued twice.                        *)
(***************************************************************************)
EXTENDS MuxMachine

CONSTANTS
  ActiveLimit,    \* RemoteConfig::active_operations
  WaitingLimit,   \* RemoteConfig::waiting_admissions
  OutboxRoom,     \* OUTBOX_ROOM, of both ends
  PerPass,        \* PER_PASS
  LaneRoom,       \* messages a direction of the lane holds
  DataWindow,     \* receive_window, in units of data
  CloseTicks,     \* close_timeout_ms
  Offer           \* the body of the core's Bind

\* stream_config: no batching, and both windows are the negotiated one.
S == INSTANCE StreamMachine WITH
  SendBuffer <- [side \in {"Initiator", "Endpoint"} |-> DataWindow],
  ReceiveWindow <- [side \in {"Initiator", "Endpoint"} |-> DataWindow],
  MaxPayload <- DataWindow, CoalesceDelay <- 0, CloseTimeout <- CloseTicks,
  IoTimeout <- 0, InteractionBudget <- 0, MaxOffset <- 1000

\* The body of a stream's message; a failure has its effect beside it.
Said(msg, effect) == [msg |-> msg, effect |-> effect]
Failure(code, effect) == Said(S!Failed(code), effect)

Wire(session, item) == [session |-> session, item |-> item]

\* A queue cut at what there is room for.
FirstOf(queue, room) == SubSeq(queue, 1, IF Len(queue) < room THEN Len(queue) ELSE room)
RestOf(queue, room) == SubSeq(queue, (IF Len(queue) < room THEN Len(queue) ELSE room) + 1, Len(queue))

-----------------------------------------------------------------------------
(* Exchanges. *)

\* Exch::new.  `peer` is the failure the client reported, for the stream's own
\* PeerFailed, `written` the units the caller wrote; `machine` of an ended exchange
\* is read no more and is dropped.
NewExch(spec) ==
  [spec |-> spec, stage |-> "Queued", stream |-> None, machine |-> None, peer |-> None,
   openSent |-> FALSE, written |-> 0, outcome |-> None, end |-> None, dropped |-> FALSE,
   cancelOnOpen |-> FALSE]

\* Mutant: an Open that was sent does not count.
EffectOnLossNone(e) == "None"

EffectOnLoss(e) ==
  IF e.spec.service = "ReceivePackExchange" /\ e.openSent THEN "Possible" ELSE "None"

EndExch(e, code, effect) ==
  [e EXCEPT !.stage = "Ended", !.machine = None, !.peer = None,
            !.end = [code |-> code, effect |-> effect]]

Decide(e, outcome) == IF e.cancelOnOpen THEN e ELSE [e EXCEPT !.outcome = outcome]

\* One exchange of abort_all.
AbortExch(e, code, revoked) ==
  IF e.stage = "Ended" THEN e
  ELSE [EndExch(e, code, EffectOnLoss(e)) EXCEPT !.outcome =
          IF @ # None /\ ~e.cancelOnOpen THEN @
          ELSE IF revoked THEN "CarrierLost"
          ELSE IF code = "Cancelled" THEN "Cancelled" ELSE "Fault"]

-----------------------------------------------------------------------------
(* Bindings. *)

\* RemotePermit::register: the mux has its request and the Bind is queued.
NewBinding(r) ==
  [request |-> r, mux |-> Begin(Register(NewMux(None, Offer.limits), r, r), r, Offer),
   reg |-> "Pending", exch |-> <<>>, opened |-> 0, live |-> 0, sealed |-> FALSE,
   cancelled |-> FALSE, faulted |-> None, revoked |-> FALSE, purged |-> FALSE]

\* `faulted` is the code of the first end, the flag of the code and its cause.
AbortAll(b, code, revoked) ==
  [b EXCEPT !.faulted = IF @ = None THEN code ELSE @,
            !.reg = IF @ # "Pending" THEN @ ELSE IF revoked THEN "CarrierLost" ELSE code,
            !.exch = [t \in DOMAIN @ |-> AbortExch(@[t], code, revoked)],
            !.mux = Disconnect(@)]

Revoke(b) ==
  AbortAll([b EXCEPT !.revoked = @ \/ b.reg = "Registered"], "CarrierLost", TRUE)

\* Binding::receive: a message the mux refuses, also for want of room, faults
\* the binding.
ReceiveCore(b, item) ==
  IF b.faulted # None \/ ~Live(b.mux) THEN b
  ELSE IF Faulty(b.mux, item) \/ Blocked(b.mux, item) THEN AbortAll(b, "Protocol", FALSE)
  ELSE [b EXCEPT !.mux = Receive(@, item)]

CancelExch(e) ==
  CASE e.stage = "Queued" ->
         EndExch([e EXCEPT !.outcome = "Cancelled"], "Cancelled", "None")
    [] e.stage = "Opening" -> [e EXCEPT !.cancelOnOpen = TRUE, !.outcome = "Cancelled"]
    [] e.stage \in {"Open", "Closing"} -> [e EXCEPT !.machine = S!CancelStream(@)]
    [] e.stage = "Ended" -> e

CancelAll(b) ==
  IF b.cancelled THEN b
  ELSE IF b.reg = "Pending"
  THEN AbortAll([b EXCEPT !.cancelled = TRUE, !.reg = "Cancelled"], "Cancelled", FALSE)
  ELSE [b EXCEPT !.cancelled = TRUE, !.exch = [t \in DOMAIN @ |-> CancelExch(@[t])]]

\* queue_exchange, with the handle that `open` counts.
QueueExchange(b, spec) ==
  LET code == IF b.revoked THEN "CarrierLost" ELSE "Protocol"
      late == EndExch([NewExch(spec) EXCEPT !.outcome = IF b.revoked THEN "CarrierLost" ELSE "Fault"],
                      code, "None")
  IN  [b EXCEPT !.opened = @ + 1, !.live = @ + 1,
                !.exch = Put(@, b.opened + 1, IF b.faulted # None THEN late ELSE NewExch(spec))]

-----------------------------------------------------------------------------
(* One pass of a binding. *)

\* by_stream: the exchange of a stream that has not ended.
TokenOf(b, id) == {t \in DOMAIN b.exch : b.exch[t].stream = id /\ b.exch[t].stage # "Ended"}

Collected(b, room) == FirstOf(b.mux.outbound, room)

\* collect: this mux cancels no request, so next_message takes its queue's head.
Collect(b, room) ==
  LET left == {Collected(b, room)[i].id :
                 i \in {j \in DOMAIN Collected(b, room) : Collected(b, room)[j].kind = "Open"}}
  IN  [b EXCEPT !.mux.outbound = RestOf(@, room),
                !.exch = [t \in DOMAIN @ |->
                   IF @[t].stream \in left /\ @[t].stage # "Ended"
                   THEN [@[t] EXCEPT !.openSent = TRUE] ELSE @[t]]]

OpenBody(b, spec) ==
  [endpoint |-> b.mux.binding.endpoint, scheme |-> spec.scheme, policy |-> spec.policy,
   limits |-> b.mux.binding.limits, operation |-> b.request, spec |-> spec]

\* mux.open answers Capacity or WouldBlock: the exchange waits.
MuxFull(b) == Cardinality(DOMAIN b.mux.routes) >= MaxStreams \/ ~CanSend(b.mux, "Open")

IssueOpen(b, t) ==
  LET body == OpenBody(b, b.exch[t].spec)
      issued == Start(b.mux, b.request, "Open", body)
  IN  IF MayStart(b.mux, b.request, "Open", body)
      THEN [b EXCEPT !.mux = issued, !.exch[t].stage = "Opening", !.exch[t].stream = issued.highest]
      ELSE [b EXCEPT !.exch[t] = EndExch([@ EXCEPT !.outcome = "Fault"], "InvalidRequest", "None")]

RECURSIVE IssueOpens(_, _)
IssueOpens(b, t) ==
  IF t > b.opened THEN b
  ELSE IF t \notin DOMAIN b.exch THEN IssueOpens(b, t + 1)
  ELSE IF b.exch[t].stage # "Queued" THEN IssueOpens(b, t + 1)
  ELSE IF MuxFull(b) THEN b ELSE IssueOpens(IssueOpen(b, t), t + 1)

Started(e) ==
  LET new == S!New("Initiator")
  IN  Decide([e EXCEPT !.stage = "Open",
                       !.machine = IF e.dropped \/ e.cancelOnOpen
                                   THEN S!CancelStream(new) ELSE new], "Ok")

\* The stream's machine takes a message; its first failure is the peer's.
Heard(e, item) ==
  [e EXCEPT !.machine = S!Receive(@, item.body.msg),
            !.peer = IF item.kind = "Failed" /\ S!Live(e.machine)
                     THEN [code |-> item.body.msg.code, effect |-> item.body.effect] ELSE @]

ApplyAction(e, item) ==
  CASE item.kind = "Opened" -> Started(e)
    [] item.kind = "OpenFailed" ->
         Decide(EndExch(e, item.body.msg.code, item.body.effect), "Refused")
    [] item.kind \notin {"Opened", "OpenFailed"} ->
         IF e.machine = None THEN e ELSE Heard(e, item)

RECURSIVE DrainActions(_)
DrainActions(b) ==
  IF b.mux.actions = <<>> THEN b
  ELSE LET item == Head(b.mux.actions)
           taken == [b EXCEPT !.mux = NextAction(@)]
           owner == TokenOf(b, item.id)
       IN  DrainActions([taken EXCEPT !.exch = [t \in DOMAIN @ |->
              IF t \in owner THEN ApplyAction(@[t], item) ELSE @[t]]])

Running(e) == e.stage \in {"Open", "Closing"}

\* One machine of run_machines: its messages go to the mux while the pass lasts;
\* one the mux refuses ends the exchange.
RECURSIVE RunMachine(_, _, _)
Moving(b, t, moved, next) ==
  LET item == Item(b.request, b.exch[t].stream, next.msg.kind, Said(next.msg, "Possible"))
  IN  IF next.msg = None THEN [b |-> b, moved |-> moved, quiet |-> TRUE]
      ELSE IF MaySend(b.mux, item)
      THEN RunMachine([b EXCEPT !.exch[t].machine = next.m, !.mux = Send(@, item)], t, moved + 1)
      ELSE [b |-> [b EXCEPT !.exch[t] = EndExch(@, "Protocol", EffectOnLoss(@))],
            moved |-> moved + 1, quiet |-> FALSE]

RunMachine(b, t, moved) ==
  IF moved = PerPass THEN [b |-> b, moved |-> moved, quiet |-> FALSE]
  ELSE Moving(b, t, moved, S!Outgoing(b.exch[t].machine))

\* settle, of an exchange whose machine had nothing more to send.
SettleExch(e) ==
  LET m == e.machine
  IN  IF m.error = "PeerFailed" THEN EndExch(e, e.peer.code, e.peer.effect)
      ELSE IF m.error \in {"CarrierLost", "Cancelled", "Timeout"}
      THEN EndExch(e, m.error, EffectOnLoss(e))
      ELSE IF m.error # None THEN EndExch(e, "Protocol", EffectOnLoss(e))
      ELSE IF m.completed # None THEN EndExch(e, "Closed", "None") ELSE e

SettleAfter(ran, t) == IF ran.quiet THEN [ran EXCEPT !.b.exch[t] = SettleExch(@)] ELSE ran

RunsAt(b, t) == t \in DOMAIN b.exch /\ Running(b.exch[t])

\* run_machines, from exchange t on: so far the pass has `ran`.
RECURSIVE RunMachines(_, _, _)
RunMachines(ran, t, now) ==
  IF t > ran.b.opened THEN ran.b
  ELSE RunMachines(
         IF RunsAt(ran.b, t)
         THEN SettleAfter(RunMachine([ran.b EXCEPT !.exch[t].machine = S!Advance(@, now)],
                                     t, ran.moved), t)
         ELSE ran, t + 1, now)

\* The end of settle.
Reclaim(b) ==
  [b EXCEPT !.exch = Without(@, {t \in DOMAIN @ : @[t].dropped /\ @[t].stage = "Ended"})]

Overdue(m) == m.phase = "Binding" /\ m.bootstrap = 0

\* The mux closed: it was rejected, or its bootstrap bound passed.
MuxEnded(b) ==
  LET code == IF b.mux.rejection = None THEN "Timeout" ELSE b.mux.rejection
  IN  AbortAll([b EXCEPT !.reg = IF @ = "Pending" THEN code ELSE @], code, FALSE)

Lapse(b) == IF Overdue(b.mux) THEN [b EXCEPT !.mux = Disconnect(@)] ELSE b

Confirm(b) ==
  [b EXCEPT !.reg = IF @ = "Pending" /\ b.mux.phase = "Ready" THEN "Registered" ELSE @]

IssueAll(b) == IF b.reg = "Registered" THEN IssueOpens(b, 1) ELSE b

Gather(pass, room) ==
  [b |-> Collect(pass.b, room), sent |-> pass.sent \o Collected(pass.b, room)]

Run(pass, room, now) ==
  IF room = 0 THEN pass
  ELSE [pass EXCEPT !.b = RunMachines([b |-> @, moved |-> 0, quiet |-> FALSE], 1, now)]

Unsent(b) == [b |-> b, sent |-> <<>>]

\* drive: the binding after its pass and what it put in the outbox.  The room
\* was read once and bounds each of the two collections.
DriveLive(b, room, now) ==
  IF ~Live(b.mux) THEN Unsent(MuxEnded(b))
  ELSE [Gather(Run(Gather(Unsent(DrainActions(IssueAll(Confirm(b)))), room), room, now), room)
          EXCEPT !.b = Reclaim(@)]

Drive(b, room, now) ==
  IF b.faulted # None THEN Unsent(b) ELSE DriveLive(Lapse(b), room, now)

-----------------------------------------------------------------------------
(* The handle's state. *)

NewCore ==
  [lost |-> FALSE, queue |-> <<>>, asleep |-> {}, active |-> 0, claims |-> {},
   requests |-> {}, serial |-> 0, bindings |-> <<>>, last |-> <<>>, outbox |-> <<>>,
   waiters |-> {}, now |-> 0]

Lose(c) ==
  IF c.lost THEN c
  ELSE [c EXCEPT !.lost = TRUE, !.outbox = <<>>,
                 !.bindings = [s \in DOMAIN @ |-> Revoke(@[s])]]

\* route_in, of every message the lane has: one for no binding is discarded.
RECURSIVE RouteIn(_, _)
RouteIn(c, inn) ==
  IF inn = <<>> THEN c
  ELSE LET s == Head(inn).session
       IN  RouteIn(IF s \in DOMAIN c.bindings
                   THEN [c EXCEPT !.bindings[s] = ReceiveCore(@, Head(inn).item)] ELSE c,
                   Tail(inn))

LaneFaults(c, l) ==
  [c EXCEPT !.bindings = [s \in DOMAIN @ |->
     IF @[s].faulted = None /\ s \in l.faulted THEN AbortAll(@[s], "Protocol", FALSE) ELSE @[s]]]

\* What an outbox still takes.
RoomOf(outbox) == IF Len(outbox) < OutboxRoom THEN OutboxRoom - Len(outbox) ELSE 0
Wired(s, sent) == [i \in DOMAIN sent |-> Wire(s, sent[i])]

Post(c, s, pass) == [c EXCEPT !.bindings[s] = pass.b, !.outbox = @ \o Wired(s, pass.sent)]

RECURSIVE DriveAll(_, _)
DriveAll(c, s) ==
  IF s > c.serial THEN c
  ELSE DriveAll(IF s \in DOMAIN c.bindings
                THEN Post(c, s, Drive(c.bindings[s], RoomOf(c.outbox), c.now)) ELSE c, s + 1)

\* purge_ended.
PurgeEnded(c) ==
  LET over == {s \in DOMAIN c.bindings :
                 c.bindings[s].faulted # None /\ ~c.bindings[s].purged}
  IN  [c EXCEPT !.bindings = [s \in DOMAIN @ |->
                   IF s \in over THEN [@[s] EXCEPT !.purged = TRUE] ELSE @[s]],
                !.outbox = SelectSeq(@, LAMBDA message : message.session \notin over)]

\* flush, of what purge_ended left.
Flush(c, l) ==
  LET room == LaneRoom - Len(l.out)
  IN  IF l.outClosed /\ c.outbox # <<>> THEN [c |-> Lose(c), l |-> l]
      ELSE [c |-> [c EXCEPT !.outbox = RestOf(@, room)],
            l |-> [l EXCEPT !.out = @ \o FirstOf(c.outbox, room)]]

\* work: what the lane had is routed, then the bindings run.
WorkOn(routed, l) ==
  IF l.inEnded THEN [c |-> Lose(routed), l |-> l]
  ELSE Flush(PurgeEnded(DriveAll(LaneFaults(routed, l), 1)), l)

Work(p) == WorkOn(RouteIn(p.c, p.l.inn), [p.l EXCEPT !.inn = <<>>])

Finished(b) == b.sealed /\ b.live = 0 /\ \A t \in DOMAIN b.exch : b.exch[t].stage = "Ended"

\* retire_finished.
RetireFinished(c) ==
  LET over == {s \in DOMAIN c.bindings : Finished(c.bindings[s])}
  IN  [c EXCEPT !.last = [s \in DOMAIN @ \cup over |->
                            IF s \in over THEN c.bindings[s].reg ELSE @[s]],
                !.bindings = Without(@, over),
                !.requests = @ \ {c.bindings[s].request : s \in over},
                !.active = @ - Cardinality(over)]

\* pump, of the state and the lane p.
Pump(p) == [IF p.c.lost THEN p ELSE Work(p) EXCEPT !.c = RetireFinished(@)]

-----------------------------------------------------------------------------
(* Waiting. *)

Record(c, w) ==
  w.s \in DOMAIN c.bindings /\ w.t \in DOMAIN c.bindings[w.s].exch

\* State::holds: what a registered waiter waits for.
Holds(c, w) ==
  CASE w.for = "Registered" ->
         w.s \notin DOMAIN c.bindings \/ c.bindings[w.s].reg # "Pending"
    [] w.for = "Opening" -> Record(c, w) => c.bindings[w.s].exch[w.t].outcome # None
    [] w.for = "Ending" -> Record(c, w) => c.bindings[w.s].exch[w.t].end # None

\* The admissions that can be granted, or told that the carrier is lost.
Served(c) ==
  IF c.lost THEN c.asleep
  ELSE IF c.queue # <<>> /\ c.active < ActiveLimit THEN c.asleep \cap {Head(c.queue)} ELSE {}

\* Mutant: a freed slot wakes nobody.
ReadyWakersNoHead(c) ==
  [c EXCEPT !.waiters = {w \in @ : ~Holds(c, w)}, !.asleep = IF c.lost THEN {} ELSE @]

\* ready_wakers: the futures woken are the ones no longer kept.
ReadyWakers(c) ==
  [c EXCEPT !.waiters = {w \in @ : ~Holds(c, w)}, !.asleep = @ \ Served(c)]

\* Shared::with.
With(p, f(_)) == [Pump([Pump(p) EXCEPT !.c = f(@)]) EXCEPT !.c = ReadyWakers(@)]
=============================================================================
