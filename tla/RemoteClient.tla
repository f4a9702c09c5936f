----------------------------- MODULE RemoteClient -----------------------------
(***************************************************************************)
(* The client's half of a carrier-backed host                              *)
(* (src/crates/gwz-connection/src/remote/receiver.rs, served.rs): the      *)
(* bindings the core binds on the lane, served against the client's own    *)
(* host.                                                                   *)
(*                                                                         *)
(* The client's host is known here by what its futures answer when a pump  *)
(* polls them: `acquire` of a binding that waits for admission, and        *)
(* `owner` of an exchange: it "waits", "opens" or "refuses" while it is    *)
(* being opened; then it "blocks", "flows" (takes the request and has no   *)
(* more response), is "done" (its finish resolves) or "fails".  The        *)
(* response's bytes are left out.  An Open's spec says what the rules of   *)
(* the call and the operation answer: "serve", "refuse", "limit" or        *)
(* "ended".                                                                *)
(***************************************************************************)
EXTENDS RemoteCore

CONSTANTS
  Endpoint,     \* EndpointRoute::endpoint_config
  Invocation,   \* what `take` and `admit` say of a call
  PumpBudget    \* machine messages of a binding's pass

\* `crossed` counts the request's units that entered the owner's stream, of the
\* streams that had some, of every binding there was.
NewClient ==
  [ended |-> FALSE, served |-> <<>>, calls |-> <<>>, seen |-> {}, outbox |-> <<>>,
   crossed |-> <<>>, now |-> 0]

Crossed(k, s, id) == IF <<s, id>> \in DOMAIN k.crossed THEN k.crossed[<<s, id>>] ELSE 0

Rejected(r, code) == Item(r, 0, "BindRejected", [code |-> code])

-----------------------------------------------------------------------------
(* The end of a binding. *)

Admitting(bind) ==
  [request |-> bind.req, at |-> "Admitting", bind |-> bind, acquire |-> None, mux |-> None,
   exch |-> <<>>, crossed |-> <<>>, outq |-> <<>>, dying |-> FALSE]

EffectAfter(ex) ==
  IF ex.spec.service = "ReceivePackExchange" /\ ex.forwarded > 0 THEN "Possible" ELSE "None"

Told(v, id, code) ==
  IF v.exch[id].at = "Opening"
  THEN Item(v.request, id, "OpenFailed", Failure(code, "None"))
  ELSE Item(v.request, id, "Failed", Failure(code, EffectAfter(v.exch[id])))

\* terminate: the stream that offended is answered even if it was never opened.
Terminate(v, code, offending) ==
  LET ids == SetToSortSeq(DOMAIN v.exch, <)
      live == [i \in DOMAIN ids |-> Told(v, ids[i], code)]
      other == IF offending \in {None, 0} \cup DOMAIN v.exch THEN <<>>
               ELSE <<Item(v.request, offending, "OpenFailed", Failure(code, "None"))>>
  IN  [v EXCEPT !.outq = @ \o live \o other, !.exch = <<>>, !.dying = TRUE,
                !.mux = IF v.at = "Bound" THEN Disconnect(@) ELSE @]

\* Served::receive.
ReceiveServed(v, item) ==
  IF v.at # "Bound" THEN v
  ELSE IF ~Live(v.mux) \/ Faulty(v.mux, item) \/ Blocked(v.mux, item)
  THEN Terminate(v, "Protocol", item.id)
  ELSE [v EXCEPT !.mux = Receive(@, item)]

Gone(v) == v.at = "Dead" /\ v.outq = <<>>

-----------------------------------------------------------------------------
(* One pass of a binding. *)

\* `send`, and mux.send where its result is ignored: without room the message
\* is lost.
TrySend(m, item) == IF MaySend(m, item) THEN Send(m, item) ELSE m

OpenFailed(v, id, code) ==
  [v EXCEPT !.mux = TrySend(@, Item(v.request, id, "OpenFailed", Failure(code, "None"))),
            !.exch = Without(@, {id})]

\* The one answer of each refusal of `open`; the shape was checked by the core.
Refused(answer) ==
  CASE answer = "refuse" -> "InvalidRequest"
    [] answer = "limit" -> "Capacity"
    [] answer = "ended" -> "Cancelled"

NewEx(spec) ==
  [at |-> "Opening", spec |-> spec, owner |-> "waits", machine |-> None, exchange |-> FALSE,
   held |-> 0, forwarded |-> 0, requestDone |-> FALSE, responseDone |-> FALSE,
   finishing |-> FALSE, disposition |-> FALSE, effect |-> "Possible"]

ServeOpen(v, item) ==
  IF item.body.spec.answer = "serve"
  THEN [v EXCEPT !.exch = Put(@, item.id, NewEx(item.body.spec))]
  ELSE OpenFailed(v, item.id, Refused(item.body.spec.answer))

\* Mutant: a peer's cancel is answered by nobody.
CancelServedQuiet(v, id) == [v EXCEPT !.exch = Without(@, {id})]

\* cancel_stream.
CancelServed(v, id) ==
  IF id \notin DOMAIN v.exch THEN v
  ELSE [v EXCEPT !.mux = TrySend(@, Told(v, id, "Cancelled")), !.exch = Without(@, {id})]

ServeAction(v, item) ==
  CASE item.kind = "Open" -> ServeOpen(v, item)
    [] item.kind = "Cancel" -> CancelServed(v, item.id)
    [] item.kind \notin {"Open", "Cancel"} ->
         IF item.id \notin DOMAIN v.exch THEN v
         ELSE IF v.exch[item.id].at = "Opening" THEN v
         ELSE [v EXCEPT !.exch[item.id].machine = S!Receive(@, item.body.msg)]

RECURSIVE ServeActions(_)
ServeActions(v) ==
  IF v.mux.actions = <<>> THEN v
  ELSE ServeActions(ServeAction([v EXCEPT !.mux = NextAction(@)], Head(v.mux.actions)))

OpenedBody(v) ==
  [facts |-> [method |-> None, source |-> None, offered |-> FALSE],
   endpoint |-> v.mux.binding.endpoint, limits |-> v.mux.binding.limits, reused |-> FALSE]

\* One exchange of poll_openings.
PollOpening(v, id) ==
  IF v.exch[id].at # "Opening" \/ v.exch[id].owner = "waits" THEN v
  ELSE IF v.exch[id].owner = "refuses" THEN OpenFailed(v, id, "Unavailable")
  ELSE [v EXCEPT !.mux = TrySend(@, Item(v.request, id, "Opened", OpenedBody(v))),
                 !.exch[id] = [@ EXCEPT !.at = "Open", !.owner = "blocks", !.exchange = TRUE,
                                        !.machine = S!New("Endpoint")]]

\* fail: the owner's stream broke.
FailOwner(ex) ==
  [ex EXCEPT !.exchange = FALSE,
             !.effect = IF S!Live(ex.machine) THEN EffectAfter(ex) ELSE @,
             !.machine = IF S!Live(@) THEN S!FailTerminal(@) ELSE @]

\* The request's loop: a read fills `held`, and the owner takes what it can.
TakeRequest(ex) ==
  LET m == ex.machine
  IN  IF ex.held > 0 \/ ex.requestDone THEN ex
      ELSE IF m.recv > 0 THEN [ex EXCEPT !.held = m.recv, !.machine = S!Read(m, m.recv)]
      ELSE [ex EXCEPT !.requestDone = S!Live(m) /\ m.end_received]

GiveRequest(ex) ==
  IF ex.held = 0 \/ ex.owner = "blocks" THEN ex
  ELSE IF ex.owner = "fails" THEN FailOwner(ex)
  ELSE [ex EXCEPT !.forwarded = @ + ex.held, !.held = 0]

\* What the owner took lets the next read see the end.
ReadOn(ex) == IF ex.exchange /\ ex.held = 0 THEN TakeRequest(ex) ELSE ex
ForwardRequest(ex) == ReadOn(GiveRequest(TakeRequest(ex)))

\* The response's loop, which has no bytes here.
ForwardResponse(ex) ==
  IF ~ex.exchange \/ ex.responseDone \/ ex.owner = "blocks" THEN ex
  ELSE IF ex.owner = "fails" THEN FailOwner(ex)
  ELSE IF ~(ex.requestDone /\ ex.held = 0) THEN ex
  ELSE [ex EXCEPT !.machine = IF S!CanEndWrite(@) THEN S!RequestEnd(@) ELSE @,
                  !.responseDone = TRUE]

Finishing(ex) ==
  IF ex.exchange /\ ex.requestDone /\ ex.responseDone /\ ex.held = 0
  THEN [ex EXCEPT !.exchange = FALSE, !.finishing = TRUE] ELSE ex

FinishOwner(ex) ==
  IF ex.finishing /\ ex.owner \in {"done", "fails"}
  THEN [ex EXCEPT !.finishing = FALSE, !.disposition = TRUE] ELSE ex

CompleteOwner(ex) ==
  IF ex.disposition /\ S!CanCompleteClose(ex.machine)
  THEN [ex EXCEPT !.disposition = FALSE, !.machine = S!CompleteClose(@, FALSE)] ELSE ex

\* A machine that failed gives the owner's exchange up.
AbortOwner(ex) ==
  IF ex.machine.error # None THEN [ex EXCEPT !.exchange = FALSE, !.finishing = FALSE] ELSE ex

\* pump_running up to its messages.
MoveBytes(ex) == IF ex.exchange THEN Finishing(ForwardResponse(ForwardRequest(ex))) ELSE ex

PumpBytes(ex, now) ==
  AbortOwner(CompleteOwner(FinishOwner(MoveBytes([ex EXCEPT !.machine = S!Advance(@, now)]))))

\* Its messages; a stream that ended and has no more is removed.
RECURSIVE PumpMessages(_, _, _)
PumpMessage(v, id, budget, next) ==
  IF next.msg = None
  THEN [v |-> IF S!Live(v.exch[id].machine) THEN v ELSE [v EXCEPT !.exch = Without(@, {id})],
        budget |-> budget]
  ELSE PumpMessages(
         [v EXCEPT !.mux = TrySend(@, Item(v.request, id, next.msg.kind,
                                           Said(next.msg, v.exch[id].effect))),
                   !.exch[id].machine = next.m], id, budget - 1)

PumpMessages(v, id, budget) ==
  IF budget = 0 THEN [v |-> v, budget |-> 0]
  ELSE PumpMessage(v, id, budget, S!Outgoing(v.exch[id].machine))

Ids(v) == SetToSortSeq(DOMAIN v.exch, <)

RECURSIVE PollOpenings(_, _)
PollOpenings(v, ids) ==
  IF ids = <<>> THEN v ELSE PollOpenings(PollOpening(v, Head(ids)), Tail(ids))

Moved(v, id, ex) ==
  [v EXCEPT !.exch[id] = ex,
            !.crossed = IF ex.forwarded = 0 THEN @ ELSE Put(@, id, ex.forwarded)]

RECURSIVE PumpAll(_, _, _)
PumpAll(p, ids, now) ==
  IF ids = <<>> THEN p.v
  ELSE PumpAll(IF p.v.exch[Head(ids)].at = "Opening" THEN p
               ELSE PumpMessages(Moved(p.v, Head(ids), PumpBytes(p.v.exch[Head(ids)], now)),
                                 Head(ids), p.budget),
               Tail(ids), now)

\* A rejecting mux has one message and closes behind it.
MuxOutbox(m) == IF m.phase = "Rejecting" THEN FirstOf(m.outbound, 1) ELSE m.outbound

\* drive_bound: the binding, and what it put in an outbox with this room.
LapseServed(v) ==
  [v EXCEPT !.mux = IF @.phase = "Rejecting" /\ @.bootstrap = 0 THEN Disconnect(@) ELSE @]

PollAll(v) == PollOpenings(v, Ids(v))
PumpEach(v, now) == PumpAll([v |-> v, budget |-> PumpBudget], Ids(v), now)

Sending(m, room) == FirstOf(MuxOutbox(m), room)
Unloaded(m, sent) ==
  IF m.phase = "Rejecting" /\ sent # <<>> THEN Disconnect(m)
  ELSE [m EXCEPT !.outbound = RestOf(@, Len(sent))]
Bury(v) ==
  IF Live(v.mux) THEN v ELSE [v EXCEPT !.at = "Dead", !.mux = None, !.exch = <<>>]
Unload(v, room) ==
  [v |-> Bury([v EXCEPT !.mux = Unloaded(@, Sending(@, room))]), sent |-> Sending(v.mux, room)]

DriveBound(v, room, now) == Unload(PumpEach(PollAll(ServeActions(LapseServed(v))), now), room)

\* admitted, with what the acquire answered.
Bound(v) ==
  [v EXCEPT !.at = "Bound", !.bind = None, !.acquire = None,
            !.mux = Receive(Register(NewMux(Endpoint, Endpoint.limits), v.request, None), v.bind)]

\* Served::drive.
Answer(v, room, now) ==
  CASE v.at = "Admitting" /\ v.acquire # "Granted" ->
         [v |-> [v EXCEPT !.at = "Dead", !.bind = None, !.acquire = None],
          sent |-> <<Rejected(v.request, v.acquire)>>]
    [] v.at = "Admitting" /\ v.acquire = "Granted" -> DriveBound(Bound(v), room, now)
    [] v.at = "Bound" -> DriveBound(v, room, now)
    [] v.at = "Dead" -> [v |-> v, sent |-> <<>>]

DrainOutq(pass) ==
  [v |-> [pass.v EXCEPT !.outq = <<>>, !.at = IF pass.v.dying THEN "Dead" ELSE @],
   sent |-> pass.sent \o pass.v.outq]

DriveServed(v, room, now) ==
  IF v.at = "Admitting" /\ v.acquire = None THEN [v |-> v, sent |-> <<>>]
  ELSE DrainOutq(Answer(v, room, now))

-----------------------------------------------------------------------------
(* The receiver. *)

EndReceiver(k) ==
  [k EXCEPT !.ended = TRUE, !.served = <<>>, !.calls = <<>>, !.outbox = <<>>]

\* start_bind: the name is remembered before the call is looked up; a call is
\* found once, so a name that `seen` has evicted is refused as well.
StartBind(k, s, bind) ==
  LET r == bind.req
      known == [k EXCEPT !.seen = @ \cup {r}]
      reject(code) == [known EXCEPT !.outbox = Append(@, Wire(s, Rejected(r, code)))]
  IN  IF r \in k.seen \/ Invocation[r] = "Unknown" THEN reject("InvalidRequest")
      ELSE IF Invocation[r] = "Closing" THEN reject("Cancelled")
      ELSE [known EXCEPT !.calls = Put(@, r, s), !.served = Put(@, s, Admitting(bind))]

\* route_in: a message of no binding is discarded.
RouteInClient(k, message) ==
  LET s == message.session
  IN  IF s \in DOMAIN k.served
      THEN [k EXCEPT !.served[s] = ReceiveServed(@, message.item)]
      ELSE IF message.item.kind = "Bind" THEN StartBind(k, s, message.item) ELSE k

\* Messages are taken while the outbox has room.
RECURSIVE Arrivals(_, _)
Arrivals(k, l) ==
  IF Len(k.outbox) >= OutboxRoom THEN [k |-> k, l |-> l]
  ELSE IF l.inn # <<>>
  THEN Arrivals(RouteInClient(k, Head(l.inn)), [l EXCEPT !.inn = Tail(@)])
  ELSE [k |-> IF l.inEnded THEN EndReceiver(k) ELSE k, l |-> l]

FaultServed(k, l) ==
  [k EXCEPT !.served = [s \in DOMAIN @ |->
     IF ~Gone(@[s]) /\ s \in l.faulted THEN Terminate(@[s], "Protocol", None) ELSE @[s]]]

\* The binding's part of `crossed` after its pass.
Noted(k, s, v) ==
  [k EXCEPT !.crossed = [x \in DOMAIN @ \cup {<<s, id>> : id \in DOMAIN v.crossed} |->
     IF x[1] = s THEN v.crossed[x[2]] ELSE @[x]]]

PostServed(k, s, pass) ==
  Noted([k EXCEPT !.served[s] = pass.v, !.outbox = @ \o Wired(s, pass.sent)], s, pass.v)

RECURSIVE DriveServedAll(_, _)
DriveServedAll(k, sessions) ==
  IF sessions = <<>> THEN k
  ELSE DriveServedAll(PostServed(k, Head(sessions),
                                 DriveServed(k.served[Head(sessions)], RoomOf(k.outbox), k.now)),
                      Tail(sessions))

DropDead(k) ==
  LET dead == {s \in DOMAIN k.served : Gone(k.served[s])}
  IN  [k EXCEPT !.served = Without(@, dead),
                !.calls = Without(@, {r \in DOMAIN @ : @[r] \notin DOMAIN k.served \ dead})]

FlushClient(k, l) ==
  LET room == LaneRoom - Len(l.out)
  IN  IF l.outClosed /\ k.outbox # <<>> THEN [k |-> EndReceiver(k), l |-> l]
      ELSE [k |-> [k EXCEPT !.outbox = RestOf(@, room)],
            l |-> [l EXCEPT !.out = @ \o FirstOf(k.outbox, room)]]

DriveClientOn(p) ==
  IF p.k.ended THEN p
  ELSE FlushClient(DropDead(DriveServedAll(FaultServed(p.k, p.l),
                                           SetToSortSeq(DOMAIN p.k.served, <))), p.l)

\* pump_locked.
PumpClient(k, l) == IF k.ended THEN [k |-> k, l |-> l] ELSE DriveClientOn(Arrivals(k, l))

\* end_call, before its pump.
EndCallOf(k, r) ==
  IF r \notin DOMAIN k.calls THEN k
  ELSE [k EXCEPT !.calls = Without(@, {r}),
                 !.served = [s \in DOMAIN @ |->
                    IF s = k.calls[r] THEN Terminate(@[s], "Cancelled", None) ELSE @[s]]]
=============================================================================
