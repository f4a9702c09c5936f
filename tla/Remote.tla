-------------------------------- MODULE Remote --------------------------------
(***************************************************************************)
(* A carrier-backed host: the core (RemoteCore), the client (RemoteClient) *)
(* and the carrier's lane between them.  Every call on the core's handle,  *)
(* and every poll of its driver, is one step with the pumps around it;     *)
(* every step of the client is one pump of its receiver.                   *)
(*                                                                         *)
(* The carrier keeps the order of each direction and holds LaneRoom        *)
(* messages of it.  It may end a direction, whose reader still drains what *)
(* it holds, or fault one binding at one end, where it drops what is       *)
(* queued for it.                                                          *)
(***************************************************************************)
EXTENDS RemoteClient

CONSTANTS
  Requests,    \* the names of the calls
  Specs,       \* what an exchange may ask for, and what the client answers
  Answers,     \* what the client's host answers an acquire
  MaxSerial,   \* bound: bindings
  MaxOpens,    \* bound: exchanges of a binding
  MaxWrites,   \* bound: units written to an exchange
  MaxTicks,    \* bound: the clocks of the two ends together
  MaxFaults,   \* bound: directions ended and bindings faulted by the carrier
  Ends         \* the directions the carrier may end

VARIABLES
  core,      \* State, behind the core's handle
  client,    \* RState, behind the receiver
  up,        \* the lane from core to client
  down,      \* and back
  over,      \* the directions that ended
  faults,    \* <<end, session>> the carrier faulted
  call,      \* a call's admission: idle, waiting or permit
  held,      \* the operations whose handle is held
  handle     \* an exchange's handle: opening, stream, finishing or gone

vars == <<core, client, up, down, over, faults, call, held, handle>>

Init ==
  /\ core = NewCore /\ client = NewClient
  /\ up = <<>> /\ down = <<>> /\ over = {} /\ faults = {}
  /\ call = [r \in Requests |-> "idle"]
  /\ held = {} /\ handle = <<>>

LaneOf(end, inn, out) ==
  [inn |-> inn, out |-> out,
   inEnded |-> (IF end = "core" THEN "down" ELSE "up") \in over,
   outClosed |-> (IF end = "core" THEN "up" ELSE "down") \in over,
   faulted |-> {f[2] : f \in {g \in faults : g[1] = end}}]

\* A step of the core whose own change is f.
CoreStep(f(_)) ==
  \E w \in {With([c |-> core, l |-> LaneOf("core", down, up)], f)} :
    core' = w.c /\ up' = w.l.out /\ down' = w.l.inn

Same(c) == c

\* A step of the client from k.
ClientStep(k) ==
  \E w \in {PumpClient(k, LaneOf("client", up, down))} :
    client' = w.k /\ down' = w.l.out /\ up' = w.l.inn

-----------------------------------------------------------------------------
(* Admission. *)

Admit(r) ==
  /\ ~core.lost /\ r \notin core.requests /\ Len(core.queue) < WaitingLimit
  /\ core.serial + Len(core.queue) + Cardinality(core.claims) < MaxSerial
  /\ CoreStep(LAMBDA c : IF c.lost \/ r \in c.requests THEN c
                         ELSE [c EXCEPT !.requests = @ \cup {r}, !.queue = Append(@, r)])
  /\ call' = [call EXCEPT ![r] = IF r \in core'.requests THEN "waiting" ELSE @]
  /\ UNCHANGED <<client, over, faults, held, handle>>

Unqueue(c, r) ==
  [c EXCEPT !.queue = SelectSeq(@, LAMBDA q : q # r), !.asleep = @ \ {r}, !.requests = @ \ {r}]

\* One poll of RemoteAcquire; a lost carrier ends it.
Grant(c, r) ==
  IF c.lost THEN Unqueue(c, r)
  ELSE IF Head(c.queue) = r /\ c.active < ActiveLimit
  THEN [c EXCEPT !.queue = Tail(@), !.asleep = @ \ {r}, !.active = @ + 1,
                 !.claims = @ \cup {r}]
  ELSE [c EXCEPT !.asleep = @ \cup {r}]

PollAcquire(r) ==
  /\ call[r] = "waiting"
  /\ CoreStep(LAMBDA c : Grant(c, r))
  /\ call' = [call EXCEPT ![r] = IF r \in core'.claims THEN "permit"
                                 ELSE IF r \in core'.requests THEN @ ELSE "idle"]
  /\ UNCHANGED <<client, over, faults, held, handle>>

\* The admission is dropped, or its bound passed.
DropAdmission(r) ==
  /\ call[r] = "waiting"
  /\ CoreStep(LAMBDA c : Unqueue(c, r))
  /\ call' = [call EXCEPT ![r] = "idle"]
  /\ UNCHANGED <<client, over, faults, held, handle>>

\* Drop of a permit, and `release`.
Release(c, r) ==
  [c EXCEPT !.claims = @ \ {r}, !.active = @ - 1, !.requests = @ \ {r}]

Bind(c, r) ==
  IF c.lost THEN Release(c, r)
  ELSE [c EXCEPT !.claims = @ \ {r}, !.serial = @ + 1,
                 !.bindings = Put(@, c.serial + 1, NewBinding(r))]

RegisterPermit(r) ==
  /\ call[r] = "permit"
  /\ CoreStep(LAMBDA c : Bind(c, r))
  /\ call' = [call EXCEPT ![r] = "idle"]
  /\ held' = IF core'.serial > core.serial THEN held \cup {core'.serial} ELSE held
  /\ UNCHANGED <<client, over, faults, handle>>

DropPermit(r) ==
  /\ call[r] = "permit"
  /\ CoreStep(LAMBDA c : Release(c, r))
  /\ call' = [call EXCEPT ![r] = "idle"]
  /\ UNCHANGED <<client, over, faults, held, handle>>

-----------------------------------------------------------------------------
(* An operation. *)

\* f on the binding of s, if it is there.
OnBinding(c, s, f(_)) ==
  IF s \in DOMAIN c.bindings THEN [c EXCEPT !.bindings[s] = f(@)] ELSE c

WaitFor(c, w) == IF Holds(c, w) THEN c ELSE [c EXCEPT !.waiters = @ \cup {w}]

PollRegistered(s) ==
  /\ s \in held
  /\ CoreStep(LAMBDA c : WaitFor(c, [for |-> "Registered", s |-> s, t |-> 0]))
  /\ UNCHANGED <<client, over, faults, call, held, handle>>

\* RemoteOp::open past its refusals.
MayOpen(c, s) ==
  /\ s \in DOMAIN c.bindings
  /\ c.bindings[s].reg \in {"Pending", "Registered"}
  /\ ~c.bindings[s].cancelled /\ ~c.bindings[s].sealed
  /\ Cardinality({t \in DOMAIN c.bindings[s].exch : c.bindings[s].exch[t].stage # "Ended"})
       < MaxStreams

OpenExchange(s, spec) ==
  /\ s \in held /\ MayOpen(core, s) /\ core.bindings[s].opened < MaxOpens
  /\ CoreStep(LAMBDA c : IF MayOpen(c, s)
                         THEN OnBinding(c, s, LAMBDA b : QueueExchange(b, spec)) ELSE c)
  /\ handle' = IF core'.bindings[s].opened > core.bindings[s].opened
               THEN Put(handle, <<s, core'.bindings[s].opened>>, "opening") ELSE handle
  /\ UNCHANGED <<client, over, faults, call, held>>

\* Operation::finish.
SealOp(b) ==
  IF b.reg = "Pending"
  THEN AbortAll([b EXCEPT !.sealed = TRUE, !.reg = "Cancelled"], "Cancelled", FALSE)
  ELSE [b EXCEPT !.sealed = TRUE]

FinishOp(s) ==
  /\ s \in held
  /\ CoreStep(LAMBDA c : OnBinding(c, s, SealOp))
  /\ held' = held \ {s}
  /\ UNCHANGED <<client, over, faults, call, handle>>

AbandonOp(s) ==
  /\ s \in held
  /\ CoreStep(LAMBDA c : OnBinding(c, s, LAMBDA b : [CancelAll(b) EXCEPT !.sealed = TRUE]))
  /\ held' = held \ {s}
  /\ UNCHANGED <<client, over, faults, call, handle>>

\* A cancel handle outlives its operation.
CancelOp(s) ==
  /\ s \in DOMAIN core.bindings /\ ~core.bindings[s].cancelled
  /\ CoreStep(LAMBDA c : OnBinding(c, s, CancelAll))
  /\ UNCHANGED <<client, over, faults, call, held, handle>>

-----------------------------------------------------------------------------
(* An exchange.  f is applied to its record, if it is there. *)

OnExch(c, s, t, f(_)) ==
  IF s \in DOMAIN c.bindings /\ t \in DOMAIN c.bindings[s].exch
  THEN [c EXCEPT !.bindings[s].exch[t] = f(@)] ELSE c

HandleIs(h, state) == h \in DOMAIN handle /\ handle[h] = state

\* RemoteOpenWait::poll_open: a decided opening hands its outcome out.
TakeOutcome(e) == [e EXCEPT !.outcome = None, !.dropped = @ \/ e.outcome # "Ok"]

Opened(c, s, t) ==
  Record(c, [s |-> s, t |-> t]) /\ c.bindings[s].exch[t].outcome = "Ok"

PollOpen(s, t) ==
  LET w == [for |-> "Opening", s |-> s, t |-> t]
      hands(polled) == IF Opened(polled, s, t) THEN "stream"
                       ELSE IF Holds(polled, w) THEN "failed" ELSE "opening"
  IN  /\ HandleIs(<<s, t>>, "opening")
      /\ CoreStep(LAMBDA c : IF Holds(c, w) THEN OnExch(c, s, t, TakeOutcome) ELSE WaitFor(c, w))
      /\ handle' = [handle EXCEPT ![<<s, t>>] =
                      hands(Pump([c |-> core, l |-> LaneOf("core", down, up)]).c)]
      /\ UNCHANGED <<client, over, faults, call, held>>

WriteTo(e) ==
  IF e.end # None \/ e.machine = None THEN e
  ELSE IF ~S!CanWrite(e.machine) THEN e
  ELSE [e EXCEPT !.machine = S!Write(@, 1), !.written = @ + 1]

WriteStream(s, t) ==
  /\ HandleIs(<<s, t>>, "stream") /\ Record(core, [s |-> s, t |-> t])
  /\ core.bindings[s].exch[t].written < MaxWrites
  /\ CoreStep(LAMBDA c : OnExch(c, s, t, WriteTo))
  /\ UNCHANGED <<client, over, faults, call, held, handle>>

CloseStream(e) ==
  IF e.end # None \/ e.machine = None THEN e
  ELSE IF ~S!CanStartClose(e.machine) THEN e
  ELSE [e EXCEPT !.machine = S!StartClose(@), !.stage = "Closing"]

FinishStream(s, t) ==
  /\ HandleIs(<<s, t>>, "stream")
  /\ CoreStep(LAMBDA c : OnExch(c, s, t, CloseStream))
  /\ handle' = [handle EXCEPT ![<<s, t>>] = "finishing"]
  /\ UNCHANGED <<client, over, faults, call, held>>

PollFinish(s, t) ==
  /\ HandleIs(<<s, t>>, "finishing")
  /\ CoreStep(LAMBDA c : WaitFor(c, [for |-> "Ending", s |-> s, t |-> t]))
  /\ UNCHANGED <<client, over, faults, call, held, handle>>

\* Drop of a Live: by its opening, stream or finish, whichever holds it.
DropExch(e) ==
  CASE e.stage = "Queued" -> [e EXCEPT !.dropped = TRUE, !.stage = "Ended"]
    [] e.stage \in {"Open", "Closing"} ->
         [e EXCEPT !.dropped = TRUE, !.machine = S!CancelStream(@)]
    [] e.stage \in {"Opening", "Ended"} -> [e EXCEPT !.dropped = TRUE]

DropLive(b, t) ==
  LET gone == [b EXCEPT !.live = @ - 1]
  IN  IF t \notin DOMAIN b.exch THEN gone
      ELSE IF b.exch[t].stage \in {"Queued", "Ended"}
      THEN [gone EXCEPT !.exch = Without(@, {t})]
      ELSE [gone EXCEPT !.exch[t] = DropExch(@)]

DropHandle(s, t) ==
  /\ <<s, t>> \in DOMAIN handle
  /\ CoreStep(LAMBDA c : OnBinding(c, s, LAMBDA b : DropLive(b, t)))
  /\ handle' = Without(handle, {<<s, t>>})
  /\ UNCHANGED <<client, over, faults, call, held>>

-----------------------------------------------------------------------------
(* The drivers, the client and the carrier. *)

\* One poll of the core's driver.
DriveCore ==
  /\ CoreStep(Same)
  /\ UNCHANGED <<client, over, faults, call, held, handle>>

DriveClient ==
  /\ ClientStep(client)
  /\ UNCHANGED <<core, over, faults, call, held, handle>>

EndCall(r) ==
  /\ r \in DOMAIN client.calls
  /\ ClientStep(EndCallOf(client, r))
  /\ UNCHANGED <<core, over, faults, call, held, handle>>

\* The client's host decides an admission, and the pump polls it.
AnswerAcquire(s, answer) ==
  /\ s \in DOMAIN client.served /\ client.served[s].at = "Admitting"
  /\ ClientStep([client EXCEPT !.served[s].acquire = answer])
  /\ UNCHANGED <<core, over, faults, call, held, handle>>

NextOwner(owner) ==
  CASE owner = "waits" -> {"opens", "refuses"}
    [] owner = "blocks" -> {"flows", "fails"}
    [] owner = "flows" -> {"blocks", "done", "fails"}
    [] owner \in {"opens", "refuses", "done", "fails"} -> {}

\* The owner's stream of an exchange moves, and the pump finds it so.
MoveOwner(s, id) ==
  /\ s \in DOMAIN client.served /\ id \in DOMAIN client.served[s].exch
  /\ \E owner \in NextOwner(client.served[s].exch[id].owner) :
       ClientStep([client EXCEPT !.served[s].exch[id].owner = owner])
  /\ UNCHANGED <<core, over, faults, call, held, handle>>

\* Time at the core; what is due is found by the next pump.
TickCore ==
  /\ core.now + client.now < MaxTicks
  /\ core' = [core EXCEPT !.now = @ + 1,
                          !.bindings = [s \in DOMAIN @ |-> [@[s] EXCEPT !.mux = Elapse(@)]]]
  /\ UNCHANGED <<client, up, down, over, faults, call, held, handle>>

TickClient ==
  /\ core.now + client.now < MaxTicks
  /\ client' = [client EXCEPT !.now = @ + 1,
                  !.served = [s \in DOMAIN @ |->
                     IF @[s].mux = None THEN @[s] ELSE [@[s] EXCEPT !.mux = Elapse(@)]]]
  /\ UNCHANGED <<core, up, down, over, faults, call, held, handle>>

Faulted == Cardinality(faults) + Cardinality(over)

EndLane(way) ==
  /\ way \notin over /\ Faulted < MaxFaults
  /\ over' = over \cup {way}
  /\ UNCHANGED <<core, client, up, down, faults, call, held, handle>>

Other(messages, s) == SelectSeq(messages, LAMBDA m : m.session # s)

FaultLane(end, s) ==
  /\ Faulted < MaxFaults
  /\ s \in DOMAIN core.bindings /\ <<end, s>> \notin faults
  /\ faults' = faults \cup {<<end, s>>}
  /\ up' = IF end = "client" THEN Other(up, s) ELSE up
  /\ down' = IF end = "core" THEN Other(down, s) ELSE down
  /\ UNCHANGED <<core, client, over, call, held, handle>>

Next ==
  \/ \E r \in Requests :
       \/ Admit(r) \/ PollAcquire(r) \/ DropAdmission(r)
       \/ RegisterPermit(r) \/ DropPermit(r) \/ EndCall(r)
  \/ \E s \in 1..MaxSerial :
       \/ PollRegistered(s) \/ FinishOp(s) \/ AbandonOp(s) \/ CancelOp(s)
       \/ \E spec \in Specs : OpenExchange(s, spec)
       \/ \E answer \in Answers : AnswerAcquire(s, answer)
       \/ \E end \in {"core", "client"} : FaultLane(end, s)
       \/ \E id \in 1..MaxOpens : MoveOwner(s, id)
       \/ \E t \in 1..MaxOpens :
            \/ PollOpen(s, t) \/ WriteStream(s, t) \/ FinishStream(s, t)
            \/ PollFinish(s, t) \/ DropHandle(s, t)
  \/ DriveCore \/ DriveClient \/ TickCore \/ TickClient
  \/ \E way \in Ends : EndLane(way)

Spec == Init /\ [][Next]_vars

-----------------------------------------------------------------------------
(* Properties. *)

Bindings == DOMAIN core.bindings
Exchanges(s) == DOMAIN core.bindings[s].exch

\* Nothing sleeps through what it waits for: whichever call, message or loss of
\* the carrier frees the slot, decides the opening or ends the exchange, the
\* future that waits for it was woken when the lock is released (ready_wakers).
NoMissedWake ==
  /\ \A w \in core.waiters : ~Holds(core, w)
  /\ core.lost => core.asleep = {}
  /\ core.queue # <<>> /\ core.active < ActiveLimit => Head(core.queue) \notin core.asleep

\* An effect is never under-reported: an exchange that ended other than in order
\* and says None had no unit of a push pass the owner's stream at the client,
\* then or later (effect_on_loss, effect_after).
EffectNeverUnderreported ==
  \A s \in Bindings : \A t \in Exchanges(s) :
    LET e == core.bindings[s].exch[t]
    IN  e.end # None /\ e.spec.service = "ReceivePackExchange" =>
          (e.end.code # "Closed" /\ e.end.effect = "None" => Crossed(client, s, e.stream) = 0)

\* An exchange that ended in order had every unit its caller wrote pass the
\* owner's stream (start_close, pump_running, complete_close, settle).
OrderlyEndForwarded ==
  \A s \in Bindings : \A t \in Exchanges(s) :
    LET e == core.bindings[s].exch[t]
    IN  e.end # None =>
          (e.end.code = "Closed" => Crossed(client, s, e.stream) = e.written)

\* What the end of an exchange tells its caller of its effects is true.
EndTellsEffects == EffectNeverUnderreported /\ OrderlyEndForwarded

\* Nothing is on its way between the two ends of a binding, and nothing was lost.
Still(s) ==
  /\ up = <<>> /\ down = <<>> /\ over = {} /\ \A f \in faults : f[2] # s
  /\ core.outbox = <<>> /\ client.outbox = <<>>
  /\ s \in Bindings
  /\ core.bindings[s].mux.outbound = <<>>

Serves(s) ==
  IF s \in DOMAIN client.served
  THEN client.served[s].at = "Bound" /\ client.served[s].mux.outbound = <<>> ELSE FALSE

\* Once nothing is on its way, both ends have the same streams, and the client
\* an exchange for each: what was cancelled or failed at either end holds no slot
\* of either mux (run_machines, cancel_stream, pump_running).
RoutesAgree ==
  \A s \in 1..MaxSerial : Still(s) /\ Serves(s) =>
    (core.bindings[s].faulted = None =>
       /\ DOMAIN core.bindings[s].mux.routes = DOMAIN client.served[s].exch
       /\ DOMAIN client.served[s].mux.routes = DOMAIN client.served[s].exch)

\* Every wait of an opening resolves: once nothing is on its way, the client
\* still has the stream a core's exchange waits for (route_in, end_call).
OpeningsAnswered ==
  \A s \in 1..MaxSerial : Still(s) =>
    \A t \in Exchanges(s) : core.bindings[s].exch[t].stage = "Opening" =>
      s \in DOMAIN client.served
=============================================================================
