------------------------------ MODULE MuxMachine ------------------------------
(***************************************************************************)
(* The request mux (src/src/mux/mod.rs, routing.rs): one end of a session, *)
(* the initiator or the endpoint, as operators on its record m.  A call    *)
(* that is refused leaves the record as it is.                             *)
(*                                                                         *)
(* A message is [req, id, kind, body]; the bodies are what the checks      *)
(* read.  Every message is charged one unit of its queue's limits.  A      *)
(* deadline is the time that is left, so the clock is not kept: Advance    *)
(* is one unit of it, and a deadline that passed stays at 0.               *)
(***************************************************************************)
EXTENDS Binding, Sequences, SequencesExt

CONSTANTS
  MaxRegistered,     \* Config::max_requests
  MaxStreams,
  BootstrapTimeout,
  CleanupTimeout,
  MaxCheck

Terminal(kind) ==
  kind \in {"BindRejected", "OpenFailed", "IdentityChecked", "IdentityCheckFailed",
            "Failed", "Closed"}

Starts(kind) == kind \in {"Open", "CheckIdentity"}

\* What `enqueue` lets into the control reserve.
ControlKind(kind) == kind # "Data" /\ ~Starts(kind)

NewMux(endpoint, limits) ==
  [endpoint |-> endpoint, own |-> limits, phase |-> "Unbound",
   binding |-> None, offer |-> None, acknowledgement |-> None, rejection |-> None,
   bootstrap |-> None, requests |-> <<>>, used |-> {}, routes |-> <<>>,
   highest |-> 0, outbound |-> <<>>, actions |-> <<>>]

Item(req, id, kind, body) == [req |-> req, id |-> id, kind |-> kind, body |-> body]

Put(f, k, v) == [x \in DOMAIN f \cup {k} |-> IF x = k THEN v ELSE f[x]]
Without(f, S) == [x \in DOMAIN f \ S |-> f[x]]

Live(m) == m.phase # "Closed"
LiveRequest(m, r) == Live(m) /\ r \in DOMAIN m.requests /\ ~m.requests[r].sealed

RoutesOf(m, r) == {id \in DOMAIN m.routes : m.routes[id].request = r}

HasTerminal(queue, r) == \E i \in DOMAIN queue : queue[i].req = r /\ Terminal(queue[i].kind)

\* Queue::can_push under the limits in force.
CanPush(m, queue, kind) ==
  LET limits == IF m.binding = None THEN m.own ELSE m.binding.limits
      data == SelectSeq(queue, LAMBDA q : ~ControlKind(q.kind))
  IN  /\ Len(queue) < limits.queued
      /\ ControlKind(kind) \/ Len(data) < limits.queued - limits.reserve

CanSend(m, kind) == CanPush(m, m.outbound, kind)
CanAct(m, kind) == CanPush(m, m.actions, kind)

\* Room for n control messages, which only the whole queue bounds.
Room(m, queue, n) ==
  Len(queue) + n <= (IF m.binding = None THEN m.own ELSE m.binding.limits).queued

PushOut(m, item) == [m EXCEPT !.outbound = Append(@, item)]
PushAction(m, item) == [m EXCEPT !.actions = Append(@, item)]

\* disconnect: of what a closed mux keeps, only the rejection is read again.
Disconnect(m) ==
  [NewMux(m.endpoint, m.own) EXCEPT !.phase = "Closed", !.rejection = m.rejection]

-----------------------------------------------------------------------------
(* Requests. *)

MayRegister(m, r) ==
  /\ Live(m) /\ m.phase # "Rejecting"
  /\ r \notin m.used
  /\ Cardinality(m.used) < MaxRegistered

\* The initiator names the operation, the endpoint learns it from the first Open.
Register(m, r, operation) ==
  [m EXCEPT !.used = @ \cup {r},
            !.requests = Put(@, r, [operation |-> operation, sealed |-> FALSE,
                                    cleanup |-> None])]

\* begin in phase Unbound; in Binding and Ready it is a no-op.
MayBegin(m, r) ==
  LiveRequest(m, r) /\ m.endpoint = None /\ m.phase = "Unbound" /\ CanSend(m, "Bind")

Begin(m, r, offer) ==
  [PushOut(m, Item(r, 0, "Bind", offer)) EXCEPT
     !.offer = Item(r, 0, "Bind", offer), !.phase = "Binding", !.bootstrap = BootstrapTimeout]

\* The initiator's and the endpoint's row of a stream.
Route(r, kind, body) ==
  [request |-> r, kind |-> IF kind = "Open" THEN "Opening" ELSE "Check",
   scheme |-> IF kind = "Open" THEN body.scheme ELSE None,
   policy |-> IF kind = "Open" THEN body.policy ELSE None,
   deadline |-> IF kind = "Open" THEN None ELSE body.timeout,
   cancel |-> None]

ValidateOpen(m, kind, body) ==
  IF kind = "Open" THEN CheckOpen(m.binding, body) ELSE CheckIdentity(m.binding, body)

\* check_identity and open, down to `start`; body.operation is the request's.
MayStart(m, r, kind, body) ==
  /\ LiveRequest(m, r) /\ m.phase = "Ready" /\ m.endpoint = None
  /\ kind = "CheckIdentity" => body.timeout \in 1..MaxCheck
  /\ body.operation = m.requests[r].operation
  /\ Cardinality(DOMAIN m.routes) < MaxStreams
  /\ ValidateOpen(m, kind, body)
  /\ CanSend(m, kind)

Start(m, r, kind, body) ==
  LET id == m.highest + 1
  IN  [PushOut(m, Item(r, id, kind, body)) EXCEPT
         !.highest = id, !.routes = Put(@, id, Route(r, kind, body))]

-----------------------------------------------------------------------------
(* The checks of one message on its route. *)

ValidateTransition(m, state, kind, outgoing) ==
  LET fromEndpoint == (m.endpoint # None) = outgoing
  IN  CASE state = "Check" ->
             kind \in (IF fromEndpoint THEN {"IdentityChecked", "IdentityCheckFailed"}
                       ELSE {"Cancel"})
        [] state = "Opening" ->
             kind \in (IF fromEndpoint THEN {"Opened", "OpenFailed"} ELSE {"Cancel"})
        [] state = "Stream" ->
             \/ kind \in {"Data", "Window", "Flush", "Flushed", "EndWrite", "Failed"}
             \/ kind \in {"Close", "Cancel"} /\ ~fromEndpoint
             \/ kind = "Closed" /\ fromEndpoint

CredentialPolicy(policy) == policy \in {"Gh", "WindowsConfigured"}

\* The facts of an authentication agree with the scheme and policy of the route.
ValidFacts(route, facts) ==
  /\ facts.method = "Gh" /\ route.scheme = "Https" => CredentialPolicy(route.policy)
  /\ facts.method = "Sspi" =>
       /\ route.scheme = "Https" /\ Native(route.policy)
       /\ ~(route.policy = "WindowsDefault" /\ facts.source = "Configured")

ValidateOpened(m, item) ==
  item.kind = "Opened" =>
    LET route == m.routes[item.id]
        facts == item.body.facts
    IN  /\ ValidFacts(route, facts)
        /\ item.body.endpoint = m.binding.endpoint
        /\ NoGreater(item.body.limits, m.binding.limits)
        /\ item.body.reused /\ facts.offered =>
             /\ route.scheme = "Https"
             /\ \/ CredentialPolicy(route.policy) /\ facts.method = "Gh"
                \/ Native(route.policy) /\ facts.method = "Sspi"

\* transition.
Transition(m, item) ==
  IF item.kind = "Opened" THEN [m EXCEPT !.routes[item.id].kind = "Stream"]
  ELSE IF Terminal(item.kind) THEN [m EXCEPT !.routes = Without(@, {item.id})]
  ELSE m

MaySend(m, item) ==
  /\ Live(m) /\ item.id \in DOMAIN m.routes
  /\ m.routes[item.id].request = item.req
  /\ ValidateTransition(m, m.routes[item.id].kind, item.kind, TRUE)
  /\ ValidateOpened(m, item)
  /\ CanSend(m, item.kind)

Send(m, item) == Transition(PushOut(m, item), item)

-----------------------------------------------------------------------------
(* Messages out. *)

FailureKind(state) ==
  CASE state = "Check" -> "IdentityCheckFailed"
    [] state = "Opening" -> "OpenFailed"
    [] state = "Stream" -> "Failed"

\* The cancelled routes next_message speaks for: not before their start left.
PendingCancels(m) ==
  {id \in DOMAIN m.routes :
     /\ m.routes[id].cancel # None
     /\ \A i \in DOMAIN m.outbound :
          ~(m.outbound[i].id = id /\ Starts(m.outbound[i].kind))}

BootstrapFirst(m) == m.outbound # <<>> /\ Head(m.outbound).id = 0

SpeaksCancel(m) == m.phase # "Rejecting" /\ ~BootstrapFirst(m) /\ PendingCancels(m) # {}

FirstCancelled(m) ==
  CHOOSE id \in PendingCancels(m) : \A other \in PendingCancels(m) : id <= other

HasMessage(m) == Live(m) /\ (m.outbound # <<>> \/ SpeaksCancel(m))

\* The item of next_message, and the mux after it.
NextItem(m) ==
  IF ~SpeaksCancel(m) THEN Head(m.outbound)
  ELSE LET id == FirstCancelled(m)
           route == m.routes[id]
       IN  Item(route.request, id,
                IF m.endpoint = None THEN "Cancel" ELSE FailureKind(route.kind), None)

NextMessage(m) ==
  IF m.phase = "Rejecting" THEN Disconnect(m)
  ELSE IF ~SpeaksCancel(m) THEN [m EXCEPT !.outbound = Tail(@)]
  ELSE LET id == FirstCancelled(m)
       IN  IF m.endpoint = None THEN [m EXCEPT !.routes[id].cancel = None]
           ELSE [m EXCEPT !.routes = Without(@, {id})]

NextAction(m) == [m EXCEPT !.actions = Tail(@)]

-----------------------------------------------------------------------------
(* Cancellation, the end of a request, and time. *)

\* Mutant: a cancelled request loses its queued terminals too.
DiscardAll(queue, r) == SelectSeq(queue, LAMBDA q : q.req # r \/ Starts(q.kind))

\* Queue::discard.
Discard(queue, r) ==
  SelectSeq(queue, LAMBDA q : \/ q.req # r \/ Terminal(q.kind)
                              \/ Starts(q.kind) \/ q.id = 0)

\* One message of a kind for each of some routes, in the order of their ids.
PerRoute(m, ids, kind(_)) ==
  [i \in 1..Cardinality(ids) |->
     LET id == SetToSortSeq(ids, <)[i]
     IN  Item(m.routes[id].request, id, kind(m.routes[id]), None)]

\* On the endpoint the worker hears of every route, in place of what was queued.
TellWorker(m, r) ==
  LET kept == SelectSeq(m.actions, LAMBDA q : q.req # r \/ Terminal(q.kind))
      told == PerRoute(m, RoutesOf(m, r), LAMBDA route : "Cancel")
  IN  IF Room(m, kept, Len(told)) THEN [m EXCEPT !.actions = kept \o told] ELSE Disconnect(m)

\* cancel, of a request that is registered and not sealed.
Seal(m, r) ==
  LET sealed == [m EXCEPT !.requests[r].sealed = TRUE,
                          !.requests[r].cleanup = CleanupTimeout,
                          !.outbound = Discard(@, r)]
      told == IF m.endpoint = None THEN sealed ELSE TellWorker(sealed, r)
  IN  [told EXCEPT !.routes = [id \in DOMAIN told.routes |->
         IF told.routes[id].request = r
         THEN [told.routes[id] EXCEPT !.cancel = "Cancelled", !.deadline = CleanupTimeout]
         ELSE told.routes[id]]]

OwnsBootstrap(m, r) == m.phase = "Binding" /\ m.offer.req = r

Cancel(m, r) ==
  IF ~Live(m) THEN m
  ELSE IF OwnsBootstrap(m, r) THEN Disconnect(m)
  ELSE IF ~LiveRequest(m, r) THEN m ELSE Seal(m, r)

\* finish unregisters once nothing of the request is under way.
Finishes(m, r) ==
  /\ Live(m) /\ r \in DOMAIN m.requests
  /\ RoutesOf(m, r) = {}
  /\ ~HasTerminal(m.outbound, r) /\ ~HasTerminal(m.actions, r)

Finish(m, r) ==
  LET c == Cancel(m, r)
  IN  IF Finishes(c, r) THEN [c EXCEPT !.requests = Without(@, {r})] ELSE c

TickDown(deadline) == IF deadline \in {None, 0} THEN deadline ELSE deadline - 1

\* Some deadline is kept; otherwise time changes nothing.
Timed(m) ==
  \/ m.bootstrap # None
  \/ \E r \in DOMAIN m.requests : m.requests[r].cleanup # None
  \/ \E id \in DOMAIN m.routes : m.routes[id].deadline # None

\* One unit of time on every deadline.
Elapse(m) ==
  [m EXCEPT !.bootstrap = TickDown(@),
            !.requests = [r \in DOMAIN @ |-> [@[r] EXCEPT !.cleanup = TickDown(@)]],
            !.routes = [id \in DOMAIN @ |-> [@[id] EXCEPT !.deadline = TickDown(@)]]]

\* Mutant: an expired route is reported and kept.
ExpireRoutesKept(m, expired) ==
  LET failed == PerRoute(m, expired, LAMBDA route : FailureKind(route.kind))
      cancel == PerRoute(m, expired, LAMBDA route : "Cancel")
      out == IF m.endpoint = None THEN cancel ELSE failed
      in == IF m.endpoint = None THEN failed ELSE cancel
  IN  IF ~Room(m, m.outbound, Len(out)) \/ ~Room(m, m.actions, Len(in)) THEN Disconnect(m)
      ELSE [m EXCEPT !.outbound = @ \o out, !.actions = @ \o in]

\* Expired routes: the endpoint tells its peer and wakes its worker, the
\* initiator tells its owner and cancels at the endpoint.
ExpireRoutes(m, expired) ==
  LET failed == PerRoute(m, expired, LAMBDA route : FailureKind(route.kind))
      cancel == PerRoute(m, expired, LAMBDA route : "Cancel")
      out == IF m.endpoint = None THEN cancel ELSE failed
      in == IF m.endpoint = None THEN failed ELSE cancel
  IN  IF ~Room(m, m.outbound, Len(out)) \/ ~Room(m, m.actions, Len(in)) THEN Disconnect(m)
      ELSE [m EXCEPT !.outbound = @ \o out, !.actions = @ \o in,
                     !.routes = Without(@, expired)]

\* advance, by one unit.
Advance(m) ==
  LET late == Elapse(m)
      stalled == \E r \in DOMAIN late.requests :
                   /\ late.requests[r].cleanup = 0
                   /\ HasTerminal(late.outbound, r) \/ HasTerminal(late.actions, r)
      expired == {id \in DOMAIN late.routes : late.routes[id].deadline = 0}
  IN  IF ~Live(m) THEN m
      ELSE IF stalled \/ (late.phase \in {"Binding", "Rejecting"} /\ late.bootstrap = 0)
      THEN Disconnect(late)
      ELSE IF expired = {} THEN late ELSE ExpireRoutes(late, expired)

-----------------------------------------------------------------------------
(* Messages in (routing.rs). *)

\* A new stream at the endpoint: why it is refused, or None.
StartFault(m, item) ==
  IF m.endpoint = None \/ ~LiveRequest(m, item.req) THEN "Protocol"
  ELSE IF Cardinality(DOMAIN m.routes) = MaxStreams THEN "Capacity"
  ELSE IF \/ ~ValidateOpen(m, item.kind, item.body)
          \/ item.kind = "CheckIdentity" /\ item.body.timeout > MaxCheck
          \/ m.requests[item.req].operation \notin {None, item.body.operation}
  THEN "Protocol" ELSE None

ReceiveStart(m, item) ==
  [PushAction(m, item) EXCEPT
     !.requests[item.req].operation = item.body.operation,
     !.highest = item.id,
     !.routes = Put(@, item.id, Route(item.req, item.kind, item.body))]

\* reject_binding.
RejectBinding(m, r, code) ==
  [PushOut(m, Item(r, 0, "BindRejected", [code |-> code])) EXCEPT
     !.rejection = code, !.phase = "Rejecting", !.bootstrap = BootstrapTimeout]

\* The endpoint's half of `bootstrap`: this mux needs profile 2.
ReceiveBind(m, item) ==
  LET code == IF 2 \notin item.body.versions THEN "UnsupportedVersion"
              ELSE Refusal(m.endpoint, item.body)
      bound == Accept(m.endpoint, item.body)
      reply == Item(item.req, 0, "Bound", bound)
  IN  IF code # None THEN RejectBinding(m, item.req, code)
      ELSE [PushOut(m, reply) EXCEPT
              !.acknowledgement = reply, !.binding = bound, !.phase = "Ready"]

\* What makes a bootstrap message break the session.
BootstrapFault(m, item) ==
  \/ ~LiveRequest(m, item.req)
  \/ m.endpoint # None /\ (item.kind # "Bind" \/ m.phase # "Unbound")
  \/ m.endpoint = None /\
       \/ m.phase # "Binding" \/ item.kind \notin {"Bound", "BindRejected"}
       \/ item.req # m.offer.req
       \/ item.kind = "Bound" /\ (~Verify(m.offer.body, item.body) \/ item.body.version # 2)

\* An acknowledgement that is delivered again.
Acknowledged(m, item) ==
  m.endpoint = None /\ m.phase = "Ready" /\ item.kind = "Bound" /\ m.acknowledgement = item

ReceiveBootstrap(m, item) ==
  IF Acknowledged(m, item) THEN m
  ELSE IF BootstrapFault(m, item) THEN Disconnect(m)
  ELSE IF item.kind = "Bind" THEN ReceiveBind(m, item)
  ELSE IF item.kind = "BindRejected"
  THEN Disconnect([m EXCEPT !.rejection = item.body.code])
  ELSE [m EXCEPT !.binding = item.body, !.acknowledgement = item,
                 !.bootstrap = None, !.phase = "Ready"]

\* Mutant: only a repeated start is recognised as late.
RetiredStarts(m, item) == item.id <= m.highest /\ Starts(item.kind)

\* A message of a stream this mux has no row for, and had none or no longer has.
Retired(m, item) ==
  item.id <= m.highest /\ (Starts(item.kind) \/ item.id \notin DOMAIN m.routes)

RouteFault(m, item) ==
  \/ item.id \notin DOMAIN m.routes
  \/ m.routes[item.id].request # item.req
  \/ ~ValidateTransition(m, m.routes[item.id].kind, item.kind, FALSE)
  \/ ~ValidateOpened(m, item)

\* receive: a fault closes the session.
Faulty(m, item) ==
  CASE item.id = 0 -> ~Acknowledged(m, item) /\ BootstrapFault(m, item)
    [] item.id # 0 /\ m.phase # "Ready" -> TRUE
    [] item.id # 0 /\ m.phase = "Ready" ->
         IF Starts(item.kind) /\ m.endpoint = None THEN TRUE
         ELSE IF Retired(m, item) THEN FALSE
         ELSE IF Starts(item.kind) THEN StartFault(m, item) # None
         ELSE RouteFault(m, item)

\* The delivery waits for room and changes nothing.
Blocked(m, item) ==
  /\ Live(m) /\ item.id # 0 /\ ~Faulty(m, item) /\ ~Retired(m, item)
  /\ ~CanAct(m, item.kind)

Receive(m, item) ==
  IF ~Live(m) \/ Blocked(m, item) THEN m
  ELSE IF item.id = 0 THEN ReceiveBootstrap(m, item)
  ELSE IF Faulty(m, item) THEN Disconnect(m)
  ELSE IF Retired(m, item) THEN m
  ELSE IF Starts(item.kind) THEN ReceiveStart(m, item)
  ELSE Transition(PushAction(m, item), item)
=============================================================================
