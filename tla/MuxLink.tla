-------------------------------- MODULE MuxLink --------------------------------
(***************************************************************************)
(* Two muxes of one session behind their Owners and Ports                  *)
(* (src/src/mux/asynchronous.rs): the host that registers the requests and *)
(* runs the two ordered forwarding loops, the workers and owners that take *)
(* actions and send, and the ticks of the two clocks.  Each action is one  *)
(* critical section of Shared::change or of one poll of `wait`.            *)
(*                                                                         *)
(* A forwarding loop holds the one message it took until the other end     *)
(* accepts it; it may deliver it again where a mux allows it: an Open, *)
(* a CheckIdentity or a Bound.                                             *)
(***************************************************************************)
EXTENDS MuxMachine

CONSTANTS
  Requests,
  Offers,         \* what the initiator may offer: bodies of a Bind
  Endpoints,      \* configurations of the endpoint
  Starters,       \* bodies of Open and CheckIdentity, `operation` left to the request
  OpenedBodies,   \* bodies of Opened a worker may send
  CoreSends, ClientSends,  \* kinds the two ends send on a stream
  Cancels,        \* the sides and requests whose host cancels
  MaxIds          \* bound on the streams of a session

VARIABLES
  core,    \* the initiator's mux
  client,  \* the endpoint's mux
  wire,    \* the message in the hands of each forwarding loop, or None
  ended    \* streams whose end the initiator's owner has taken

vars == <<core, client, wire, ended>>

Sides == {"core", "client"}
Other(side) == IF side = "core" THEN "client" ELSE "core"
MuxOf(side) == IF side = "core" THEN core ELSE client

\* Shared::change on one side.
ChangeSide(side, m) ==
  IF side = "core" THEN core' = m /\ UNCHANGED client
  ELSE client' = m /\ UNCHANGED core

Init ==
  /\ \E offer \in Offers : core = NewMux(None, offer.limits)
  /\ \E endpoint \in Endpoints : client = NewMux(endpoint, endpoint.limits)
  /\ wire = [side \in Sides |-> None]
  /\ ended = {}

-----------------------------------------------------------------------------
(* The owners. *)

\* Every request is registered on both sides before it is used.
RegisterRequest(r) ==
  /\ MayRegister(core, r) /\ MayRegister(client, r)
  /\ core' = Register(core, r, r)
  /\ client' = Register(client, r, None)
  /\ UNCHANGED <<wire, ended>>

BeginRequest(r) ==
  /\ MayBegin(core, r)
  /\ \E offer \in Offers :
       offer.limits = core.own /\ core' = Begin(core, r, offer)
  /\ UNCHANGED <<client, wire, ended>>

StartStream(r, kind, starter) ==
  LET body == [starter EXCEPT !.operation = r]
  IN  /\ core.highest < MaxIds
      /\ MayStart(core, r, kind, body)
      /\ core' = Start(core, r, kind, body)
      /\ UNCHANGED <<client, wire, ended>>

SendMessage(side, id, kind, body) ==
  LET m == MuxOf(side)
  IN  /\ id \in DOMAIN m.routes
      /\ MaySend(m, Item(m.routes[id].request, id, kind, body))
      /\ ChangeSide(side, Send(m, Item(m.routes[id].request, id, kind, body)))
      /\ UNCHANGED <<wire, ended>>

\* The poll of Owner::next_action that finds one.
TakeAction(side) ==
  /\ MuxOf(side).actions # <<>>
  /\ ChangeSide(side, NextAction(MuxOf(side)))
  /\ ended' = LET item == Head(MuxOf(side).actions)
              IN  IF side = "core" /\ Terminal(item.kind) THEN ended \cup {item.id} ELSE ended
  /\ UNCHANGED wire

CancelRequest(side, r) ==
  /\ <<side, r>> \in Cancels
  /\ LiveRequest(MuxOf(side), r)
  /\ ChangeSide(side, Cancel(MuxOf(side), r))
  /\ UNCHANGED <<wire, ended>>

\* Owner::finish that unregisters; one that would block only cancels.
FinishRequest(side, r) ==
  /\ <<side, r>> \in Cancels
  /\ ~OwnsBootstrap(MuxOf(side), r)
  /\ Finishes(MuxOf(side), r)
  /\ ChangeSide(side, Finish(MuxOf(side), r))
  /\ UNCHANGED <<wire, ended>>

Tick(side) ==
  /\ Timed(MuxOf(side))
  /\ UNCHANGED <<wire, ended>>
  /\ LET late == Advance(MuxOf(side))
     IN  late # MuxOf(side) /\ ChangeSide(side, late)

-----------------------------------------------------------------------------
(* The ports. *)

\* The poll of Port::next_message that finds one.
TakeMessage(side) ==
  /\ wire[side] = None
  /\ HasMessage(MuxOf(side))
  /\ ChangeSide(side, NextMessage(MuxOf(side)))
  /\ wire' = [wire EXCEPT ![side] = NextItem(MuxOf(side))]
  /\ UNCHANGED ended

\* The poll of Port::deliver on the other side that completes.
Deliver(side, again) ==
  LET item == wire[side]
      m == MuxOf(Other(side))
  IN  /\ item # None
      /\ Live(m) /\ ~Blocked(m, item)
      /\ ChangeSide(Other(side), Receive(m, item))
      /\ IF again
         THEN /\ Starts(item.kind) \/ item.kind = "Bound"
              /\ wire' = wire
         ELSE wire' = [wire EXCEPT ![side] = None]
      /\ UNCHANGED ended

\* Port::disconnect, the drop of the last Owner or Port, or a waiter too many.
LoseSide(side) ==
  /\ Live(MuxOf(side))
  /\ ChangeSide(side, Disconnect(MuxOf(side)))
  /\ UNCHANGED <<wire, ended>>

\* The host closes the other end too; what it forwarded before still arrives.
PropagateClosure(side) ==
  /\ ~Live(MuxOf(side)) /\ wire[side] = None
  /\ Live(MuxOf(Other(side)))
  /\ ChangeSide(Other(side), Disconnect(MuxOf(Other(side))))
  /\ wire' = [wire EXCEPT ![Other(side)] = None]
  /\ UNCHANGED ended

\* A message for an end that closed is dropped with its loop.
DropMessage(side) ==
  /\ wire[side] # None /\ ~Live(MuxOf(Other(side)))
  /\ wire' = [wire EXCEPT ![side] = None]
  /\ UNCHANGED <<core, client, ended>>

-----------------------------------------------------------------------------

SendSomething ==
  \E id \in 1..MaxIds :
    \/ \E kind \in CoreSends : SendMessage("core", id, kind, None)
    \/ \E kind \in ClientSends : SendMessage("client", id, kind, None)
    \/ \E body \in OpenedBodies : SendMessage("client", id, "Opened", body)

Ports ==
  \E side \in Sides :
    \/ TakeMessage(side)
    \/ \E again \in BOOLEAN : Deliver(side, again)
    \/ LoseSide(side)
    \/ PropagateClosure(side)
    \/ DropMessage(side)

Next ==
  \/ \E r \in Requests :
       \/ RegisterRequest(r)
       \/ BeginRequest(r)
       \/ \E s \in Starters : StartStream(r, s.kind, s.body)
       \/ \E side \in Sides : CancelRequest(side, r) \/ FinishRequest(side, r)
  \/ SendSomething
  \/ \E side \in Sides : TakeAction(side) \/ Tick(side)
  \/ Ports

Spec == Init /\ [][Next]_vars

-----------------------------------------------------------------------------
(* Properties. *)

Breaks(side) ==
  LET item == wire[side]
      m == MuxOf(Other(side))
  IN  item # None /\ Live(m) /\ Faulty(m, item)

\* A message of one mux closes the other only for one of three reasons: it
\* starts or binds for a request the endpoint's host has already cancelled or
\* finished; it starts a stream while the endpoint still has its maximum, the
\* initiator having given one up; or it speaks of a stream whose queued Opened
\* a cancellation at the endpoint discarded (routing.rs:3-101, mod.rs:482).
BreaksExplained ==
  \A side \in Sides :
    Breaks(side) =>
      LET item == wire[side]
      IN  \/ side = "core" /\ ~LiveRequest(client, item.req)
          \/ Starts(item.kind) /\ Cardinality(DOMAIN client.routes) = MaxStreams
          \/ /\ side = "client" /\ ~LiveRequest(client, item.req)
             /\ item.id \in DOMAIN core.routes /\ core.routes[item.id].kind = "Opening"

\* The initiator's owner hears one end of a stream and nothing of it after
\* that, though the end may come from the peer, from its own deadline or from
\* a cancellation (mod.rs:530-600, routing.rs:86-99).
OneVerdict ==
  \A i \in DOMAIN core.actions :
    /\ core.actions[i].id \notin ended
    /\ \A j \in 1..(i - 1) :
         core.actions[j].id = core.actions[i].id => ~Terminal(core.actions[j].kind)

\* The end of a stream, once queued, is handed over unless the session closes:
\* no cancellation, finish or tick of any request discards it
\* (README.md: "A queued terminal survives sealing", mod.rs:126-148, 490-492).
KeepsTerminals(before, after) ==
  \A i \in DOMAIN before :
    Terminal(before[i].kind) =>
      \/ \E j \in DOMAIN after : after[j] = before[i]
      \/ i = 1 /\ after = Tail(before)

TerminalsKept ==
  [][\A side \in Sides :
       Live(MuxOf(side))' =>
         /\ KeepsTerminals(MuxOf(side).outbound, MuxOf(side).outbound')
         /\ KeepsTerminals(MuxOf(side).actions, MuxOf(side).actions')]_vars

=============================================================================
