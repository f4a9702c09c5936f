------------------------------- MODULE Instance -------------------------------
(***************************************************************************)
(* The callers of one endpoint instance, its adapter, the driver and the   *)
(* host's seal, over InstanceMachine (src/crates/gwz-connection/src:       *)
(* exchange.rs, instance/owner.rs, host/shared.rs, pump.rs).  What happens *)
(* under the instance's lock is one step; what a caller reads or does      *)
(* outside it, a binding's flags and its slot, is a step of its own or, as *)
(* a flag is only ever raised, a choice between the value now and before.  *)
(***************************************************************************)
EXTENDS InstanceMachine

CONSTANTS
  Exchanges,   \* <<binding, number>>
  Asked,       \* the exchange every opening asks for: [key, identity]
  Bound,       \* the bindings whose exchanges authenticate their connection
  Outcomes,    \* how connects end, of those Connected knows
  ReuseVerdicts,   \* how reuse proofs end
  Ends,        \* how poll_finish ends
  Courses,     \* what a behaviour may meet: [exchanges, events, maxTime]
  MaxNews      \* the completions the adapter has ready at most

VARIABLES
  inst,        \* what the instance's lock guards, and the adapter
  handle,      \* what the caller has of each exchange: [at, lease]
  sweeping,    \* bindings flagged as cancelled and not yet swept
  phase,       \* of the host: "open", then the steps of its seal
  affinity,    \* binding -> the connection it prefers
  calm,        \* no connection was lost or broken, and the clock never jumped
  course

vars == <<inst, handle, sweeping, phase, affinity, calm, course>>

Bindings == {BindingOf(x) : x \in Exchanges}
Has(at) == [at |-> at, lease |-> None]

Init ==
  /\ inst = NewInstance
  /\ handle = [x \in Exchanges |-> Has("none")]
  /\ sweeping = {}
  /\ phase = "open"
  /\ affinity = [b \in Bindings |-> None]
  /\ calm = TRUE
  /\ course \in Courses

May(event) == event \in course.events

Becomes(x, next, at) ==
  /\ inst' = next
  /\ handle' = [handle EXCEPT ![x] = at]
  /\ UNCHANGED <<sweeping, phase, calm, course>>

-----------------------------------------------------------------------------
(* Callers. *)

\* Operation::open: a binding's exchanges are numbered.
Open(x) ==
  /\ handle[x].at = "none" /\ x \in course.exchanges
  /\ x[2] > 1 => handle[<<x[1], x[2] - 1>>].at # "none"
  /\ BindingOf(x) \notin inst.cancelled
  /\ Becomes(x, inst, Has("opening"))
  /\ UNCHANGED affinity

Prefer(x) == affinity[BindingOf(x)]

\* LocalOpening::wait, its flags read before.
Wait(x) ==
  /\ handle[x].at = "opening"
  /\ \/ MaySubmit(inst, x, Asked, Prefer(x))
        /\ Becomes(x, Submit(inst, x, Asked, Prefer(x)), Has("waiting"))
     \/ ~MaySubmit(inst, x, Asked, Prefer(x))
        /\ Becomes(x, SubmitRefused(inst, x, Asked), Has("over"))
  /\ UNCHANGED affinity

\* The same, or the drop of the opening, refused.
WaitRefused(x) ==
  /\ handle[x].at = "opening"
  /\ BindingOf(x) \in inst.cancelled
  /\ Becomes(x, inst, Has("over"))
  /\ UNCHANGED affinity

\* LocalOpenWait::poll, its flags read before: the slot is taken.
PollWait(x) ==
  LET slot == inst.slots[x]
  IN  /\ handle[x].at = "waiting"
      /\ slot.at = "filled"
      /\ Becomes(x, [inst EXCEPT !.slots = Without(@, x)],
                 IF slot.lease = None THEN Has("over")
                 ELSE [at |-> "exchange", lease |-> slot.lease])
      /\ UNCHANGED affinity

\* The drop of LocalOpenWait: the slot first, then the instance.
DropWait(x) ==
  /\ handle[x].at = "waiting" /\ May("Drop")
  /\ Becomes(x, [inst EXCEPT !.slots[x] = Abandoned(@.lease)], Has("dropping"))
  /\ UNCHANGED affinity

DropWaitLocked(x) ==
  /\ handle[x].at = "dropping"
  /\ Becomes(x, AbandonOpening(inst, x), Has("over"))
  /\ UNCHANGED affinity

\* sample_affinity.
Sample(x) ==
  IF BindingOf(x) \in Bound
  THEN [affinity EXCEPT ![BindingOf(x)] = handle[x].lease.connection] ELSE affinity

\* poll_read, at the first byte of the response.
ReadFirst(x) ==
  /\ handle[x].at = "exchange"
  /\ affinity' = Sample(x)
  /\ affinity' # affinity
  /\ UNCHANGED <<inst, handle, sweeping, phase, calm, course>>

\* Exchange::finish, the flag read before.
FinishExchange(x) ==
  /\ handle[x].at = "exchange"
  /\ affinity' = Sample(x)
  /\ Becomes(x, SettleExchange(inst, x, handle[x].lease), Has("over"))

FinishCancelled(x) ==
  /\ handle[x].at = "exchange"
  /\ BindingOf(x) \in inst.cancelled
  /\ Becomes(x, DiscardExchange(inst, x, handle[x].lease), Has("over"))
  /\ UNCHANGED affinity

\* Exchange::abort, or its drop.
AbortExchange(x) ==
  /\ handle[x].at = "exchange" /\ May("Drop")
  /\ Becomes(x, GiveBack(inst, x, handle[x].lease), Has("over"))
  /\ UNCHANGED affinity

\* cancel_binding: the flag, then the sweep.
CancelFlag(b) ==
  /\ b \notin inst.cancelled /\ May("Cancel")
  /\ inst' = [inst EXCEPT !.cancelled = @ \cup {b}]
  /\ sweeping' = sweeping \cup {b}
  /\ UNCHANGED <<handle, phase, affinity, calm, course>>

CancelSweep(b) ==
  /\ b \in sweeping
  /\ inst' = CancelOwnedBy(inst, b)
  /\ sweeping' = sweeping \ {b}
  /\ UNCHANGED <<handle, phase, affinity, calm, course>>

-----------------------------------------------------------------------------
(* The host. *)

HostBecomes(from, to, next) ==
  /\ phase = from
  /\ phase' = to
  /\ inst' = next
  /\ UNCHANGED <<handle, sweeping, affinity, calm, course>>

\* HostShared::seal: the bindings' flags, the pool, what is in flight, the adapter.
SealFlags == May("Seal") /\ HostBecomes("open", "flagged", [inst EXCEPT !.cancelled = Bindings])
SealStop == HostBecomes("flagged", "stopped", StopPool(inst))
SealFail == HostBecomes("stopped", "failed", FailInFlight(inst))
SealTake == HostBecomes("failed", "taken", TakeAdapter(inst))

\* The retirement of an instance that no binding holds.
Retire ==
  /\ May("Retire")
  /\ \A x \in course.exchanges : handle[x].at = "over"
  /\ sweeping = {}
  /\ Unbound(inst)
  /\ HostBecomes("open", "taken", RetireInstance(inst))

DisposeAdapter == HostBecomes("taken", "disposed", Disposed(inst))

Internal(next) ==
  /\ inst' = next
  /\ UNCHANGED <<handle, sweeping, phase, affinity, calm, course>>

\* A pass of the driver, until the host is sealed.
Drive ==
  /\ phase = "open"
  /\ Internal(Pump(inst))

-----------------------------------------------------------------------------
(* The adapter, the clock. *)

Tells(next, news) ==
  /\ Len(inst.news) < MaxNews
  /\ Internal([next EXCEPT !.news = Append(@, news)])

\* A connect ends, cancelled or not.
ConnectEnds(c, result) ==
  /\ inst.adapter
  /\ c \in DOMAIN inst.held /\ inst.held[c] = "connecting"
  /\ Tells([inst EXCEPT !.held = IF result = "Failed" THEN Without(@, c)
                                 ELSE Put(@, c, "open")],
           [kind |-> "Connected", connection |-> c, result |-> result])

CloseDone(c) ==
  /\ inst.adapter
  /\ c \in inst.told
  /\ Tells([inst EXCEPT !.held = Without(@, c), !.told = @ \ {c}],
           [kind |-> "Closed", connection |-> c])

ProofEnds(p, verdict) ==
  /\ inst.adapter
  /\ p \in DOMAIN inst.proofs /\ inst.proofs[p].verdict = None
  /\ Tells([inst EXCEPT !.proofs[p].verdict = verdict],
           [kind |-> "Reuse", connection |-> inst.proofs[p].connection, proof |-> p,
            verdict |-> verdict])

\* poll_finish will be ready.
FinishReady(x, disposition) ==
  /\ x \in DOMAIN inst.io /\ inst.io[x].end = "ending"
  /\ Internal([inst EXCEPT !.io[x].end = disposition])

Disturbs(what, next) ==
  /\ calm /\ calm' = FALSE
  /\ Len(inst.news) < MaxNews
  /\ May(what)
  /\ inst' = next
  /\ UNCHANGED <<handle, sweeping, phase, affinity, course>>

Quiet(c) == \A x \in DOMAIN inst.io : inst.io[x].connection # c

\* A connection no exchange runs on is lost.
IdleLost(c) ==
  /\ inst.adapter
  /\ c \in DOMAIN inst.held \ inst.told /\ inst.held[c] = "open"
  /\ Quiet(c)
  /\ Disturbs("IdleLost", [inst EXCEPT !.held = Without(@, c),
                             !.news = Append(@, [kind |-> "IdleClosed", connection |-> c])])

\* The next exchange will not start on it.
Break(c) ==
  /\ c \in DOMAIN inst.held /\ inst.held[c] = "open"
  /\ Disturbs("Break", [inst EXCEPT !.held[c] = "broken"])

\* A suspend, or a jump of the wall clock.
EpochJump == Disturbs("EpochJump", [inst EXCEPT !.jumped = TRUE])

Tick ==
  /\ inst.clock < course.maxTime
  /\ Internal([inst EXCEPT !.clock = @ + 1])

-----------------------------------------------------------------------------

Caller(x) ==
  \/ Open(x) \/ Wait(x) \/ WaitRefused(x) \/ PollWait(x)
  \/ DropWait(x) \/ DropWaitLocked(x)
  \/ ReadFirst(x) \/ FinishExchange(x) \/ FinishCancelled(x) \/ AbortExchange(x)

Host == SealFlags \/ SealStop \/ SealFail \/ SealTake \/ Retire \/ DisposeAdapter \/ Drive

Adapter ==
  \/ \E c \in DOMAIN inst.held :
       \/ IdleLost(c) \/ Break(c)
       \/ \E result \in Outcomes : ConnectEnds(c, result)
  \/ \E c \in inst.told : CloseDone(c)
  \/ \E p \in DOMAIN inst.proofs, verdict \in ReuseVerdicts : ProofEnds(p, verdict)
  \/ \E x \in DOMAIN inst.io, disposition \in Ends : FinishReady(x, disposition)

Next ==
  \/ \E x \in Exchanges : Caller(x)
  \/ \E b \in Bindings : CancelFlag(b) \/ CancelSweep(b)
  \/ Host
  \/ Adapter
  \/ EpochJump
  \/ Tick

Spec == Init /\ [][Next]_vars

-----------------------------------------------------------------------------
(* Properties. *)

\* Who has the lease: a proof, a finished exchange, a slot, a caller.
Owners(lease) ==
  {<<"proof", n>> : n \in {m \in DOMAIN inst.authorizing : inst.authorizing[m].lease = lease}}
  \cup {<<"end", n>> : n \in {m \in DOMAIN inst.settling : inst.settling[m].lease = lease}}
  \cup {<<"slot", x>> : x \in {y \in DOMAIN inst.slots : inst.slots[y].lease = lease}}
  \cup {<<"caller", x>> : x \in {y \in Exchanges : handle[y].lease = lease}}

\* Every lease taken from the pool is in exactly one hand, whatever was
\* abandoned, cancelled, expired, refused or sealed meanwhile: none leaks, so
\* its connection is not kept for good, and none is given back twice
\* (instance/leasing.rs, instance/proofs.rs, exchange.rs LeaseGuard).
LeaseOwned ==
  \A c \in Entries(inst.pool, "Leased") :
    LET state == inst.pool.entries[c].state
    IN  Cardinality(Owners(state.lease)) = IF state.request = None THEN 1 ELSE 0

\* An exchange starts on a connection another binding used last only if the
\* adapter authorized it by the proof minted for this opening, for this binding
\* and this connection; a late verdict of another proof starts nothing
\* (instance/proofs.rs reused, instance/leasing.rs openings).
ReuseProven ==
  \A x \in DOMAIN inst.started :
    LET s == inst.started[x]
    IN  s.last \notin {None, BindingOf(x)} =>
          /\ s.proof # None
          /\ inst.proofs[s.proof] = [connection |-> s.connection, binding |-> BindingOf(x),
                                     verdict |-> "Authorized"]

\* A confirmed ticket, and a receipt of a discarded exchange that says its
\* cleanup is complete, are true: the adapter has nothing of the connection
\* (instance/state.rs report, resolve_ending, take_adapter, disposal.rs).
ReceiptsTrue ==
  /\ \A c \in DOMAIN inst.tickets : inst.tickets[c] = "Confirmed" => c \notin DOMAIN inst.held
  /\ \A x \in DOMAIN inst.ends :
       inst.ends[x].disposition = "Discarded" /\ inst.ends[x].complete =>
         inst.started[x].connection \notin DOMAIN inst.held

Asks(x) ==
  {<<"request", n>> : n \in {m \in DOMAIN inst.openings : inst.openings[m].x = x}}
  \cup {<<"proof", n>> : n \in {m \in DOMAIN inst.authorizing : inst.authorizing[m].pending.x = x}}

\* A caller that waits for its exchange is never forgotten: as long as its slot
\* is empty it has one request in the pool or one proof under way, through every
\* misfit, lost lease and refused resubmission (instance/leasing.rs).
NoOpeningLost ==
  /\ \A x \in Exchanges :
       handle[x].at = "waiting" /\ inst.slots[x] = Empty => Cardinality(Asks(x)) = 1
  /\ \A n \in DOMAIN inst.openings : inst.openings[n].request \in DOMAIN inst.pool.requests

\* Neither a lease nor a caller falls between the pool, the proofs and the slots.
NothingLost == LeaseOwned /\ NoOpeningLost

\* Cancelling a binding closes no connection that another binding used last: a
\* proof of it that is under way gives the connection back to idle
\* (exchange.rs cancel_binding, instance/proofs.rs cancel_authorizing).
CancelSparesOthers ==
  [][\A b \in Bindings : CancelSweep(b) =>
       \A n \in DOMAIN inst.authorizing :
         LET c == inst.authorizing[n].lease.connection
         IN  ~At(inst.pool, c, "Closing") /\ phase = "open" /\ ~inst.jumped
             /\ inst.news = <<>> /\ inst.pool.now = inst.clock
             => ~At(inst'.pool, c, "Closing")]_vars
=============================================================================
