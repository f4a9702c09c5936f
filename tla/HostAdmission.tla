---------------------------- MODULE HostAdmission ----------------------------
(***************************************************************************)
(* Admission to a local connection host: the retained-charge budget, the   *)
(* FIFO of waiting admissions, the slots, the claims between acquire and   *)
(* register, the registered bindings and their retirement, and the seal    *)
(* that races all of them (crates/gwz-connection/src/admission.rs,         *)
(* host/shared.rs, host/shared/admit.rs, exchange.rs, operation.rs).       *)
(*                                                                         *)
(* One step is one critical section of the host's mutex, or one atomic     *)
(* read-modify-write outside it; threads interleave between steps.  An     *)
(* admission, its future, its permit and its operation are one life, named *)
(* by an element of Op.  A future is polled when it is new or was woken.   *)
(***************************************************************************)
EXTENDS Integers, Sequences, FiniteSets, Functions

CONSTANTS
  Op,           \* the admissions made of this host
  Context,      \* authorization contexts
  ContextOf,    \* ContextOf[o]: the context o is prepared with
  Single,       \* the contexts that serve a single admission
  Charge,       \* Charge[o]: the retained charge of o's input
  AdmissionCharge, \* MAX_ADMISSION_CHARGE
  HostCharge,   \* MAX_HOST_CHARGE
  Slots,        \* HostLimits::active_slots
  Waiting,      \* HostLimits::waiting_admissions
  MaxSerial,    \* the last binding serial (u64::MAX - 1 in the code)
  MaxOpens      \* bound: exchanges one operation opens

ASSUME HostAssumption ==
  /\ IsFiniteSet(Op)
  /\ ContextOf \in [Op -> Context]
  /\ Single \subseteq Context
  /\ Charge \in [Op -> Nat] /\ AdmissionCharge \in Nat /\ HostCharge \in Nat
  /\ Slots \in Nat \ {0} /\ Waiting \in Nat \ {0}
  /\ MaxSerial \in Nat /\ MaxOpens \in Nat

VARIABLES
  \* HostState, under the host's mutex
  phase,      \* HostPhase
  queue,      \* the waiting admissions, oldest first
  waker,      \* the queued admissions whose Waiter holds a waker
  active,     \* slots in use
  claims,     \* admissions whose claim is in the table
  released,   \* claims a revocation took the slot of
  bindings,   \* admissions whose binding is in the table
  nextSerial, \* next_binding
  \* atomics
  charged,    \* the host's charge counter
  single,     \* the state of each single-admission context
  cancelled,  \* bindings cancelled
  sealed,     \* bindings sealed against new openings
  live,       \* live[o]: openings and exchanges of o's binding
  retired,    \* bindings whose retirement was won
  done,       \* bindings that reported their end
  \* control
  pc,         \* where each admission's life is
  woken,      \* futures the executor will poll
  expired,    \* admissions whose admission bound has passed
  checks,     \* checks[o]: threads about to call retire_if_done(o)
  \* history
  joined,     \* admissions in the order they joined the queue
  serial,     \* the binding serial each admission was granted, 0 before
  opens       \* exchanges opened so far

hostVars == <<phase, queue, waker, active, claims, released, bindings, nextSerial>>
chargeVars == <<charged, single>>
bindingVars == <<cancelled, sealed, live, retired, done, checks, opens>>
futureVars == <<pc, woken, expired, joined, serial>>
vars == <<hostVars, chargeVars, bindingVars, futureVars>>

Init ==
  /\ phase = "Open" /\ queue = <<>> /\ waker = {} /\ active = 0
  /\ claims = {} /\ released = {} /\ bindings = {} /\ nextSerial = 1
  /\ charged = 0 /\ single = [c \in Context |-> "free"]
  /\ cancelled = {} /\ sealed = {} /\ retired = {} /\ done = {}
  /\ live = [o \in Op |-> 0] /\ checks = [o \in Op |-> 0] /\ opens = [o \in Op |-> 0]
  /\ pc = [o \in Op |-> "new"] /\ woken = {} /\ expired = {}
  /\ joined = <<>> /\ serial = [o \in Op |-> 0]

Goto(o, label) == pc' = [pc EXCEPT ![o] = label]

\* The front waiter of q has its waker taken and called.
Foremost(q) == IF q = <<>> THEN {} ELSE {Head(q)}
WakeFront(q) ==
  /\ waker' = waker \ Foremost(q)
  /\ woken' = woken \cup (waker \cap Foremost(q))

\* queue.retain by id: an admission is queued once.
Without(q, o) ==
  IF o \in Range(q)
  THEN LET i == CHOOSE i \in DOMAIN q : q[i] = o
       IN  [k \in 1 .. Len(q) - 1 |-> q[IF k < i THEN k ELSE k + 1]]
  ELSE q

-----------------------------------------------------------------------------
(* HostShared::admit_input, in its three atomic parts. *)

IsSingle(o) == ContextOf[o] \in Single

\* AuthContext::take_claim
TakeClaim(o) ==
  /\ pc[o] = "new"
  /\ IF IsSingle(o) /\ single[ContextOf[o]] # "free"
     THEN Goto(o, "gone") /\ UNCHANGED single
     ELSE /\ Goto(o, "charging")
          /\ single' = IF IsSingle(o) THEN [single EXCEPT ![ContextOf[o]] = "held"] ELSE single
  /\ UNCHANGED <<hostVars, charged, bindingVars, woken, expired, joined, serial>>

\* Mutant: a consumed claim goes back as well.
FreeConsumedClaim(o) ==
  single' = IF IsSingle(o) THEN [single EXCEPT ![ContextOf[o]] = "free"] ELSE single

\* Drop for ClaimHold: the claim goes back unless it was consumed.
FreeClaim(o) ==
  single' = IF IsSingle(o) /\ single[ContextOf[o]] = "held"
            THEN [single EXCEPT ![ContextOf[o]] = "free"] ELSE single

\* Mutant: what was too much stays added.
ReserveChargeLeak(o) ==
  /\ pc[o] = "charging"
  /\ IF Charge[o] > AdmissionCharge
     THEN Goto(o, "gone") /\ FreeClaim(o) /\ UNCHANGED charged
     ELSE /\ charged' = charged + Charge[o]
          /\ IF charged + Charge[o] > HostCharge
             THEN Goto(o, "gone") /\ FreeClaim(o)
             ELSE Goto(o, "joining") /\ UNCHANGED single
  /\ UNCHANGED <<hostVars, bindingVars, woken, expired, joined, serial>>

\* HostShared::charge: added first, and given back when it was too much.
ReserveCharge(o) ==
  /\ pc[o] = "charging"
  /\ IF Charge[o] > AdmissionCharge
     THEN Goto(o, "gone") /\ FreeClaim(o) /\ UNCHANGED charged
     ELSE /\ charged' = charged + Charge[o]
          /\ Goto(o, IF charged + Charge[o] > HostCharge THEN "ending" ELSE "joining")
          /\ UNCHANGED single
  /\ UNCHANGED <<hostVars, bindingVars, woken, expired, joined, serial>>

Join(o) ==
  /\ pc[o] = "joining"
  /\ IF phase = "Open" /\ Len(queue) < Waiting
     THEN /\ queue' = Append(queue, o)
          /\ joined' = Append(joined, o)
          /\ woken' = woken \cup {o}
          /\ Goto(o, "waiting")
     ELSE Goto(o, "ending") /\ UNCHANGED <<queue, joined, woken>>
  /\ UNCHANGED <<phase, waker, active, claims, released, bindings, nextSerial,
                 chargeVars, bindingVars, expired, serial>>

\* Drop for ChargeGuard, once nothing holds the admission or its binding: the
\* charge goes back first, then the claim of a single-admission context.
EndCharge(o) ==
  /\ pc[o] = "ending" /\ checks[o] = 0
  /\ charged' = charged - Charge[o]
  /\ Goto(o, IF IsSingle(o) THEN "freeing" ELSE "gone")
  /\ UNCHANGED <<hostVars, single, bindingVars, woken, expired, joined, serial>>

EndClaim(o) ==
  /\ pc[o] = "freeing"
  /\ FreeClaim(o)
  /\ Goto(o, "gone")
  /\ UNCHANGED <<hostVars, charged, bindingVars, woken, expired, joined, serial>>

-----------------------------------------------------------------------------
(* LocalAcquire::poll. *)

Polled(o) == pc[o] = "waiting" /\ o \in woken

\* Mutant: whoever is polled takes the slot.
MayTakeAnyTurn(o) == phase = "Open" /\ active < Slots

MayTake(o) == phase = "Open" /\ Foremost(queue) = {o} /\ active < Slots

\* take_slot: Granted
Grant(o) ==
  /\ Polled(o) /\ MayTake(o) /\ nextSerial <= MaxSerial
  /\ queue' = Tail(queue)
  /\ waker' = waker \ {o}
  /\ active' = active + 1
  /\ claims' = claims \cup {o}
  /\ nextSerial' = nextSerial + 1
  /\ serial' = [serial EXCEPT ![o] = nextSerial]
  /\ woken' = woken \ {o}
  /\ Goto(o, "attaching")
  /\ UNCHANGED <<phase, released, bindings, chargeVars, bindingVars, expired, joined>>

\* take_slot: Exhausted or Closing
Refuse(o) ==
  /\ Polled(o)
  /\ phase # "Open" \/ (MayTake(o) /\ nextSerial > MaxSerial)
  /\ queue' = Without(queue, o)
  /\ waker' = waker \ {o}
  /\ woken' = woken \ {o}
  /\ Goto(o, "ending")
  /\ UNCHANGED <<phase, active, claims, released, bindings, nextSerial, chargeVars,
                 bindingVars, expired, joined, serial>>

\* take_slot: Wait, then the sleep of the admission bound.
Park(o) ==
  /\ Polled(o) /\ phase = "Open" /\ ~MayTake(o)
  /\ waker' = waker \cup {o}
  /\ woken' = woken \ {o}
  /\ IF o \in expired THEN Goto(o, "timing out") ELSE UNCHANGED pc
  /\ UNCHANGED <<phase, queue, active, claims, released, bindings, nextSerial,
                 chargeVars, bindingVars, expired, joined, serial>>

\* HostShared::dequeue, from a timed out poll or from a dropped future.
Dequeue(o) ==
  /\ pc[o] \in {"waiting", "timing out"}
  /\ queue' = Without(queue, o)
  /\ waker' = (waker \ {o}) \ Foremost(queue')
  /\ woken' = (woken \ {o}) \cup ((waker \ {o}) \cap Foremost(queue'))
  /\ Goto(o, "ending")
  /\ UNCHANGED <<phase, active, claims, released, bindings, nextSerial, chargeVars,
                 bindingVars, expired, joined, serial>>

TimeOut(o) == pc[o] = "timing out" /\ Dequeue(o)
DropAcquire(o) == pc[o] = "waiting" /\ Dequeue(o)

\* Mutant: the bound passes without a wake.
ExpireSilently(o) ==
  /\ pc[o] = "waiting" /\ o \notin expired
  /\ expired' = expired \cup {o}
  /\ UNCHANGED <<hostVars, chargeVars, bindingVars, pc, woken, joined, serial>>

\* The sleep wakes the future that polled it.
Expire(o) ==
  /\ pc[o] = "waiting" /\ o \notin expired
  /\ expired' = expired \cup {o}
  /\ woken' = woken \cup {o}
  /\ UNCHANGED <<hostVars, chargeVars, bindingVars, pc, joined, serial>>

-----------------------------------------------------------------------------
(* Between the slot and the registration. *)

\* HostShared::drop_claim
DropClaim(o) ==
  /\ claims' = claims \ {o}
  /\ released' = released \ {o}
  /\ active' = IF o \in claims \ released THEN active - 1 ELSE active
  /\ WakeFront(queue)
  /\ Goto(o, "ending")
  /\ UNCHANGED <<phase, queue, bindings, nextSerial, chargeVars, bindingVars,
                 expired, joined, serial>>

\* attach_profile and MuxPair::bootstrapped succeed: the permit exists.
Attach(o) ==
  /\ pc[o] = "attaching" /\ phase = "Open"
  /\ Goto(o, "permit")
  /\ UNCHANGED <<hostVars, chargeVars, bindingVars, woken, expired, joined, serial>>

\* They fail (closing, instance limit, factory error), or the permit is dropped.
GiveUp(o) == pc[o] \in {"attaching", "permit"} /\ DropClaim(o)

\* HostShared::publish, the authority transition of LocalPermit::register
Publish(o) ==
  /\ pc[o] = "permit" /\ o \in claims \ released /\ phase = "Open"
  /\ claims' = claims \ {o}
  /\ bindings' = bindings \cup {o}
  /\ Goto(o, IF IsSingle(o) THEN "consuming" ELSE "registered")
  /\ UNCHANGED <<phase, queue, waker, active, released, nextSerial, chargeVars,
                 bindingVars, woken, expired, joined, serial>>

\* ChargeGuard::consume_claim, after the host's lock was released
ConsumeClaim(o) ==
  /\ pc[o] = "consuming"
  /\ single' = [single EXCEPT ![ContextOf[o]] = "consumed"]
  /\ Goto(o, "registered")
  /\ UNCHANGED <<hostVars, charged, bindingVars, woken, expired, joined, serial>>

PublishRevoked(o) ==
  /\ pc[o] = "permit" /\ ~(o \in claims \ released /\ phase = "Open")
  /\ DropClaim(o)

-----------------------------------------------------------------------------
(* A registered operation. *)

\* Operation::open and Live::new
Open(o) ==
  /\ pc[o] = "registered"
  /\ o \notin cancelled /\ opens[o] < MaxOpens
  /\ live' = [live EXCEPT ![o] = @ + 1]
  /\ opens' = [opens EXCEPT ![o] = @ + 1]
  /\ UNCHANGED <<hostVars, chargeVars, cancelled, sealed, retired, done, checks, futureVars>>

\* Mutant: the last exchange ends without trying to retire the binding.
EndLiveQuietly(o) ==
  /\ live[o] > 0
  /\ live' = [live EXCEPT ![o] = @ - 1]
  /\ UNCHANGED <<hostVars, chargeVars, cancelled, sealed, retired, done, checks, opens, futureVars>>

\* Drop for Live, up to its retire_if_done
EndLive(o) ==
  /\ live[o] > 0
  /\ live' = [live EXCEPT ![o] = @ - 1]
  /\ checks' = [checks EXCEPT ![o] = @ + 1]
  /\ UNCHANGED <<hostVars, chargeVars, cancelled, sealed, retired, done, opens, futureVars>>

\* OperationCancel::cancel, or a rejected frame.  The cancel looks at retired
\* before it swaps cancelled, so it may land after the retirement.
CancelBinding(o) ==
  /\ o \in bindings \/ (pc[o] = "ending" /\ o \in retired)
  /\ cancelled' = cancelled \cup {o}
  /\ UNCHANGED <<hostVars, chargeVars, sealed, live, retired, done, checks, opens, futureVars>>

\* Operation::finish, or its drop, which cancels first
Finish(o) ==
  /\ pc[o] = "registered"
  /\ sealed' = sealed \cup {o}
  /\ cancelled' \in {cancelled, cancelled \cup {o}}
  /\ checks' = [checks EXCEPT ![o] = @ + 1]
  /\ Goto(o, "finished")
  /\ UNCHANGED <<hostVars, chargeVars, live, retired, done, opens, woken, expired, joined, serial>>

\* Mutant: a sealed binding retires under its live exchanges.
WinRetirementEarly(o) ==
  /\ checks[o] > 0
  /\ checks' = [checks EXCEPT ![o] = @ - 1]
  /\ IF o \in sealed /\ o \notin retired
     THEN retired' = retired \cup {o} /\ Goto(o, "retiring")
     ELSE UNCHANGED <<retired, pc>>
  /\ UNCHANGED <<hostVars, chargeVars, cancelled, sealed, live, done, opens, woken,
                 expired, joined, serial>>

\* retire_if_done: the loads and the swap.  Once sealed, live only falls, so
\* they may be taken together.
WinRetirement(o) ==
  /\ checks[o] > 0
  /\ checks' = [checks EXCEPT ![o] = @ - 1]
  /\ IF o \in sealed /\ live[o] = 0 /\ o \notin retired
     THEN retired' = retired \cup {o} /\ Goto(o, "retiring")
     ELSE UNCHANGED <<retired, pc>>
  /\ UNCHANGED <<hostVars, chargeVars, cancelled, sealed, live, done, opens, woken,
                 expired, joined, serial>>

\* retire_if_done: the table, the slot, the wake and the report
Retire(o) ==
  /\ pc[o] = "retiring"
  /\ bindings' = bindings \ {o}
  /\ active' = IF o \in bindings THEN active - 1 ELSE active
  /\ WakeFront(queue)
  /\ done' = done \cup {o}
  /\ Goto(o, "ending")
  /\ UNCHANGED <<phase, queue, claims, released, nextSerial, chargeVars, cancelled,
                 sealed, live, retired, checks, opens, expired, joined, serial>>

-----------------------------------------------------------------------------
(* HostShared::seal, whatever asked for it, and the end of its close job. *)

\* Mutant: the revoked claims are not marked as released.
SealForgetful ==
  /\ phase = "Open"
  /\ phase' = "Closing"
  /\ active' = active - Cardinality(claims \ released)
  /\ cancelled' = cancelled \cup bindings
  /\ queue' = <<>>
  /\ waker' = {}
  /\ woken' = woken \cup waker
  /\ UNCHANGED <<claims, released, bindings, nextSerial, chargeVars, sealed, live,
                 retired, done, checks, opens, pc, expired, joined, serial>>

Seal ==
  /\ phase = "Open"
  /\ phase' = "Closing"
  /\ released' = claims
  /\ active' = active - Cardinality(claims \ released)
  /\ cancelled' = cancelled \cup bindings
  /\ queue' = <<>>
  /\ waker' = {}
  /\ woken' = woken \cup waker
  /\ UNCHANGED <<claims, bindings, nextSerial, chargeVars, sealed, live, retired,
                 done, checks, opens, pc, expired, joined, serial>>

CloseJobDone ==
  /\ phase = "Closing"
  /\ phase' = "Closed"
  /\ UNCHANGED <<queue, waker, active, claims, released, bindings, nextSerial,
                 chargeVars, bindingVars, futureVars>>

-----------------------------------------------------------------------------

Step(o) ==
  \/ TakeClaim(o) \/ ReserveCharge(o) \/ Join(o) \/ EndCharge(o) \/ EndClaim(o)
  \/ Grant(o) \/ Refuse(o) \/ Park(o) \/ TimeOut(o) \/ DropAcquire(o) \/ Expire(o)
  \/ Attach(o) \/ GiveUp(o) \/ Publish(o) \/ ConsumeClaim(o) \/ PublishRevoked(o)
  \/ Open(o) \/ EndLive(o) \/ CancelBinding(o) \/ Finish(o)
  \/ WinRetirement(o) \/ Retire(o)

Next == (\E o \in Op : Step(o)) \/ Seal \/ CloseJobDone

Spec == Init /\ [][Next]_vars

\* The executor polls what was woken, sleeps end, and a call that has begun
\* runs to its end; no one has to give up, finish, cancel or seal.
Fairness ==
  \A o \in Op :
    /\ WF_vars(Grant(o) \/ Refuse(o) \/ Park(o))
    /\ WF_vars(Expire(o))
    /\ WF_vars(TimeOut(o))

FairSpec == Spec /\ Fairness

-----------------------------------------------------------------------------
(* Properties. *)

Label == {"new", "charging", "joining", "waiting", "timing out", "attaching",
          "permit", "consuming", "registered", "finished", "retiring", "ending",
          "freeing", "gone"}

TypeOK ==
  /\ phase \in {"Open", "Closing", "Closed"}
  /\ queue \in Seq(Op) /\ joined \in Seq(Op)
  /\ waker \subseteq Op /\ woken \subseteq Op /\ expired \subseteq Op
  /\ active \in Nat
  /\ claims \subseteq Op /\ released \subseteq Op /\ bindings \subseteq Op
  /\ nextSerial \in Nat /\ serial \in [Op -> Nat]
  /\ charged \in Nat
  /\ single \in [Context -> {"free", "held", "consumed"}]
  /\ cancelled \subseteq Op /\ sealed \subseteq Op
  /\ retired \subseteq Op /\ done \subseteq Op
  /\ live \in [Op -> Nat] /\ checks \in [Op -> Nat] /\ opens \in [Op -> Nat]
  /\ pc \in [Op -> Label]

\* Every slot in use belongs to exactly one unrevoked claim or one registered
\* binding, and there are no more than active_slots: whatever order seal,
\* drop_claim, publish and retire_if_done come in, a slot is given back once,
\* and the usize counter never goes below zero.
SlotsExact ==
  /\ active = Cardinality(claims \ released) + Cardinality(bindings)
  /\ active <= Slots

\* The charge counter is the sum of the charges held, so nothing leaks or is
\* given back twice, and what is admitted together never exceeds the budget.
ChargeExact ==
  LET Held == {o \in Op : pc[o] \notin {"new", "charging", "freeing", "gone"}}
  IN  /\ charged = SumFunctionOnSet(Charge, Held)
      /\ SumFunctionOnSet(Charge, {o \in Held : pc[o] # "ending"}) <= HostCharge

\* A single-admission context serves one admission at a time, at most one
\* registration ever, and is free again exactly when its holder ended without
\* registering.
SingleAdmission ==
  \A c \in Single :
    LET Users == {o \in Op : ContextOf[o] = c /\ pc[o] \notin {"new", "gone"}}
        Bound == {o \in Op : ContextOf[o] = c /\ o \in bindings \cup retired}
    IN  /\ Cardinality(Users) <= 1
        /\ Cardinality(Bound) <= 1
        /\ Bound # {} => single[c] # "free"
        /\ single[c] = "free" => Users = {}
        /\ single[c] = "held" => Users # {}

\* Slots are granted in the order the admissions joined the queue, and no
\* binding serial is ever given out twice.
GrantedInOrder ==
  \A i, j \in DOMAIN joined :
    i < j /\ serial[joined[j]] # 0 =>
      \/ 0 < serial[joined[i]] /\ serial[joined[i]] < serial[joined[j]]
      \/ serial[joined[i]] = 0 /\ pc[joined[i]] \in {"ending", "freeing", "gone"}

\* Ends are final.  Once the host is sealed no binding is added: a registration
\* happened before the seal, and its binding is cancelled, or it finds its claim
\* revoked (seal, publish).  An operation's end is won only once everything of it
\* has ended, nothing can be opened on it again, and it is reported only when its
\* slot is back (retire_if_done).
EndIsFinal ==
  /\ phase # "Open" => bindings \subseteq cancelled /\ claims \subseteq released
  /\ \A o \in retired :
       /\ o \in sealed /\ live[o] = 0
       /\ o \in done => o \notin bindings

\* Sealed and quiet, every registered operation retires: none of the calls of
\* retire_if_done that race is the one that should have done it and did not.
NoForgottenBinding ==
  \A o \in Op :
    o \in sealed /\ live[o] = 0 /\ checks[o] = 0 => o \in retired

\* No admission waits for ever: it is granted, refused or timed out.
AdmissionEnds ==
  \A o \in Op : pc[o] = "waiting" ~> pc[o] # "waiting"

\* "acquire waits for a slot in FIFO order" (admission.rs), and whatever frees a
\* slot or the front of the queue "wakes the next waiter" (admit.rs): the oldest
\* waiter is never left parked, unwoken, while the open host has a free slot.
FreeSlotWakesNext ==
  phase = "Open" /\ active < Slots /\ queue # <<>> =>
    Head(queue) \in woken \/ pc[Head(queue)] # "waiting"
=============================================================================
