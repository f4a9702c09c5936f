--------------------------- MODULE InstanceMachine ---------------------------
(***************************************************************************)
(* An endpoint instance: one adapter, the pool of its connections, and the *)
(* openings, reuse proofs and finished exchanges in flight on them         *)
(* (src/crates/gwz-connection/src/instance).  Every critical section of    *)
(* the instance's lock ends in `pump`, so the operators map the whole of   *)
(* what the lock guards, and what a pump reaches, to its next value.       *)
(*                                                                         *)
(* An exchange is <<binding, number>>.  Ids are numbers in order of        *)
(* creation; a cleanup ticket is named by its connection.                  *)
(*                                                                         *)
(* The adapter is external: `held` is what it has of each connection,      *)
(* `told` the closes it has yet to answer, `news` the completions it has   *)
(* ready, `proofs` the reuse proofs it was asked for and `io` its          *)
(* exchanges.  It may answer a proof or a connect that was cancelled, so   *)
(* cancel_reuse and cancel_connect leave no trace.                         *)
(***************************************************************************)
EXTENDS PoolMachine

CONSTANTS
  Scope,        \* binding -> the scope of its authentication context
  Provers,      \* the bindings the adapter starts reuse proofs for
  Limits,       \* the Capacity every request of a binding carries
  MaxExcluded   \* MAX_EXCLUDED

BindingOf(x) == x[1]
OwnerOf(b) == [session |-> b, operation |-> b]

\* A slot, with the lease of the exchange in it.
Empty == [at |-> "empty", lease |-> None]
Filled(lease) == [at |-> "filled", lease |-> lease]
Abandoned(lease) == [at |-> "abandoned", lease |-> lease]

\* Instance::new, with what surrounds it.
NewInstance ==
  [pool |-> NewPool, clock |-> 0, jumped |-> FALSE, adapter |-> TRUE,
   openings |-> <<>>, authorizing |-> <<>>, settling |-> <<>>, ending |-> <<>>,
   connections |-> <<>>, tokens |-> <<>>, nextToken |-> 0, nextProof |-> 0,
   held |-> <<>>, told |-> {}, news |-> <<>>, proofs |-> <<>>, io |-> <<>>, taken |-> {},
   slots |-> <<>>, ends |-> <<>>, tickets |-> <<>>, cleanups |-> <<>>,
   started |-> <<>>, cancelled |-> {}]

-----------------------------------------------------------------------------
(* Tickets and receipts (state.rs, binding.rs). *)

\* Cleanups::note: confirmed tickets go at the next note.
Note(i, b, c) ==
  LET known == IF b \in DOMAIN i.cleanups THEN i.cleanups[b] ELSE {}
  IN  [i EXCEPT !.cleanups =
         Put(@, b, {t \in known \cup {c} : i.tickets[t] = "Pending"})]

HasTicket(i, c) == At(i.pool, c, "Closing") /\ c \in DOMAIN i.connections

\* closing_ticket: made when a receipt first has to wait for the disposal.
ClosingTicket(i, c) ==
  IF HasTicket(i, c) /\ c \notin DOMAIN i.tickets
  THEN [i EXCEPT !.tickets = Put(@, c, "Pending")] ELSE i

\* Cell::set, with an ExchangeEnd: the first value wins.
SetEnd(i, x, disposition, complete) ==
  IF x \in DOMAIN i.ends THEN i
  ELSE [i EXCEPT !.ends = Put(@, x, [disposition |-> disposition, complete |-> complete])]

\* report: at once if the connection stays, else when its disposal is known.
Report(i, x, c, disposition) ==
  IF ~HasTicket(i, c) THEN SetEnd(i, x, disposition, TRUE)
  ELSE [Note(ClosingTicket(i, c), BindingOf(x), c) EXCEPT !.ending =
              Append(@, [connection |-> c, x |-> x, disposition |-> disposition,
                         deadline |-> i.clock + CleanupTimeout])]

\* resolve_ending.
ResolveEnding(i, all) ==
  LET confirmed(item) == i.tickets[item.connection] = "Confirmed"
      due(item) == confirmed(item) \/ all \/ i.clock >= item.deadline
      set(j, item) == SetEnd(j, item.x, item.disposition, confirmed(item))
  IN  [FoldLeft(set, i, SelectSeq(i.ending, due))
         EXCEPT !.ending = SelectSeq(i.ending, LAMBDA item : ~due(item))]

\* Mutant: a connection is taken for disposed when its close was asked for.
ConfirmTold(i, C) ==
  [i EXCEPT !.connections = [c \in DOMAIN @ \ C |-> @[c]],
            !.tickets = [c \in DOMAIN @ |-> IF c \in C \cup i.told THEN "Confirmed" ELSE @[c]]]

\* The adapter has disposed of C: whatever ended them confirms their tickets.
Confirm(i, C) ==
  [i EXCEPT !.connections = [c \in DOMAIN @ \ C |-> @[c]],
            !.tickets = [c \in DOMAIN @ |-> IF c \in C THEN "Confirmed" ELSE @[c]]]

-----------------------------------------------------------------------------
(* Scope tokens (state.rs). *)

TokenOf(i, b) ==
  IF Scope[b] \in DOMAIN i.tokens THEN i.tokens[Scope[b]] ELSE i.nextToken

\* pool_identity: an HTTPS request is scoped.
PoolIdentity(i, spec, b) ==
  IF spec.key.scheme = "Https" THEN <<"scope", TokenOf(i, b)>> ELSE spec.identity

TakeToken(i, spec, b) ==
  IF spec.key.scheme # "Https" \/ Scope[b] \in DOMAIN i.tokens THEN i
  ELSE [i EXCEPT !.tokens = Put(@, Scope[b], i.nextToken), !.nextToken = @ + 1]

\* prune_scope_tokens.
PruneScopeTokens(i) ==
  LET used == {i.connections[c].scope : c \in DOMAIN i.connections}
              \cup {Scope[BindingOf(i.openings[n].x)] : n \in DOMAIN i.openings}
              \cup {Scope[BindingOf(i.authorizing[n].pending.x)] : n \in DOMAIN i.authorizing}
  IN  [i EXCEPT !.tokens = [s \in DOMAIN @ \cap used |-> @[s]]]

-----------------------------------------------------------------------------
(* Slots and the pool's requests (cell.rs, leasing.rs). *)

\* Slot::fill, which fails when the waiter has gone.
CanFill(i, x) == i.slots[x] = Empty
Fill(i, x, lease) ==
  IF CanFill(i, x) THEN [i EXCEPT !.slots[x] = Filled(lease)] ELSE i

FailSlot(i, x) == Fill(i, x, None)

ReleaseLease(i, lease, reusable) == [i EXCEPT !.pool = Release(@, lease, reusable)]
ReturnLease(i, lease) == [i EXCEPT !.pool = ReleaseUnused(@, lease)]

\* request_until for an opening, within the deadline it was given at submit.
AskPool(i, pending, req) ==
  IF MayRequest(i.pool, req, pending.deadline)
  THEN [i EXCEPT !.pool = RequestUntil(@, req, pending.deadline),
                 !.openings = Append(@, [pending EXCEPT
                   !.request = i.pool.requestSerial + 1])]
  ELSE FailSlot(i, pending.x)

RefusedForCancelled(i, pending) == BindingOf(pending.x) \in i.cancelled

\* ask_again: without every connection that could not serve it.
AskAgain(i, pending, bounced) ==
  LET excluded == pending.excluded \cup bounced
      few == Cardinality(excluded) <= MaxExcluded
  IN  IF RefusedForCancelled(i, pending) THEN FailSlot(i, pending.x)
      ELSE AskPool(i, [pending EXCEPT !.excluded = excluded],
                   [pending.template EXCEPT !.exclude = IF few THEN excluded ELSE {},
                                            !.fresh = ~few])

\* ask_fresh.
AskFresh(i, pending) ==
  IF RefusedForCancelled(i, pending) THEN FailSlot(i, pending.x)
  ELSE AskPool(i, [pending EXCEPT !.excluded = {}],
               [pending.template EXCEPT !.fresh = TRUE, !.exclude = {}])

\* misfit_bound.
MisfitBound == Max({Config.perUserHost, Limits.perUserHost}) + 1

\* lost_lease: the connection is gone; asked again, a bounded number of times.
LostLease(i, pending) ==
  LET counted == [pending EXCEPT !.misfits = @ + 1]
  IN  IF counted.misfits > MisfitBound THEN FailSlot(i, pending.x)
      ELSE AskAgain(i, counted, {})

-----------------------------------------------------------------------------
(* Starting exchanges and proofs (leasing.rs, proofs.rs). *)

\* start_exchange_checked: gone, refused with an error, or started.
Starts(i, c) == i.adapter /\ c \in DOMAIN i.held /\ i.held[c] = "open"
Gone(i, c) == i.adapter /\ c \notin DOMAIN i.held

Begin(i, pending, lease, proof) ==
  LET c == lease.connection
      last == i.connections[c].lessee
  IN  [i EXCEPT
         !.connections = IF c \in DOMAIN @ THEN [@ EXCEPT ![c].lessee = BindingOf(pending.x)]
                         ELSE @,
         !.io = Put(@, pending.x, [connection |-> c, end |-> None]),
         !.started = Put(@, pending.x, [connection |-> c, proof |-> proof,
                                        last |-> IF c \in DOMAIN i.connections THEN last ELSE None])]

\* serve: the exchange goes to the slot, or ends with the opening that left.
Serve(i, pending, lease, proof) ==
  LET x == pending.x
      begun == Begin(i, pending, lease, proof)
      discarded == ReleaseLease(i, lease, FALSE)
  IN  CASE Starts(i, lease.connection) ->
             IF CanFill(i, x) THEN Fill(begun, x, lease)
             ELSE ReleaseLease([begun EXCEPT !.io = Without(@, x)], lease, FALSE)
        [] Gone(i, lease.connection) -> LostLease(discarded, pending)
        [] OTHER -> FailSlot(discarded, x)

\* end_authorizing: the lease goes back to idle, unused.
EndAuthorizing(i, item) == FailSlot(ReturnLease(i, item.lease), item.pending.x)

\* The openings waiting for a proof that satisfy P end.
EndEach(i, P(_)) ==
  [FoldLeft(EndAuthorizing, i, SelectSeq(i.authorizing, P))
     EXCEPT !.authorizing = SelectSeq(i.authorizing, LAMBDA item : ~P(item))]

CancelAuthorizing(i, b) == EndEach(i, LAMBDA item : BindingOf(item.pending.x) = b)
ExpireAuthorizing(i) == EndEach(i, LAMBDA item : item.pending.deadline <= i.clock)

\* The proof a verdict names, for its own connection.
Judges(item, verdict) ==
  item.proof = verdict.proof /\ item.lease.connection = verdict.connection

\* reused.
Reused(i, verdict) ==
  LET at == {n \in DOMAIN i.authorizing : Judges(i.authorizing[n], verdict)}
      item == i.authorizing[Min(at)]
      rest == [i EXCEPT !.authorizing = RemoveAt(@, Min(at))]
  IN  IF at = {} THEN i
      ELSE CASE verdict.verdict = "Authorized" ->
                  Serve(rest, item.pending, item.lease, item.proof)
             [] verdict.verdict = "Revoked" ->
                  AskFresh(ReleaseLease(rest, item.lease, FALSE), item.pending)
             [] verdict.verdict = "Unprovable" ->
                  AskAgain(ReturnLease(rest, item.lease), item.pending,
                           {verdict.connection})

\* authorize_reuse: a proof under way, or none started.
Authorize(i, pending, lease) ==
  LET proof == i.nextProof + 1
      b == BindingOf(pending.x)
      minted == [i EXCEPT !.nextProof = proof]
  IN  IF i.adapter /\ b \in Provers
      THEN [minted EXCEPT
              !.proofs = Put(@, proof, [connection |-> lease.connection, binding |-> b,
                                        verdict |-> None]),
              !.authorizing = Append(@, [pending |-> pending, lease |-> lease,
                                         proof |-> proof])]
      ELSE AskAgain(ReturnLease(minted, lease), pending, {lease.connection})

\* A lease of another scope: given back, and asked once more for a new one.
AskInPlace(i, n, pending) ==
  LET asked == [pending.template EXCEPT !.fresh = TRUE]
  IN  IF pending.misfits > MisfitBound \/ ~MayRequest(i.pool, asked, pending.deadline)
      THEN FailSlot(i, pending.x)
      ELSE [i EXCEPT !.pool = RequestUntil(@, asked, pending.deadline),
                     !.openings = InsertAt(@, n, [pending EXCEPT
                       !.request = i.pool.requestSerial + 1])]

Misfit(i, n, lease) ==
  AskInPlace([ReleaseLease(i, lease, TRUE) EXCEPT !.openings = RemoveAt(@, n)],
             n, [i.openings[n] EXCEPT !.misfits = @ + 1])

Fits(i, pending, c) ==
  i.connections[c].https => i.connections[c].scope = Scope[BindingOf(pending.x)]

\* Mutant: an idle connection serves whoever leases it.
NeedsProofNever(i, pending, c) == FALSE

NeedsProof(i, pending, c) ==
  i.connections[c].lessee \notin {None, BindingOf(pending.x)}

IsMisfit(i, n) ==
  LET state == i.pool.requests[i.openings[n].request].state
  IN  /\ state.at = "Ready"
      /\ state.lease.connection \in DOMAIN i.connections
      /\ ~Fits(i, i.openings[n], state.lease.connection)

\* What the pool answered to the n-th opening, a lease or a failure.
TakeAnswer(i, n) ==
  LET pending == i.openings[n]
      state == i.pool.requests[pending.request].state
      c == state.lease.connection
      taken == [i EXCEPT !.pool = Take(@, pending.request)]
      alone == [taken EXCEPT !.openings = RemoveAt(@, n)]
  IN  IF state.at = "Failed" THEN FailSlot(alone, pending.x)
      ELSE IF c \notin DOMAIN i.connections
      THEN LostLease(ReleaseLease(alone, state.lease, FALSE), pending)
      ELSE IF IsMisfit(i, n) THEN Misfit(taken, n, state.lease)
      ELSE IF NeedsProof(i, pending, c) THEN Authorize(alone, pending, state.lease)
      ELSE Serve(alone, pending, state.lease, None)

\* openings: in order, those that ask again at the end of the same pass.
RECURSIVE OpeningsFrom(_, _)
OpeningsOn(i, n, misfit) ==
  LET stays == misfit # None /\ n <= Len(i.openings) /\ i.openings[n].x = misfit
  IN  OpeningsFrom(i, IF stays THEN n + 1 ELSE n)

OpeningsFrom(i, n) ==
  IF n > Len(i.openings) THEN i
  ELSE IF ~Answered(i.pool, i.openings[n].request) THEN OpeningsFrom(i, n + 1)
  ELSE OpeningsOn(TakeAnswer(i, n), n, IF IsMisfit(i, n) THEN i.openings[n].x ELSE None)

-----------------------------------------------------------------------------
(* The pump (owner.rs, leasing.rs, state.rs). *)

\* What the adapter is told: the scope a connect is made under is its opener's.
Connect(i, c) ==
  LET id == i.pool.entries[c].state.request
      openers == {n \in DOMAIN i.openings : i.openings[n].request = id}
  IN  [i EXCEPT
         !.held = Put(@, c, "connecting"),
         !.connections = Put(@, c,
           [scope |-> IF openers = {} THEN None ELSE Scope[BindingOf(i.openings[Min(openers)].x)],
            https |-> i.pool.entries[c].key.scheme = "Https", lessee |-> None])]

\* One command of the pool's, to the adapter.
Tell(i, c) ==
  IF ~i.adapter THEN i
  ELSE IF CleanupOf(i.pool, c) = None THEN Connect(i, c)
  ELSE IF At(i.pool, c, "Opening") THEN i ELSE [i EXCEPT !.told = @ \cup {c}]

\* actions.
RECURSIVE Actions(_)
Actions(i) ==
  IF ~ActionDue(i.pool) THEN i
  ELSE Actions([Tell(i, NextTarget(i.pool)) EXCEPT !.pool = NextAction(@)])

\* One completion, to the pool; verdicts wait.
Complete(p, news) ==
  CASE news.kind = "Connected" -> Connected(p, news.connection, news.result)
    [] news.kind = "Closed" -> Closed(p, news.connection)
    [] news.kind = "IdleClosed" -> IdleClosed(p, news.connection)
    [] OTHER -> p

Ended(news) ==
  \/ news.kind \in {"Closed", "IdleClosed"}
  \/ news.kind = "Connected" /\ news.result = "Failed"

Completions(i) ==
  LET ended == SelectSeq(i.news, Ended)
  IN  IF ~i.adapter THEN i
      ELSE Confirm([i EXCEPT !.pool = FoldLeft(Complete, @, i.news), !.news = <<>>],
                   {ended[n].connection : n \in DOMAIN ended})

Verdicts(i) ==
  IF i.adapter THEN SelectSeq(i.news, LAMBDA news : news.kind = "Reuse") ELSE <<>>

\* settle: the leases of exchanges whose adapter says how they ended.
RECURSIVE SettleFrom(_, _)
SettleFrom(i, n) ==
  LET item == i.settling[n]
      disposition == i.io[item.x].end
      gone == [i EXCEPT !.settling = RemoveAt(@, n), !.io = Without(@, item.x)]
  IN  IF n > Len(i.settling) THEN i
      ELSE IF disposition \notin {"Reusable", "Discarded"} THEN SettleFrom(i, n + 1)
      ELSE SettleFrom(Report(ReleaseLease(gone, item.lease, disposition = "Reusable"),
                             item.x, item.lease.connection, disposition), n)

\* One pass of the pump's loop.
PassOn(acted) ==
  SettleFrom(OpeningsFrom(FoldLeft(Reused, ExpireAuthorizing(Completions(acted)),
                                   Verdicts(acted)), 1), 1)
Pass(i) == PassOn(Actions(i))

\* A pass will make progress.
Busy(i) ==
  \/ ActionDue(i.pool)
  \/ i.adapter /\ i.news # <<>>
  \/ \E n \in DOMAIN i.authorizing : i.authorizing[n].pending.deadline <= i.clock
  \/ \E n \in DOMAIN i.openings : Answered(i.pool, i.openings[n].request)
  \/ \E n \in DOMAIN i.settling : i.io[i.settling[n].x].end \in {"Reusable", "Discarded"}

RECURSIVE Loop(_)
Loop(i) == IF Busy(i) THEN Loop(Pass(i)) ELSE i

\* observe_epoch.
ObserveEpoch(i) ==
  IF i.jumped THEN [i EXCEPT !.jumped = FALSE, !.pool = ExpireIdle(@)] ELSE i

ReadClock(i) == [ObserveEpoch(i) EXCEPT !.pool = Advance(@, i.clock)]

\* pump.
Pump(i) ==
  [PruneScopeTokens(ResolveEnding(Loop(ReadClock(i)), FALSE)) EXCEPT !.pool.touched = FALSE]

-----------------------------------------------------------------------------
(* Commands (owner.rs, exchange.rs). *)

\* The request of an exchange; it waits for the connection it prefers only
\* while the exchange that finished there is settled.
RequestFor(i, x, spec, prefer) ==
  [key |-> spec.key, identity |-> PoolIdentity(i, spec, BindingOf(x)),
   owner |-> OwnerOf(BindingOf(x)), allocationMs |-> None, connectMs |-> None,
   interactionMs |-> None, fresh |-> FALSE, exclude |-> {}, limits |-> Limits,
   prefer |-> prefer, preferWaitMs |-> None]

Settles(i, c) == \E n \in DOMAIN i.settling : i.settling[n].lease.connection = c

MaySubmit(i, x, spec, prefer) ==
  MayRequest(ReadClock(i).pool, RequestFor(i, x, spec, prefer), None)

\* submit.
Enter(i, x, template, req) ==
  [i EXCEPT
     !.slots = Put(@, x, Empty),
     !.pool = RequestUntil(@, req, None),
     !.openings = Append(@, [x |-> x, request |-> i.pool.requestSerial + 1,
       template |-> template, misfits |-> 0, excluded |-> {},
       deadline |-> i.clock + AllocationTimeout])]

Submit(i, x, spec, prefer) ==
  LET template == RequestFor(i, x, spec, prefer)
      req == [template EXCEPT !.preferWaitMs =
                IF prefer # None /\ Settles(i, prefer) THEN CleanupTimeout ELSE None]
  IN  Pump(Enter(TakeToken(ReadClock(i), spec, BindingOf(x)), x, template, req))

\* A submit the pool refuses.
SubmitRefused(i, x, spec) ==
  [TakeToken(ReadClock(i), spec, BindingOf(x)) EXCEPT !.pool.touched = FALSE]

\* Instance::settle: the first poll_finish starts the orderly end.
SettleExchange(i, x, lease) ==
  Pump([i EXCEPT !.io[x].end = "ending",
                 !.settling = Append(@, [x |-> x, lease |-> lease])])

\* discard.
DiscardExchange(i, x, lease) ==
  Pump(Report(ReleaseLease([i EXCEPT !.io = Without(@, x)], lease, FALSE),
              x, lease.connection, "Discarded"))

\* release, and the ticket its caller notes.
NoteTicket(i, x, c) ==
  IF HasTicket(i, c) THEN Note(ClosingTicket(i, c), BindingOf(x), c) ELSE i

GiveBack(i, x, lease) ==
  NoteTicket(Pump(ReleaseLease([i EXCEPT !.io = Without(@, x)], lease, FALSE)),
             x, lease.connection)

\* Of an opening that went: its request and its proof's lease, not its exchange.
Withdraw(i, x) ==
  LET asked == SelectSeq(i.openings, LAMBDA p : p.x = x)
      leased == SelectSeq(i.authorizing, LAMBDA item : item.pending.x = x)
      dropped == FoldLeft(LAMBDA j, p : [j EXCEPT !.pool = Abandon(@, p.request)], i, asked)
      returned == FoldLeft(LAMBDA j, item : ReturnLease(j, item.lease), dropped, leased)
  IN  [returned EXCEPT
         !.openings = SelectSeq(@, LAMBDA p : p.x # x),
         !.authorizing = SelectSeq(@, LAMBDA item : item.pending.x # x),
         !.slots = Without(@, x)]

\* Mutant: an exchange already handed over is forgotten with its slot.
AbandonOpeningOnly(i, x) == Pump(Withdraw(i, x))

\* abandon, after the slot's own: the exchange handed over goes too.
AbandonOpening(i, x) ==
  LET handed == i.slots[x].lease
  IN  Pump(IF handed = None THEN Withdraw(i, x)
           ELSE ReleaseLease([Withdraw(i, x) EXCEPT !.io = Without(@, x)], handed, FALSE))

\* Mutant: the pool's cancellation goes first.
CancelOwnedLate(i, b) ==
  Pump(CancelAuthorizing([i EXCEPT !.pool = CancelOwners(@, {OwnerOf(b)})], b))

\* cancel_binding, after its flag.
CancelOwnedBy(i, b) ==
  Pump([CancelAuthorizing(i, b) EXCEPT !.pool = CancelOwners(@, {OwnerOf(b)})])

-----------------------------------------------------------------------------
(* The end of the instance (owner.rs, disposal.rs). *)

StopPool(i) == Pump([i EXCEPT !.pool = Shutdown(@)])

\* fail_in_flight.
FailInFlight(i) ==
  LET revoked == FoldLeft(LAMBDA j, item : ReleaseLease(j, item.lease, FALSE),
                          i, i.authorizing)
      released == FoldLeft(LAMBDA j, item : ReleaseLease(j, item.lease, FALSE),
                           revoked, i.settling)
      pumped == ResolveEnding(Pump([released EXCEPT
                  !.openings = <<>>, !.authorizing = <<>>, !.settling = <<>>]), TRUE)
      failed == FoldLeft(LAMBDA j, p : FailSlot(j, p.x), pumped,
                         i.openings \o [n \in DOMAIN i.authorizing |-> i.authorizing[n].pending])
      aborted(j, item) ==
        LET c == item.lease.connection
            gone == [j EXCEPT !.io = Without(@, item.x)]
        IN  SetEnd(NoteTicket(gone, item.x, c), item.x, "Discarded", ~HasTicket(j, c))
  IN  FoldLeft(aborted, failed, i.settling)

\* take_adapter: it leaves with the tickets stated so far.
TakeAdapter(i) ==
  [i EXCEPT !.adapter = FALSE, !.news = <<>>,
            !.taken = {c \in DOMAIN i.connections \cap DOMAIN i.tickets :
                         i.tickets[c] = "Pending"}]

\* poll_dispose of the adapter that left, once it is confirmed.
Disposed(i) ==
  [i EXCEPT !.held = <<>>, !.told = {}, !.taken = {},
            !.tickets = [c \in DOMAIN @ |-> IF c \in i.taken THEN "Confirmed" ELSE @[c]]]

\* retire: an instance nothing holds.
RetireInstance(i) == TakeAdapter(ResolveEnding(StopPool(i), TRUE))

Unbound(i) == i.adapter /\ i.openings = <<>> /\ Entries(i.pool, "Leased") = {}
=============================================================================
