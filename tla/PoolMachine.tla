----------------------------- MODULE PoolMachine -----------------------------
(***************************************************************************)
(* The connection pool of one endpoint as a state machine without I/O      *)
(* (src/src/pool/machine.rs, allocation.rs, lifecycle.rs, clock.rs,        *)
(* limit.rs, setup.rs).  Every operator maps the machine to the machine    *)
(* after one call; a call that is refused leaves it as it was.             *)
(*                                                                         *)
(* The machine is a record.  `requests`, `entries` and `holds` are the     *)
(* BTreeMaps, functions over the ids in use, which are numbers in order of *)
(* creation; `touched` says that the call moved the revision; `clocks` are *)
(* the shared setup clocks by connection, `source` what they read.  The    *)
(* reason given with a close is reported and never read: it is left out.   *)
(***************************************************************************)
EXTENDS SetupClock, Sequences, SequencesExt

CONSTANTS
  Key,               \* records [scheme, user, host, port]
  Config,            \* Config::{perUserHost, perHost, total, maxRequests}
  IdleTimeout, MaxAge, AllocationTimeout, ConnectTimeout, InteractionTimeout,
  CleanupTimeout     \* Config's milliseconds; ConnectTimeout is 0 to disable it

ASSUME PoolAssumption ==
  /\ Config.perUserHost > 0 /\ Config.perHost > 0 /\ Config.total > 0
  /\ Config.maxRequests > 0
  /\ \A ms \in {IdleTimeout, MaxAge, AllocationTimeout, InteractionTimeout, CleanupTimeout} :
       ms \in Nat \ {0}
  /\ ConnectTimeout \in Nat /\ StallMs \in Nat

OnSite(k) == [scheme |-> k.scheme, host |-> k.host, port |-> k.port]
Site == {OnSite(k) : k \in Key}

SameHost(k) == {j \in Key : j.host = k.host}
SameUserHost(k) == {j \in Key : j.host = k.host /\ j.user = k.user}
SameSite(k) == {j \in Key : OnSite(j) = OnSite(k)}

\* PoolMachine::new.
NewPool ==
  [now |-> 0, source |-> 0, requests |-> <<>>, entries |-> <<>>, holds |-> <<>>,
   limits |-> [s \in Site |-> None], settles |-> [s \in Site |-> 0], noEvicts |-> {},
   stopped |-> FALSE, driverLost |-> FALSE, touched |-> FALSE, clocks |-> <<>>,
   requestSerial |-> 0, connectionSerial |-> 0, leaseSerial |-> 0]

Touch(p) == [p EXCEPT !.touched = TRUE]

Put(f, x, v) == [y \in DOMAIN f \cup {x} |-> IF y = x THEN v ELSE f[y]]
Without(f, x) == [y \in DOMAIN f \ {x} |-> f[y]]

Error(kind) == [kind |-> kind, record |-> None]
SetupEnded(record) == [kind |-> "SetupEnded", record |-> record]

Waiting == [at |-> "Waiting"]
OpeningFor(c) == [at |-> "Opening", connection |-> c]
Ready(lease) == [at |-> "Ready", lease |-> lease]
Failed(error) == [at |-> "Failed", error |-> error]

Leased(lease, id) == [at |-> "Leased", lease |-> lease, request |-> id]
Cleanup(deadline) == [deadline |-> deadline, sent |-> FALSE, aborted |-> FALSE]

At(p, c, state) == c \in DOMAIN p.entries /\ p.entries[c].state.at = state
Entries(p, state) == {c \in DOMAIN p.entries : p.entries[c].state.at = state}
WaitingIds(p) == {id \in DOMAIN p.requests : p.requests[id].state = Waiting}
InOrder(S) == SetToSortSeq(S, <)

-----------------------------------------------------------------------------
(* Capacity. *)

LimitsOf(req) == IF req.limits = None THEN Config ELSE req.limits

\* ceilings_for: max(ceiling, the request's limit), each.
CeilingsFor(req) ==
  [d \in DOMAIN Config |-> Max({Config[d], LimitsOf(req)[d]})]

\* owned_where: what a session has opening or leased.
OwnedBy(p, session) ==
  {c \in Entries(p, "Opening") \cup Entries(p, "Leased") :
     p.entries[c].owner # None /\ p.entries[c].owner.session = session}

OwnerFull(p, req) ==
  LET mine(keys) == Cardinality({c \in OwnedBy(p, req.owner.session) : p.entries[c].key \in keys})
  IN  \/ mine(Key) >= LimitsOf(req).total
      \/ mine(SameHost(req.key)) >= LimitsOf(req).perHost
      \/ mine(SameUserHost(req.key)) >= LimitsOf(req).perUserHost

\* host_total, user_host_total, site_total: connections and held slots.
Total(p, keys) ==
  Cardinality({c \in DOMAIN p.entries : p.entries[c].key \in keys})
    + Cardinality({c \in DOMAIN p.holds : p.holds[c].key \in keys})

SiteFull(p, key) ==
  p.limits[OnSite(key)] # None /\ Total(p, SameSite(key)) >= p.limits[OnSite(key)]

UserHostFull(p, req) == Total(p, SameUserHost(req.key)) >= CeilingsFor(req).perUserHost
HostFull(p, req) == Total(p, SameHost(req.key)) >= CeilingsFor(req).perHost

\* Mutant: only the site limit counts held slots.
HasRoomOverHolds(p, req) ==
  /\ ~OwnerFull(p, req)
  /\ Cardinality(DOMAIN p.entries) < CeilingsFor(req).total
  /\ ~SiteFull(p, req.key)

\* A held slot counts in all but the endpoint total.
HasRoom(p, req) ==
  /\ ~OwnerFull(p, req)
  /\ Cardinality(DOMAIN p.entries) < CeilingsFor(req).total
  /\ ~UserHostFull(p, req)
  /\ ~HostFull(p, req)
  /\ ~SiteFull(p, req.key)

Compatible(req, c, entry) ==
  /\ entry.key = req.key
  /\ entry.reusable
  /\ entry.identity = req.identity
  /\ c \notin req.exclude

-----------------------------------------------------------------------------
(* Closing, failing and disposing. *)

\* start_closing; a cancelled connect keeps its cleanup deadline.
StartClosing(p, c) ==
  LET state == p.entries[c].state
      deadline == IF state.at = "Opening" /\ state.cancel # None
                  THEN state.cancel.deadline ELSE p.now + CleanupTimeout
  IN  IF state.at = "Closing" THEN p
      ELSE Touch([p EXCEPT
             !.entries[c].owner = None,
             !.entries[c].state = [at |-> "Closing", cleanup |-> Cleanup(deadline)]])

CloseAll(p, C) == FoldLeft(StartClosing, p, InOrder(C))

HasSharedClock(p, c) ==
  /\ At(p, c, "Opening")
  /\ p.entries[c].state.clock # None
  /\ p.entries[c].state.clock.at = "Shared"

\* arbitrate_setup_error: the clock's first outcome is the error.
Arbitrate(p, c, error) ==
  LET cause == CASE error.kind = "DriverLost" -> "DriverLost"
                 [] error.kind = "SetupEnded" -> error.record.cause
                 [] OTHER -> "Cancelled"
  IN  IF HasSharedClock(p, c)
      THEN [p EXCEPT !.clocks[c] = Terminate(@, cause, p.source)] ELSE p

\* Mutant: the pool reports its own view of the failure.
ArbitratedErrorOwn(p, c, error) == error

ArbitratedError(p, c, error) ==
  IF HasSharedClock(p, c) THEN SetupEnded(Arbitrate(p, c, error).clocks[c].terminal)
  ELSE error

SetFailed(p, id, error) == Touch([p EXCEPT !.requests[id].state = Failed(error)])

\* The reservation of a failed opening: undispatched it is gone, else cancelled.
DropReservation(p, c) ==
  CASE ~At(p, c, "Opening") -> p
    [] At(p, c, "Opening") /\ p.entries[c].state.clock = None ->
         [p EXCEPT !.entries = Without(@, c)]
    [] OTHER ->
         [p EXCEPT !.entries[c].state.request = None,
                   !.entries[c].state.cancel = Cleanup(p.now + CleanupTimeout)]

FailRequest(p, id, error) ==
  LET state == p.requests[id].state
  IN  CASE state.at = "Failed" -> p
        [] state.at = "Waiting" -> SetFailed(p, id, error)
        [] state.at = "Ready" ->
             SetFailed(StartClosing(p, state.lease.connection), id, error)
        [] state.at = "Opening" ->
             SetFailed(DropReservation(Arbitrate(p, state.connection, error), state.connection),
                       id, ArbitratedError(p, state.connection, error))

FailAll(p, ids, error) ==
  FoldLeft(LAMBDA q, id : FailRequest(q, id, error), p, InOrder(ids))

\* The waiting request whose eviction freed the slot.
Evictor(p, c) ==
  LET ids == {id \in WaitingIds(p) : p.requests[id].eviction = c}
  IN  IF ids = {} THEN None ELSE Min(ids)

\* dispose: the entry goes, the slot stays held for the site's settle time.
Dispose(p, c, settle) ==
  LET key == p.entries[c].key
      ms == IF settle /\ ~p.stopped THEN p.settles[OnSite(key)] ELSE 0
      gone == [p EXCEPT !.entries = Without(@, c)]
  IN  IF c \notin DOMAIN p.entries THEN p
      ELSE IF ms = 0 THEN gone
      ELSE [gone EXCEPT !.holds =
              Put(@, c, [key |-> key, expires |-> p.now + ms, evictor |-> Evictor(p, c)])]

-----------------------------------------------------------------------------
(* schedule *)

\* prefer_waits: the lease that was finishing when the request came still runs.
PreferWaits(p, id) ==
  LET pending == p.requests[id]
      c == pending.req.prefer
  IN  /\ c # None /\ pending.preferWait # None
      /\ ~pending.req.fresh
      /\ p.now < pending.preferWait.until
      /\ At(p, c, "Leased")
      /\ p.entries[c].state.lease = pending.preferWait.lease
      /\ Compatible(pending.req, c, p.entries[c])

\* The idle connection a waiting request is leased, preferred first.
IdleFor(p, id) ==
  LET req == p.requests[id].req
      fits == {c \in Entries(p, "Idle") : Compatible(req, c, p.entries[c])}
  IN  CASE req.fresh \/ OwnerFull(p, req) \/ fits = {} -> None
        [] ~(req.fresh \/ OwnerFull(p, req)) /\ req.prefer \in fits -> req.prefer
        [] OTHER -> IF PreferWaits(p, id) THEN None ELSE Min(fits)

LeaseTo(p, id, c) ==
  LET lease == [connection |-> c, generation |-> p.leaseSerial + 1]
  IN  IF c = None THEN p
      ELSE Touch([p EXCEPT
             !.leaseSerial = @ + 1,
             !.requests[id].state = Ready(lease),
             !.requests[id].eviction = None,
             !.entries[c].owner = p.requests[id].req.owner,
             !.entries[c].idleSince = p.entries[c].state.since,
             !.entries[c].state = Leased(lease, id)])

LeaseIdle(p, id) == LeaseTo(p, id, IdleFor(p, id))

NewEntry(p, id) ==
  LET req == p.requests[id].req
  IN  [key |-> req.key, identity |-> req.identity, reusable |-> FALSE,
       owner |-> req.owner, idleSince |-> None, born |-> p.now,
       state |-> [at |-> "Opening", request |-> id, clock |-> None,
                  networkMs |-> IF req.connectMs = None THEN ConnectTimeout ELSE req.connectMs,
                  interactionMs |-> IF req.interactionMs = None THEN InteractionTimeout
                                    ELSE req.interactionMs,
                  cancel |-> None]]

OpenFor(p, id) ==
  LET c == p.connectionSerial + 1
  IN  IF \/ id \notin WaitingIds(p)
         \/ PreferWaits(p, id)
         \/ ~HasRoom(p, p.requests[id].req)
      THEN p
      ELSE Touch([p EXCEPT
             !.connectionSerial = c,
             !.entries = Put(@, c, NewEntry(p, id)),
             !.requests[id].state = OpeningFor(c),
             !.requests[id].eviction = None])

\* The idle connections whose eviction makes room under every full bound.
Evictable(p, req) ==
  {c \in Entries(p, "Idle") :
     LET key == p.entries[c].key
     IN  /\ UserHostFull(p, req) => key \in SameUserHost(req.key)
         /\ HostFull(p, req) => key \in SameHost(req.key)
         /\ SiteFull(p, req.key) => key \in SameSite(req.key)}

\* The longest idle, the oldest of equals.
Victim(p, C) ==
  CHOOSE c \in C : \A d \in C :
    \/ p.entries[c].state.since < p.entries[d].state.since
    \/ p.entries[c].state.since = p.entries[d].state.since /\ c <= d

MayEvict(p, id) ==
  LET pending == p.requests[id]
  IN  /\ pending.state = Waiting
      /\ pending.eviction \notin DOMAIN p.entries \cup DOMAIN p.holds
      /\ ~PreferWaits(p, id)
      /\ OnSite(pending.req.key) \notin p.noEvicts
      /\ ~OwnerFull(p, pending.req)

EvictOne(p, id, c) == [StartClosing(p, c) EXCEPT !.requests[id].eviction = c]
EvictAmong(p, id, C) == IF C = {} THEN p ELSE EvictOne(p, id, Victim(p, C))

EvictFor(p, id) ==
  IF MayEvict(p, id) THEN EvictAmong(p, id, Evictable(p, p.requests[id].req)) ELSE p

\* Reuse for every waiting request in order, then creation, then eviction.
ScheduleIn(p, ids) == FoldLeft(EvictFor, FoldLeft(OpenFor, FoldLeft(LeaseIdle, p, ids), ids), ids)
Schedule(p) == IF p.stopped THEN p ELSE ScheduleIn(p, InOrder(WaitingIds(p)))

-----------------------------------------------------------------------------
(* Requests. *)

RequestsOf(p, session) ==
  {id \in DOMAIN p.requests : p.requests[id].req.owner.session = session}

MayRequest(p, req, absolute) ==
  /\ ~p.driverLost /\ ~p.stopped
  /\ absolute # None => absolute > p.now
  /\ Cardinality(DOMAIN p.requests) < CeilingsFor(req).maxRequests
  /\ Cardinality(RequestsOf(p, req.owner.session)) < LimitsOf(req).maxRequests

\* request_until, for a request that is valid.
RequestUntil(p, req, absolute) ==
  LET id == p.requestSerial + 1
      allocation == p.now + (IF req.allocationMs = None THEN AllocationTimeout
                             ELSE req.allocationMs)
      deadline == IF absolute = None THEN allocation ELSE Min({allocation, absolute})
      finishing == IF At(p, req.prefer, "Leased") THEN p.entries[req.prefer].state.lease ELSE None
      wait == IF finishing = None \/ req.preferWaitMs = None THEN None
              ELSE [lease |-> finishing, until |-> Min({p.now + req.preferWaitMs, deadline})]
      pending == [req |-> req, deadline |-> deadline, absolute |-> absolute,
                  state |-> Waiting, eviction |-> None, preferWait |-> wait]
  IN  IF ~MayRequest(p, req, absolute) THEN p
      ELSE Touch(Schedule([p EXCEPT !.requestSerial = id,
                                    !.requests = Put(@, id, pending)]))

Answered(p, id) == p.requests[id].state.at \in {"Ready", "Failed"}

\* Mutant: the entry goes on naming the request that took it.
TakeKeepsRequest(p, id) ==
  IF Answered(p, id) THEN Touch([p EXCEPT !.requests = Without(@, id)]) ELSE p

\* take: the answer leaves with the request.
Take(p, id) ==
  LET state == p.requests[id].state
      taken == [p EXCEPT !.requests = Without(@, id)]
  IN  IF ~Answered(p, id) THEN p
      ELSE IF state.at = "Ready" /\ At(p, state.lease.connection, "Leased")
      THEN Touch([taken EXCEPT !.entries[state.lease.connection].state.request = None])
      ELSE Touch(taken)

IsLive(p, lease) ==
  At(p, lease.connection, "Leased") /\ p.entries[lease.connection].state.lease = lease

Cancel(p, id) == Schedule(FailRequest(p, id, Error("Cancelled")))

\* abandon: cancel and forget, a lease already granted included.
Abandon(p, id) ==
  LET q == Cancel(p, id) IN Touch([q EXCEPT !.requests = Without(@, id)])

\* cancel_matching, for the owners of one operation or of one session.
CloseOwned(p, owners) ==
  CloseAll(p, {c \in Entries(p, "Leased") : p.entries[c].owner \in owners})

CancelOwners(p, owners) ==
  Schedule(CloseOwned(
    FailAll(p, {id \in DOMAIN p.requests : p.requests[id].req.owner \in owners},
            Error("Cancelled")), owners))

-----------------------------------------------------------------------------
(* Leases and their connections. *)

Aged(p, entry) == p.now >= entry.born + MaxAge

\* release_at: back to idle, or closed when it cannot be kept.
ReleaseAt(p, lease, reusable, since) ==
  LET c == lease.connection
      entry == p.entries[c]
      kept == [p EXCEPT !.entries[c].owner = None,
                        !.entries[c].idleSince = None,
                        !.entries[c].state = [at |-> "Idle", since |-> since]]
  IN  IF ~IsLive(p, lease) \/ p.entries[c].state.request # None THEN p
      ELSE Touch(Schedule(
             IF reusable /\ entry.reusable /\ ~Aged(p, entry) /\ ~p.stopped
             THEN kept ELSE StartClosing(p, c)))

Release(p, lease, reusable) == ReleaseAt(p, lease, reusable, p.now)

\* release_unused: the idle time it had goes on.
ReleaseUnused(p, lease) ==
  LET since == IF lease.connection \in DOMAIN p.entries
               THEN p.entries[lease.connection].idleSince ELSE None
  IN  ReleaseAt(p, lease, TRUE, IF since = None THEN p.now ELSE since)

\* scope_https: one scope, never another.
ScopeHttps(p, lease, scope) ==
  LET c == lease.connection
  IN  IF ~IsLive(p, lease) THEN p
      ELSE IF p.entries[c].key.scheme # "Https" THEN p
      ELSE IF p.entries[c].identity \notin {"Https", scope} THEN p
      ELSE Touch([p EXCEPT !.entries[c].identity = scope])

RetireHttpsScope(p, scope) ==
  Schedule(CloseAll(p, {c \in DOMAIN p.entries : p.entries[c].identity = scope}))

CleanupSent(cleanup) == cleanup.sent \/ cleanup.aborted

\* closed: the host has disposed what it was told to close.
Closed(p, c) ==
  IF At(p, c, "Closing") /\ CleanupSent(p.entries[c].state.cleanup)
  THEN Touch(Schedule(Dispose(p, c, TRUE))) ELSE p

\* idle_closed: the peer was lost while idle, or while it was being closed.
IdleClosed(p, c) ==
  IF At(p, c, "Idle") \/ At(p, c, "Closing")
  THEN Touch(Schedule([p EXCEPT !.entries = Without(@, c)])) ELSE p

ExpireIdle(p) == Schedule(CloseAll(p, Entries(p, "Idle")))

CloseUsable(p) == CloseAll(p, Entries(p, "Idle") \cup Entries(p, "Leased"))

\* stop, for shutdown and for a lost driver.
Stop(p, why) ==
  Touch(CloseUsable(FailAll([p EXCEPT !.stopped = TRUE, !.holds = <<>>],
                            DOMAIN p.requests, Error(why))))

Shutdown(p) == Stop(p, "Shutdown")
DriverLost(p) == Stop([p EXCEPT !.driverLost = TRUE], "DriverLost")

ShutdownComplete(p) == p.stopped /\ DOMAIN p.entries = {}

-----------------------------------------------------------------------------
(* Numbers the host sets on a site (limit.rs). *)

AcceptsNumbers(p) == ~p.driverLost /\ ~p.stopped

SetLimit(p, site, limit) ==
  IF AcceptsNumbers(p) THEN Touch(Schedule([p EXCEPT !.limits[site] = limit])) ELSE p

ClearLimit(p, site) == Touch(Schedule([p EXCEPT !.limits[site] = None]))

SetSettle(p, site, ms) == IF AcceptsNumbers(p) THEN [p EXCEPT !.settles[site] = ms] ELSE p

SetNoEvict(p, site, on) ==
  IF ~AcceptsNumbers(p) \/ on = (site \in p.noEvicts) THEN p
  ELSE Touch(Schedule([p EXCEPT !.noEvicts = IF on THEN @ \cup {site} ELSE @ \ {site}]))

\* discard_idle: nothing is scheduled.
DiscardIdle(p, site) ==
  CloseAll(p, {c \in Entries(p, "Idle") : OnSite(p.entries[c].key) = site})

\* lapse_holds: each evictor is served before any other waiting request.
LapseHolds(p) ==
  LET lapsed == {c \in DOMAIN p.holds : p.holds[c].expires <= p.now}
      order == SetToSortSeq(lapsed, LAMBDA c, d :
                 \/ p.holds[c].expires < p.holds[d].expires
                 \/ p.holds[c].expires = p.holds[d].expires /\ c < d)
      freed == [p EXCEPT !.holds = [c \in DOMAIN @ \ lapsed |-> @[c]]]
  IN  IF lapsed = {} THEN p
      ELSE Touch(FoldLeft(LAMBDA q, c : OpenFor(q, p.holds[c].evictor), freed, order))

-----------------------------------------------------------------------------
(* Commands to the host (next_action). *)

\* The cleanup of an entry, a cancelled connect's or a closing one's.
CleanupOf(p, c) ==
  LET state == p.entries[c].state
  IN  CASE state.at = "Opening" -> state.cancel
        [] state.at = "Closing" -> state.cleanup
        [] OTHER -> None

AbortDue(p, c) ==
  CleanupOf(p, c) # None /\ ~CleanupOf(p, c).aborted /\ p.now >= CleanupOf(p, c).deadline
CloseDue(p, c) == CleanupOf(p, c) # None /\ ~CleanupSent(CleanupOf(p, c))

ConnectDue(p, c) ==
  At(p, c, "Opening") /\ p.entries[c].state.clock = None /\ p.entries[c].state.cancel = None

CleanupDue(p) == {c \in DOMAIN p.entries : AbortDue(p, c) \/ CloseDue(p, c)}
ConnectsDue(p) == {c \in DOMAIN p.entries : ConnectDue(p, c)}
ActionDue(p) == CleanupDue(p) \cup ConnectsDue(p) # {}

Earlier(a, b) == IF a = None THEN b ELSE IF b = None THEN a ELSE Min({a, b})

\* The absolute deadline of the request an opening serves.
AbsoluteOf(p, c) ==
  LET id == p.entries[c].state.request
  IN  IF id \in DOMAIN p.requests THEN p.requests[id].absolute ELSE None

SetCleanup(p, c, cleanup) ==
  IF At(p, c, "Opening") THEN [p EXCEPT !.entries[c].state.cancel = cleanup]
  ELSE [p EXCEPT !.entries[c].state.cleanup = cleanup]

\* The connection the next command is about; cleanup goes before any connect.
NextTarget(p) == IF CleanupDue(p) # {} THEN Min(CleanupDue(p)) ELSE Min(ConnectsDue(p))

\* The connect clock starts when Connect is handed out.
StartConnect(p, c) ==
  LET ms == p.entries[c].state.networkMs
      network == IF ms > 0 THEN p.now + ms ELSE None
  IN  [p EXCEPT !.entries[c].state.clock =
         [at |-> "Network", until |-> Earlier(network, AbsoluteOf(p, c))]]

Command(p, c) ==
  IF CleanupOf(p, c) = None THEN StartConnect(p, c)
  ELSE IF AbortDue(p, c)
  THEN SetCleanup(p, c, [CleanupOf(p, c) EXCEPT !.aborted = TRUE])
  ELSE SetCleanup(p, c, [CleanupOf(p, c) EXCEPT !.sent = TRUE])

NextAction(p) == IF ActionDue(p) THEN Touch(Command(p, NextTarget(p))) ELSE p

-----------------------------------------------------------------------------
(* Connector completions. *)

\* A resource on an established connection: leased to the request it opened for.
Establish(p, c, proven) ==
  LET id == p.entries[c].state.request
      lease == [connection |-> c, generation |-> p.leaseSerial + 1]
  IN  [p EXCEPT !.leaseSerial = @ + 1,
                !.entries[c].reusable = proven,
                !.entries[c].born = p.now,
                !.entries[c].state = Leased(lease, id),
                !.requests[id].state = Ready(lease)]

FailOpening(p, c, error) ==
  LET id == p.entries[c].state.request
  IN  IF id = None THEN p ELSE [p EXCEPT !.requests[id].state = Failed(error)]

\* The clock after this completion: it is asked first, and its outcome decides.
EndUncompleted(clock, source) ==
  IF Alive(clock) THEN Terminate(clock, "InvalidRequest", source) ELSE clock

JudgedClock(p, c, result) ==
  IF result \in {"Failed", "Mismatch"} THEN Terminate(p.clocks[c], result, p.source)
  ELSE EndUncompleted(AdmitCompleted(p.clocks[c], p.source), p.source)

\* connected under a clock of the machine's own.
ConnectedPlain(p, c, result) ==
  LET cancelled == p.entries[c].state.cancel # None
  IN  CASE result = "Failed" ->
             Dispose(FailOpening(p, c, Error("ConnectFailed")), c, cancelled)
        [] result # "Failed" /\ (cancelled \/ result = "Mismatch") ->
             StartClosing(FailOpening(p, c, Error("IdentityMismatch")), c)
        [] OTHER -> Establish(p, c, result = "Proven")

\* connected under a shared setup clock that did not end in Completed.
ConnectedLate(p, c, result) ==
  LET failed == FailOpening(p, c, SetupEnded(p.clocks[c].terminal))
  IN  IF result = "Failed"
      THEN Dispose(failed, c, p.entries[c].state.cancel # None)
      ELSE StartClosing(failed, c)

MayConnect(p, c) == At(p, c, "Opening") /\ p.entries[c].state.clock # None

\* connected finds the request's absolute deadline passed.
ConnectedExpired(p, c) == AbsoluteOf(p, c) # None /\ p.now >= AbsoluteOf(p, c)

TimeoutError(clock) ==
  Error(CASE clock.at = "Network" -> "ConnectTimeout"
          [] clock.at = "Interaction" -> "InteractionTimeout"
          [] clock.at = "LocalWait" -> "LocalWaitExpired")

\* connected: result is Failed, Unproven, Proven or Mismatch.
ConnectedOwn(p, c, result) ==
  IF ConnectedExpired(p, c)
  THEN FailRequest(p, p.entries[c].state.request, TimeoutError(p.entries[c].state.clock))
  ELSE ConnectedPlain(p, c, result)

ConnectedShared(p, c, result) ==
  IF p.clocks[c].terminal.cause = "Completed" /\ result # "Failed"
  THEN ConnectedPlain(p, c, result) ELSE ConnectedLate(p, c, result)

Connected(p, c, result) ==
  IF ~MayConnect(p, c) THEN p
  ELSE Touch(Schedule(
         IF HasSharedClock(p, c)
         THEN ConnectedShared([p EXCEPT !.clocks[c] = JudgedClock(p, c, result)], c, result)
         ELSE ConnectedOwn(p, c, result)))

-----------------------------------------------------------------------------
(* Time (clock.rs). *)

\* What advance finds expired of a request, once the shared clocks are read.
ExpiryError(p, id) ==
  LET pending == p.requests[id]
      state == IF pending.state.at = "Opening"
               THEN p.entries[pending.state.connection].state ELSE None
      due(deadline) == deadline # None /\ p.now >= deadline
  IN  CASE pending.state.at = "Waiting" ->
             IF due(pending.deadline) THEN Error("AllocationTimeout") ELSE None
        [] pending.state.at = "Ready" ->
             IF due(pending.absolute) THEN Error("AllocationTimeout") ELSE None
        [] pending.state.at = "Failed" -> None
        [] pending.state.at = "Opening" ->
             IF state.at # "Opening" THEN None
             ELSE IF state.clock = None
             THEN IF due(pending.deadline) THEN Error("AllocationTimeout") ELSE None
             ELSE IF state.cancel # None THEN None
             ELSE IF state.clock.at = "Shared"
             THEN LET terminal == p.clocks[pending.state.connection].terminal
                  IN  IF terminal = None THEN None ELSE SetupEnded(terminal)
             ELSE IF due(state.clock.until)
             THEN TimeoutError(state.clock) ELSE None

\* advance reads the clock of every opening that still serves a request.
ObserveClocks(p) ==
  [p EXCEPT !.clocks = [c \in DOMAIN @ |->
     IF HasSharedClock(p, c) /\ p.entries[c].state.cancel = None
     THEN Settle(@[c], p.source) ELSE @[c]]]

ExpireRequests(p) ==
  LET expired == {id \in DOMAIN p.requests : ExpiryError(p, id) # None}
  IN  FoldLeft(LAMBDA q, id : FailRequest(q, id, ExpiryError(p, id)),
               p, InOrder(expired))

ExpireConnections(p) ==
  LET idle == Entries(p, "Idle")
  IN  CloseAll(p, {c \in idle : \/ p.now >= p.entries[c].state.since + IdleTimeout
                                \/ Aged(p, p.entries[c])})

\* A sent cleanup became abortable in this very call.
CleanupCrossed(p, previous) ==
  \E c \in DOMAIN p.entries :
    LET cleanup == CleanupOf(p, c)
    IN  /\ cleanup # None
        /\ cleanup.sent /\ ~cleanup.aborted
        /\ previous < cleanup.deadline /\ p.now >= cleanup.deadline

Crossing(q, previous) == IF ~q.touched /\ CleanupCrossed(q, previous) THEN Touch(q) ELSE q

Expirations(p, now) ==
  Schedule(LapseHolds(ExpireConnections(ExpireRequests(ObserveClocks([p EXCEPT !.now = now])))))

\* Mutant: a cleanup that only became abortable wakes nobody.
AdvanceQuiet(p, now) == IF now < p.now THEN p ELSE Expirations(p, now)

Advance(p, now) == IF now < p.now THEN p ELSE Crossing(Expirations(p, now), p.now)

PreferDeadlines(p) ==
  {p.requests[id].preferWait.until : id \in {i \in WaitingIds(p) : PreferWaits(p, i)}}

\* Mutant: the end of a hold is not serviced.
HoldDeadlinesNone(p) == {}

\* next_hold_expiry.
HoldDeadlines(p) == {p.holds[c].expires : c \in DOMAIN p.holds}

\* The instants at which something is due.
Deadlines(p) ==
  {p.requests[id].deadline : id \in
     {i \in DOMAIN p.requests : \/ p.requests[i].state = Waiting
                                \/ \E c \in ConnectsDue(p) : p.entries[c].state.request = i}}
  \cup PreferDeadlines(p)
  \cup {p.requests[id].absolute : id \in
          {i \in DOMAIN p.requests : p.requests[i].state.at = "Ready"}}
  \cup {Min({p.entries[c].state.since + IdleTimeout, p.entries[c].born + MaxAge}) :
          c \in Entries(p, "Idle")}
  \cup {CleanupOf(p, c).deadline : c \in
          {d \in DOMAIN p.entries : CleanupOf(p, d) # None /\ ~CleanupOf(p, d).aborted}}
  \cup {IF HasSharedClock(p, c) THEN CachedDeadline(p.clocks[c])
        ELSE p.entries[c].state.clock.until :
          c \in {d \in Entries(p, "Opening") :
                   p.entries[d].state.clock # None /\ p.entries[d].state.cancel = None}}
  \cup HoldDeadlines(p)

NextDeadline(p) ==
  IF Deadlines(p) \ {None} = {} THEN None ELSE Min(Deadlines(p) \ {None})

-----------------------------------------------------------------------------
(* Pausing the connect clock. *)

ClockIs(p, c, kind) ==
  /\ MayConnect(p, c)
  /\ p.entries[c].state.cancel = None
  /\ p.entries[c].state.clock.at = kind

SetClock(p, c, clock) == [p EXCEPT !.entries[c].state.clock = clock]

\* What the network clock has left, None when it is disabled.
NetworkLeft(p, c) ==
  IF p.entries[c].state.clock.until = None THEN None
  ELSE Max({0, p.entries[c].state.clock.until - p.now})

\* begin_interaction: the revision does not move.
BeginInteraction(p, c) ==
  LET ms == p.entries[c].state.interactionMs
  IN  IF ~ClockIs(p, c, "Network") THEN p
      ELSE IF NetworkLeft(p, c) = 0 \/ ms = 0 THEN p
      ELSE SetClock(p, c, [at |-> "Interaction", remaining |-> NetworkLeft(p, c),
                           until |-> Earlier(p.now + ms, AbsoluteOf(p, c))])

\* The network clock from what it had left.
Resumed(p, c) ==
  LET left == p.entries[c].state.clock.remaining
  IN  [at |-> "Network",
       until |-> Earlier(IF left = None THEN None ELSE p.now + left, AbsoluteOf(p, c))]

EndInteraction(p, c) ==
  LET until == p.entries[c].state.clock.until
  IN  IF ~ClockIs(p, c, "Interaction") THEN p
      ELSE IF p.now >= until THEN p
      ELSE [SetClock(p, c, Resumed(p, c))
              EXCEPT !.entries[c].state.interactionMs = until - p.now]

\* begin_local_wait: only the request's allocation bounds the wait.
BeginLocalWait(p, c) ==
  LET until == p.requests[p.entries[c].state.request].deadline
  IN  CASE ClockIs(p, c, "Network") ->
             IF NetworkLeft(p, c) = 0 \/ until <= p.now THEN p
             ELSE Touch(SetClock(p, c, [at |-> "LocalWait", remaining |-> NetworkLeft(p, c),
                                        until |-> until]))
        [] ClockIs(p, c, "Shared") ->
             [p EXCEPT !.clocks[c] = ClockBeginWait(@, Max({0, until - p.now}), p.source)]
        [] OTHER -> p

EndLocalWait(p, c) ==
  CASE ClockIs(p, c, "LocalWait") -> Touch(SetClock(p, c, Resumed(p, c)))
    [] ClockIs(p, c, "Shared") -> [p EXCEPT !.clocks[c] = ClockEndWait(@, p.source)]
    [] OTHER -> p

\* install_setup_clock: the budget left moves to a clock shared with the adapter.
InstallSetupClock(p, c) ==
  LET clock == Settle(NewClock(p.entries[c].state.clock.until), p.source)
  IN  IF ~ClockIs(p, c, "Network") THEN p
      ELSE IF ~Alive(clock) THEN p
      ELSE Touch([SetClock(p, c, [at |-> "Shared"]) EXCEPT !.clocks = Put(@, c, clock)])

\* service_setup_clock: register the driver and acknowledge a pending phase.
ServiceSetupClock(p, c) ==
  IF ~HasSharedClock(p, c) THEN p
  ELSE [p EXCEPT !.clocks[c] = Acknowledge(RegisterDriver(@, p.source), p.source)]
=============================================================================
