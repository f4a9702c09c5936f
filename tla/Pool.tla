--------------------------------- MODULE Pool ---------------------------------
(***************************************************************************)
(* The pool behind its mutex (src/src/pool/asynchronous.rs): checkouts and *)
(* leases owned by clients, the one driver of the host, and the wakers     *)
(* that link them.  Every action is one critical section of Shared::change *)
(* over the machine of PoolMachine.  A poll that finds nothing changes no  *)
(* state but its own waker, which stays registered: the model keeps, in    *)
(* place of the wakers, whether the last call woke all of them.            *)
(*                                                                         *)
(* The host is external: it does what the commands say, reports what       *)
(* happened, and may report in any order and at any time.                  *)
(***************************************************************************)
EXTENDS PoolMachine

CONSTANTS
  Templates,   \* the requests clients make, with `absolute`
  Outcomes,    \* of a connector: in Failed, Unproven, Proven, Mismatch
  Scopes,      \* HTTPS credential scopes
  SiteLimits, Settles,  \* the numbers the host may set
  MaxRequests, MaxTime,
  MaxEvents    \* bounds, the last on what Disturb counts

VARIABLES
  pool,      \* Runtime::machine
  woken,     \* the last call woke every registered waker
  held,      \* the leases clients hold
  host,      \* the host's resources: connection -> "connecting" or "open"
  driver,    \* the PoolDriver exists
  events     \* cancellations, losses, settings and stops so far

vars == <<pool, woken, held, host, driver, events>>

Init ==
  /\ pool = NewPool
  /\ woken = FALSE
  /\ held = {}
  /\ host = <<>>
  /\ driver = TRUE
  /\ events = 0

\* Shared::change: a moved revision wakes every registered future.
Change(p) ==
  /\ pool' = [p EXCEPT !.touched = FALSE]
  /\ woken' = p.touched

\* What cuts across the ordinary course of a checkout is bounded.
Disturb ==
  /\ events < MaxEvents
  /\ events' = events + 1

-----------------------------------------------------------------------------
(* Clients. *)

Checkout(req) ==
  /\ pool.requestSerial < MaxRequests
  /\ MayRequest(pool, req, req.absolute)
  /\ Change(RequestUntil(pool, req, req.absolute))
  /\ UNCHANGED <<held, host, driver, events>>

\* The poll of a Checkout that takes its answer.
PollCheckout(id) ==
  /\ Answered(pool, id)
  /\ Change(Take(pool, id))
  /\ held' = held \cup (IF pool.requests[id].state.at = "Ready"
                        THEN {pool.requests[id].state.lease} ELSE {})
  /\ UNCHANGED <<host, driver, events>>

DropCheckout(id) ==
  /\ Disturb
  /\ id \in DOMAIN pool.requests
  /\ Change(Abandon(pool, id))
  /\ UNCHANGED <<held, host, driver>>

\* Lease::release; dropping a lease discards its connection.
ReleaseLease(lease, reusable) ==
  /\ Change(Release(pool, lease, reusable))
  /\ held' = held \ {lease}
  /\ UNCHANGED <<host, driver, events>>

ReleaseUnusedLease(lease) ==
  /\ Change(ReleaseUnused(pool, lease))
  /\ held' = held \ {lease}
  /\ UNCHANGED <<host, driver, events>>

ScopeLease(lease, scope) ==
  /\ ScopeHttps(pool, lease, scope) # pool
  /\ Change(ScopeHttps(pool, lease, scope))
  /\ UNCHANGED <<held, host, driver, events>>

\* cancel_operation and cancel_session.
CancelOwned(owners) ==
  /\ Disturb
  /\ CancelOwners(pool, owners) # pool
  /\ Change(CancelOwners(pool, owners))
  /\ UNCHANGED <<held, host, driver>>

RetireScope(scope) ==
  /\ Disturb
  /\ \E c \in DOMAIN pool.entries : pool.entries[c].identity = scope
  /\ Change(RetireHttpsScope(pool, scope))
  /\ UNCHANGED <<held, host, driver>>

\* PoolControl: one number set on a site.
Control(p) ==
  /\ Disturb
  /\ p # pool
  /\ Change(p)
  /\ UNCHANGED <<held, host, driver>>

SetSite(site) ==
  \/ \E n \in SiteLimits : Control(SetLimit(pool, site, n))
  \/ Control(ClearLimit(pool, site))
  \/ \E ms \in Settles : Control(SetSettle(pool, site, ms))
  \/ \E on \in BOOLEAN : Control(SetNoEvict(pool, site, on))
  \/ Control(DiscardIdle(pool, site))

\* Pool::shutdown, and the drop of the last Pool.
ShutdownPool ==
  /\ Disturb
  /\ ~pool.stopped
  /\ Change(Shutdown(pool))
  /\ UNCHANGED <<held, host, driver>>

-----------------------------------------------------------------------------
(* The driver and its host. *)

\* The poll of PoolDriver::next_action that finds a command; on Connect the
\* host starts a connector.
DriverPoll ==
  /\ driver /\ ActionDue(pool)
  /\ Change(NextAction(pool))
  /\ host' = IF CleanupDue(pool) = {}
             THEN Put(host, NextTarget(pool), "connecting") ELSE host
  /\ UNCHANGED <<held, driver, events>>

\* A connector ends; a resource the pool does not adopt is disposed by the host.
ConnectorReports(c, result) ==
  /\ driver /\ c \in DOMAIN host /\ host[c] = "connecting"
  /\ Change(Connected(pool, c, result))
  /\ host' = IF result # "Failed" /\ MayConnect(pool, c)
             THEN [host EXCEPT ![c] = "open"] ELSE Without(host, c)
  /\ UNCHANGED <<held, driver, events>>

\* The host disposed what Close or Abort named.
HostCloses(c) ==
  /\ driver /\ c \in DOMAIN host
  /\ At(pool, c, "Closing") /\ CleanupSent(pool.entries[c].state.cleanup)
  /\ Change(Closed(pool, c))
  /\ host' = Without(host, c)
  /\ UNCHANGED <<held, driver, events>>

\* A resource not leased is lost and disposed.
HostLosesIdle(c) ==
  /\ Disturb
  /\ driver /\ c \in DOMAIN host /\ host[c] = "open"
  /\ At(pool, c, "Idle") \/ At(pool, c, "Closing")
  /\ Change(IdleClosed(pool, c))
  /\ host' = Without(host, c)
  /\ UNCHANGED <<held, driver>>

\* The adapter of a connector pauses and resumes the connect clock.
ConnectorPauses(c) ==
  /\ driver /\ c \in DOMAIN host /\ host[c] = "connecting"
  /\ \E p \in {BeginInteraction(pool, c), EndInteraction(pool, c),
               BeginLocalWait(pool, c), EndLocalWait(pool, c)} \ {pool} : Change(p)
  /\ UNCHANGED <<held, host, driver, events>>

Tick(now) ==
  /\ driver /\ now > pool.now
  /\ Change(Advance([pool EXCEPT !.source = now], now))
  /\ UNCHANGED <<held, host, driver, events>>

\* The machine's expire_idle, when the host's clock jumped.
ClockJumps ==
  /\ Disturb
  /\ Entries(pool, "Idle") # {}
  /\ Change(ExpireIdle(pool))
  /\ UNCHANGED <<held, host, driver>>

\* Drop of the PoolDriver; the host disposed its resources before.
DropDriver ==
  /\ Disturb
  /\ driver
  /\ Change(DriverLost(pool))
  /\ driver' = FALSE
  /\ host' = <<>>
  /\ UNCHANGED held

Owners == {req.owner : req \in Templates}
OwnerSets == {{o} : o \in Owners}
             \cup {{o \in Owners : o.session = q.session} : q \in Owners}

ClientStep ==
  \/ \E req \in Templates : Checkout(req)
  \/ \E id \in DOMAIN pool.requests : PollCheckout(id) \/ DropCheckout(id)
  \/ \E lease \in held : \/ \E reusable \in BOOLEAN : ReleaseLease(lease, reusable)
                         \/ ReleaseUnusedLease(lease)
                         \/ \E scope \in Scopes : ScopeLease(lease, scope)
  \/ \E owners \in OwnerSets : CancelOwned(owners)
  \/ \E scope \in Scopes : RetireScope(scope)
  \/ \E site \in Site : SetSite(site)
  \/ ShutdownPool

HostStep ==
  \/ DriverPoll
  \/ \E c \in DOMAIN host :
       \/ \E result \in Outcomes :
            ConnectorReports(c, result)
       \/ HostCloses(c)
       \/ HostLosesIdle(c)
       \/ ConnectorPauses(c)
  \/ \E now \in 1 .. MaxTime : Tick(now)
  \/ ClockJumps
  \/ DropDriver

Next == ClientStep \/ HostStep

Spec == Init /\ [][Next]_vars

-----------------------------------------------------------------------------
(* Properties. *)

\* The machine's expect()s hold: a request that is opening or ready and the
\* connection made or leased for it name each other, and a ready lease fits
\* what was asked for (key, identity, not excluded).  Of a leased connection
\* exactly one side, the request or a client's lease, owns the release.
RequestsBacked ==
  /\ \A id \in DOMAIN pool.requests :
       LET state == pool.requests[id].state
           req == pool.requests[id].req
       IN  /\ state.at = "Opening" =>
                /\ At(pool, state.connection, "Opening")
                /\ pool.entries[state.connection].state.request = id
                /\ pool.entries[state.connection].state.cancel = None
           /\ state.at = "Ready" =>
                /\ IsLive(pool, state.lease)
                /\ pool.entries[state.lease.connection].state.request = id
                /\ pool.entries[state.lease.connection].key = req.key
                /\ pool.entries[state.lease.connection].identity = req.identity
                /\ state.lease.connection \notin req.exclude
  /\ \A c \in DOMAIN pool.entries :
       LET state == pool.entries[c].state
       IN  /\ state.at = "Opening" =>
                IF state.cancel = None
                THEN /\ state.request \in DOMAIN pool.requests
                     /\ pool.requests[state.request].state = OpeningFor(c)
                ELSE state.request = None
           /\ state.at = "Leased" =>
                IF state.request = None THEN state.lease \in held
                ELSE /\ state.request \in DOMAIN pool.requests
                     /\ pool.requests[state.request].state = Ready(state.lease)

\* Every resource of the host is an entry of the pool and so counted: it is
\* connecting exactly while its entry opens under a connect clock.
ResourcesCounted ==
  driver => \A c \in 1 .. pool.connectionSerial :
    /\ c \in DOMAIN host <=> c \in DOMAIN pool.entries /\ ~ConnectDue(pool, c)
    /\ c \in DOMAIN host => (host[c] = "connecting" <=> At(pool, c, "Opening"))

\* The pool's tables, its callers and its host's resources agree, whatever was
\* cancelled, expired, failed or closed in between.
Accounted == RequestsBacked /\ ResourcesCounted

\* The largest ceiling a request brings.
Ceiling(d) == Max({CeilingsFor(req)[d] : req \in Templates})

\* No step takes the connections and held slots of a user, host or site, the
\* connections of the endpoint, or what a session has opening or leased, above
\* the bounds in force.
NoGrowthPastCaps ==
  [][LET grows(n, m) == n < m
     IN  /\ grows(Cardinality(DOMAIN pool.entries), Cardinality(DOMAIN pool'.entries)) =>
              Cardinality(DOMAIN pool'.entries) <= Ceiling("total")
         /\ \A k \in Key :
              /\ grows(Total(pool, SameHost(k)), Total(pool', SameHost(k))) =>
                   Total(pool', SameHost(k)) <= Ceiling("perHost")
              /\ grows(Total(pool, SameUserHost(k)), Total(pool', SameUserHost(k))) =>
                   Total(pool', SameUserHost(k)) <= Ceiling("perUserHost")
              /\ grows(Total(pool, SameSite(k)), Total(pool', SameSite(k)))
                   /\ pool'.limits[OnSite(k)] # None =>
                   Total(pool', SameSite(k)) <= pool'.limits[OnSite(k)]
         /\ \A req \in Templates :
              grows(Cardinality(OwnedBy(pool, req.owner.session)),
                    Cardinality(OwnedBy(pool', req.owner.session))) =>
                Cardinality(OwnedBy(pool', req.owner.session)) <= LimitsOf(req).total]_vars

\* No wakeup is lost: a call that wakes nobody gives no parked checkout an
\* answer, no parked driver a command to run or a completed shutdown to report.
NoLostWake ==
  [][~woken' =>
       /\ \A id \in DOMAIN pool'.requests :
            Answered(pool', id) => id \in DOMAIN pool.requests /\ Answered(pool, id)
       /\ ActionDue(pool') => ActionDue(pool)
       /\ ShutdownComplete(pool') => ShutdownComplete(pool)]_vars

\* A host that sleeps until next_deadline misses nothing: reading the clock at
\* any instant before it changes only the clock.
DeadlineComplete ==
  driver => \A t \in pool.now .. MaxTime :
    (NextDeadline(pool) = None \/ t < NextDeadline(pool)) =>
      Advance(pool, t) = [pool EXCEPT !.now = t]
=============================================================================
