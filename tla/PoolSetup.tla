------------------------------ MODULE PoolSetup ------------------------------
(***************************************************************************)
(* One connection being set up under a shared setup clock                  *)
(* (src/src/pool/setup_clock.rs, setup.rs, and service_setup_clock in      *)
(* asynchronous.rs): the pool and its driver, the adapter that publishes   *)
(* its phases on the clock and waits for the driver's acknowledgement, and *)
(* the clock's source, which runs ahead of what the host told the pool.    *)
(*                                                                         *)
(* The adapter is external: any order of calls on the clock it holds, also *)
(* after the pool has given the connection up.                             *)
(***************************************************************************)
EXTENDS PoolMachine

CONSTANTS
  Request,      \* the one request of the instance, with `absolute`
  Kinds, LocalMs,  \* the kinds and lengths of the local phases the adapter prepares
  MaxTime, MaxPhase   \* bounds

VARIABLES
  pool,
  token,         \* the adapter's PreparedPhase, or None
  waits,         \* the phase of the receipt the adapter awaits, or None
  adapterAsleep, \* its wait is parked
  driverAsleep,  \* the driver is parked after servicing the clock
  left           \* ghost: the network time the setup may still use

vars == <<pool, token, waits, adapterAsleep, driverAsleep, left>>

Init ==
  /\ pool = NewPool
  /\ token = None /\ waits = None
  /\ adapterAsleep = FALSE /\ driverAsleep = FALSE
  /\ left = None

Installed == DOMAIN pool.clocks # {}
Conn == 1
Clock == pool.clocks[Conn]
Now == pool.source

\* The wakers a critical section collected are woken after the locks are released.
Deliver(p) ==
  LET wakes == UNION {p.clocks[c].wakes : c \in DOMAIN p.clocks}
  IN  /\ pool' = [p EXCEPT !.touched = FALSE,
                           !.clocks = [c \in DOMAIN @ |-> [@[c] EXCEPT !.wakes = {}]]]
      /\ driverAsleep' = (driverAsleep /\ ~p.touched /\ "driver" \notin wakes)
      /\ adapterAsleep' = (adapterAsleep /\ "waiter" \notin wakes)

\* A call that concerns only the pool and the driver.
PoolCall(p) == p # pool /\ Deliver(p) /\ UNCHANGED <<token, waits, left>>

-----------------------------------------------------------------------------
(* The pool's side. *)

Checkout ==
  /\ pool.requestSerial = 0
  /\ PoolCall(RequestUntil(pool, Request, Request.absolute))

CancelCheckout == \E id \in DOMAIN pool.requests : PoolCall(Cancel(pool, id))

Dispatch == ActionDue(pool) /\ PoolCall(NextAction(pool))

\* The driver hands the clock to the connector it starts.
Install ==
  /\ ~Installed /\ MayConnect(pool, Conn)
  /\ Deliver(InstallSetupClock(pool, Conn))
  /\ left' = IF pool.entries[Conn].state.clock.until = None THEN None
             ELSE pool.entries[Conn].state.clock.until - Now
  /\ UNCHANGED <<token, waits>>

\* The driver services the clock and parks until a waker or the host runs it.
Service ==
  /\ Installed /\ ~driverAsleep
  /\ LET p == ServiceSetupClock(pool, Conn)
         wakes == p.clocks[Conn].wakes
     IN  /\ pool' = [p EXCEPT !.clocks[Conn].wakes = {}]
         /\ driverAsleep' = ("driver" \notin wakes)
         /\ adapterAsleep' = (adapterAsleep /\ "waiter" \notin wakes)
  /\ UNCHANGED <<token, waits, left>>

LocalWait ==
  /\ Installed
  /\ PoolCall(BeginLocalWait(pool, Conn)) \/ PoolCall(EndLocalWait(pool, Conn))

ReportConnected(result) ==
  /\ Installed /\ MayConnect(pool, Conn)
  /\ PoolCall(Connected(pool, Conn, result))

\* The host brings the pool to the present.
AdvancePool == Now > pool.now /\ PoolCall(Advance(pool, Now))

StopPool ==
  /\ ~pool.stopped
  /\ PoolCall(Shutdown(pool)) \/ PoolCall(DriverLost(pool))

-----------------------------------------------------------------------------
(* The adapter's side: calls on the clock alone. *)

OnClock(k) == Deliver([pool EXCEPT !.clocks[Conn] = k])

Prepare(kind, ms) ==
  LET k == PrepareLocal(Clock, kind, Now + ms, Now)
  IN  /\ Installed /\ token = None /\ Clock.serial < MaxPhase
      /\ OnClock(k)
      /\ token' = IF k.serial > Clock.serial THEN k.serial ELSE None
      /\ UNCHANGED <<waits, left>>

\* The adapter awaits the receipt of what it published, when it got one.
Awaiting(k) == waits' = IF k.slot # None /\ k.slot.at = "Pending" THEN k.phase ELSE waits

Publish ==
  LET k == PublishLocal(Clock, token, Now)
  IN  /\ token # None /\ waits = None
      /\ OnClock(k)
      /\ Awaiting(k)
      /\ token' = None
      /\ UNCHANGED left

DropToken ==
  /\ token # None
  /\ OnClock(DropPrepared(Clock, token, Now))
  /\ token' = None
  /\ UNCHANGED <<waits, left>>

PublishNet ==
  LET k == PublishNetwork(Clock, Now)
  IN  /\ Installed /\ waits = None /\ Clock.serial < MaxPhase
      /\ OnClock(k)
      /\ Awaiting(k)
      /\ UNCHANGED <<token, left>>

\* One poll of wait_acknowledged.
PollReceipt ==
  LET k == AwaitReceipt(Clock, waits, Now)
  IN  /\ waits # None /\ ~adapterAsleep
      /\ pool' = [pool EXCEPT !.clocks[Conn] = [k EXCEPT !.wakes = {}]]
      /\ driverAsleep' = (driverAsleep /\ "driver" \notin k.wakes)
      /\ IF ReceiptReady(k, waits)
         THEN waits' = None /\ adapterAsleep' = FALSE
         ELSE adapterAsleep' = TRUE /\ UNCHANGED waits
      /\ UNCHANGED <<token, left>>

\* Dropping a wait that had parked cancels the setup.
DropReceipt ==
  /\ waits # None /\ adapterAsleep
  /\ OnClock(Terminate(Clock, "Cancelled", Now))
  /\ waits' = None
  /\ UNCHANGED <<token, left>>

\* begin_network_wait, network_progress, and a failure of the resource.
Network ==
  /\ Installed
  /\ \E k \in {BeginNetworkWait(Clock, Now), NetworkProgress(Clock, Now),
               Terminate(Clock, "Failed", Now)} \ {Clock} : OnClock(k)
  /\ UNCHANGED <<token, waits, left>>

\* Time passes for the source; the network pays for it unless a local phase runs.
Tick ==
  /\ Now < MaxTime
  /\ pool' = [pool EXCEPT !.source = @ + 1]
  /\ left' = IF /\ Installed /\ left # None
                /\ Alive(Settle(Clock, Now)) /\ Clock.local = None
             THEN left - 1 ELSE left
  /\ UNCHANGED <<token, waits, adapterAsleep, driverAsleep>>

\* The connector still runs, the clock is alive or its outcome awaited.
InSetup == Installed => MayConnect(pool, Conn) \/ Alive(Clock) \/ waits # None

Steps ==
  \/ Checkout \/ CancelCheckout \/ Dispatch \/ Install \/ Service
  \/ LocalWait \/ AdvancePool \/ StopPool
  \/ \E result \in {"Failed", "Unproven", "Proven", "Mismatch"} : ReportConnected(result)
  \/ \E kind \in Kinds, ms \in LocalMs : Prepare(kind, ms)
  \/ Publish \/ DropToken \/ PublishNet \/ PollReceipt \/ DropReceipt \/ Network
  \/ Tick

\* An instance ends when its one setup has.
Next == InSetup /\ Steps

\* A woken driver services the clock, a woken adapter polls its wait.
Fairness == WF_vars(Service) /\ WF_vars(PollReceipt)

Spec == Init /\ [][Next]_vars /\ Fairness

-----------------------------------------------------------------------------
(* Properties. *)

\* However often local phases and waits pause and resume it, the network
\* allowance the pool gave the clock is spent by network time alone, exactly.
BudgetExact ==
  Installed /\ left # None /\ Alive(Settle(Clock, Now)) =>
    Clock.aggregate = left + (IF Clock.local = None THEN Now ELSE 0)

\* A request whose setup the shared clock arbitrates is answered with the
\* clock's one outcome: it becomes ready only if the clock ended in Completed,
\* and fails only with the clock's terminal record.
VerdictAgrees ==
  [][\A id \in DOMAIN pool.requests :
       LET state == pool.requests[id].state
           next == pool'.requests[id].state
       IN  state.at = "Opening" /\ id \in DOMAIN pool'.requests =>
             (HasSharedClock(pool, state.connection) /\ next # state =>
                LET terminal == pool'.clocks[state.connection].terminal
                IN  /\ terminal # None
                    /\ next.at = "Ready" => terminal.cause = "Completed"
                    /\ next.at = "Failed" => next.error = SetupEnded(terminal)
                                             /\ terminal.cause # "Completed")]_vars

\* The wait for an acknowledgement ends: the driver is woken for every phase
\* published and the adapter for its receipt or for the end of the setup.
ReceiptSettles == (waits # None) ~> (waits = None)
=============================================================================
