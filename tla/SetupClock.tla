------------------------------ MODULE SetupClock ------------------------------
(***************************************************************************)
(* The arbiter of one connection's setup (src/src/pool/setup_clock.rs and  *)
(* its state and transitions): the aggregate and stall timers of the       *)
(* network, the local phases that pause them, the slot of a phase being    *)
(* published and the one terminal outcome.                                 *)
(*                                                                         *)
(* Every operator maps the state behind the clock's mutex to the state     *)
(* after one critical section; t is what the clock's source reads in it,   *)
(* which never goes back (`change` takes the maximum with its last `now`). *)
(* A timer is Disabled (None), Inactive, or the instant it ends; a paused  *)
(* timer holds what it had left.  The two registered wakers are "waiter"   *)
(* (the adapter's wait for an acknowledgement) and "driver"; `wakes` are   *)
(* the ones to deliver after the lock is released.                         *)
(***************************************************************************)
EXTENDS Integers, FiniteSets

CONSTANTS
  None,      \* an absent value
  Inactive,  \* the stall timer before the first network wait
  StallMs    \* the stall allowance, 0 to disable it

LocalPhase == {"Admission", "Interaction", "Wait"}

\* State::new.
NewClock(until) ==
  [serial |-> 0, phase |-> 0, local |-> None, localUntil |-> None,
   aggregate |-> until, stall |-> IF StallMs = 0 THEN None ELSE Inactive,
   slot |-> None, acknowledged |-> TRUE, terminal |-> None,
   registered |-> {}, wakes |-> {}]

Alive(k) == k.terminal = None

\* Timer::deadline.
Runs(timer) == timer \notin {None, Inactive}

Pause(timer, now) == IF Runs(timer) THEN timer - now ELSE timer
Resume(timer, now) == IF Runs(timer) THEN timer + now ELSE timer

\* State::deadline: the local bound, or the earlier network timer.
SetupDeadline(k) ==
  LET network == {d \in {k.aggregate, k.stall} : Runs(d)}
  IN  IF k.local # None THEN k.localUntil
      ELSE IF network = {} THEN None
      ELSE CHOOSE d \in network : \A e \in network : d <= e

\* cached_deadline: a terminal clock is due since it was last read.
CachedDeadline(k) == IF Alive(k) THEN SetupDeadline(k) ELSE 0

\* State::finish: the first outcome wins and wakes both sides.  Nothing decides
\* by the timers of an ended setup again, so they are cleared.
Finish(k, cause, phase) ==
  IF ~Alive(k) THEN k
  ELSE [k EXCEPT !.terminal = [phase |-> phase, cause |-> cause],
                 !.slot = None,
                 !.aggregate = None, !.stall = None, !.local = None, !.localUntil = None,
                 !.acknowledged = TRUE,
                 !.wakes = @ \cup k.registered,
                 !.registered = {}]

\* What State::settle finds expired: of two due network timers, the earlier.
Expiry(k, t) ==
  LET due == {d \in {k.aggregate, k.stall} : Runs(d) /\ d <= t}
  IN  IF k.local # None
      THEN IF k.localUntil > t THEN None
           ELSE IF k.local = "Wait" THEN "LocalWaitExpired" ELSE "LocalDeadline"
      ELSE IF due = {} THEN None
      ELSE IF k.aggregate \in due /\ (k.stall \in due => k.aggregate <= k.stall)
      THEN "NetworkAggregate" ELSE "NetworkStall"

Prepared(k) == k.slot # None /\ k.slot.at = "Prepared"

\* SetupClock::change up to its action: read the source, then State::settle.
Settle(k, t) ==
  LET ended == IF Alive(k) /\ Expiry(k, t) # None THEN Finish(k, Expiry(k, t), k.phase) ELSE k
  IN  IF Prepared(ended) THEN [ended EXCEPT !.slot.expired = @ \/ ended.slot.until <= t]
      ELSE ended

-----------------------------------------------------------------------------

Terminate(k, cause, t) ==
  LET s == Settle(k, t) IN Finish(s, cause, s.phase)

\* register_driver: a terminal clock keeps no waker.
RegisterDriver(k, t) ==
  LET s == Settle(k, t)
  IN  IF Alive(s) THEN [s EXCEPT !.registered = @ \cup {"driver"}] ELSE s

\* pending_receipt and acknowledge, as the driver calls them in one step.
Acknowledge(k, t) ==
  LET s == Settle(k, t)
  IN  IF ~Alive(s) \/ s.slot = None THEN s
      ELSE IF s.slot.at # "Pending" THEN s
      ELSE [s EXCEPT !.slot = None, !.acknowledged = TRUE,
                     !.wakes = @ \cup (s.registered \cap {"waiter"}),
                     !.registered = @ \ {"waiter"}]

\* wait_acknowledged is ready, with the error, the stale token or the receipt.
ReceiptReady(s, phase) == ~Alive(s) \/ s.phase # phase \/ s.acknowledged

\* One poll of wait_acknowledged.
AwaitReceipt(k, phase, t) ==
  LET s == Settle(k, t)
  IN  IF ReceiptReady(s, phase) THEN s
      ELSE [s EXCEPT !.registered = @ \cup {"waiter"}]

CanComplete(s) == Alive(s) /\ s.local = None /\ s.acknowledged /\ s.slot = None

\* admit_completed.
AdmitCompleted(k, t) ==
  LET s == Settle(k, t)
  IN  IF CanComplete(s) THEN Finish(s, "Completed", s.phase) ELSE s

-----------------------------------------------------------------------------
(* transitions.rs *)

PrepareLocal(k, kind, until, t) ==
  LET s == Settle(k, t)
  IN  IF ~Alive(s) \/ s.slot # None THEN s
      ELSE [s EXCEPT !.serial = @ + 1,
                     !.slot = [at |-> "Prepared", phase |-> s.serial + 1, kind |-> kind,
                               until |-> until, expired |-> until <= t]]

\* Drop of a PreparedPhase that was not published.
DropPrepared(k, phase, t) ==
  LET s == Settle(k, t)
  IN  IF Prepared(s) /\ s.slot.phase = phase THEN [s EXCEPT !.slot = None] ELSE s

Pending(phase) == [at |-> "Pending", phase |-> phase]

\* Mutant: a published phase does not reach the driver.
NotifyNobody(s) == s

NotifyDriver(s) == [s EXCEPT !.wakes = @ \cup (s.registered \cap {"driver"})]

\* Mutant: a local phase after a local phase pauses the timers again.
PublishLocalPauses(k, phase, t) ==
  LET s == Settle(k, t)
      paused == [s EXCEPT !.aggregate = Pause(@, t), !.stall = Pause(@, t)]
  IN  IF ~Alive(s) \/ ~Prepared(s) THEN s
      ELSE IF s.slot.phase # phase THEN s
      ELSE IF s.slot.expired THEN Finish(s, "PreparationDeadline", phase)
      ELSE NotifyDriver([paused EXCEPT
             !.local = s.slot.kind, !.localUntil = s.slot.until,
             !.phase = phase, !.slot = Pending(phase), !.acknowledged = FALSE])

PublishLocal(k, phase, t) ==
  LET s == Settle(k, t)
      paused == IF s.local # None THEN s
                ELSE [s EXCEPT !.aggregate = Pause(@, t), !.stall = Pause(@, t)]
  IN  CASE ~Alive(s) -> s
        [] Alive(s) /\ ~(Prepared(s) /\ s.slot.phase = phase) -> s
        [] OTHER ->
             IF s.slot.expired THEN Finish(s, "PreparationDeadline", phase)
             ELSE NotifyDriver([paused EXCEPT
                    !.local = s.slot.kind, !.localUntil = s.slot.until,
                    !.phase = phase, !.slot = Pending(phase), !.acknowledged = FALSE])

\* Both timers run again from what they had left.
ResumeNetwork(s, t) ==
  [s EXCEPT !.aggregate = Resume(@, t), !.stall = Resume(@, t),
            !.local = None, !.localUntil = None]

PublishNetwork(k, t) ==
  LET s == Settle(k, t)
  IN  IF ~Alive(s) \/ s.slot # None \/ s.local = None THEN s
      ELSE NotifyDriver([ResumeNetwork(s, t) EXCEPT
             !.serial = @ + 1, !.phase = s.serial + 1,
             !.slot = Pending(s.serial + 1), !.acknowledged = FALSE])

BeginNetworkWait(k, t) ==
  LET s == Settle(k, t)
  IN  IF Alive(s) /\ s.local = None /\ s.stall = Inactive
      THEN [s EXCEPT !.stall = t + StallMs] ELSE s

NetworkProgress(k, t) ==
  LET s == Settle(k, t)
  IN  IF Alive(s) /\ s.local = None /\ StallMs # 0
      THEN [s EXCEPT !.stall = t + StallMs] ELSE s

\* SetupClock::begin_local_wait: no slot, no acknowledgement.
ClockBeginWait(k, ms, t) ==
  LET s == Settle(k, t)
  IN  IF ~Alive(s) \/ s.local # None \/ s.slot # None THEN s
      ELSE [s EXCEPT !.aggregate = Pause(@, t), !.stall = Pause(@, t),
                     !.local = "Wait", !.localUntil = t + ms]

ClockEndWait(k, t) ==
  LET s == Settle(k, t)
  IN  IF Alive(s) /\ s.local = "Wait" THEN ResumeNetwork(s, t) ELSE s
=============================================================================
