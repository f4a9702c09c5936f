------------------------------- MODULE IoClock -------------------------------
(***************************************************************************)
(* The active-I/O clock of one stream (src/src/stream/io_clock.rs): which  *)
(* kind of backend wait the endpoint host reports, what is left of the two *)
(* allowances, and the deadline of the wait that is running.  The clock is *)
(* a value inside the stream machine, so the operations are operators from *)
(* a clock to a clock.                                                     *)
(*                                                                         *)
(* Times are milliseconds as natural numbers: the code saturates at        *)
(* 2^64 - 1 ms, some 580 million years, which no host clock reaches.       *)
(***************************************************************************)
EXTENDS Integers

CONSTANT None       \* Rust's Option::None

ASSUME NoneAssumption == None \notin Int

IoState == {"Idle", "Network", "Backpressure", "Interaction"}

Clock ==
  [state: IoState, network: Nat, interaction: Nat, deadline: Nat \cup {None}]

NewClock(network_ms, interaction_ms) ==
  [state |-> "Idle", network |-> network_ms, interaction |-> interaction_ms,
   deadline |-> None]

\* u64::saturating_sub
SaturatingSub(a, b) == IF a > b THEN a - b ELSE 0

\* Mutant: leaving a wait clears its deadline and charges nothing.
AccountFree(c, now) == [c EXCEPT !.deadline = None]

\* The running wait is charged to its own allowance and its deadline cleared.
Account(c, now) ==
  LET remaining == SaturatingSub(c.deadline, now)
  IN  IF c.deadline = None
      THEN c
      ELSE [c EXCEPT !.network = IF c.state = "Network" THEN remaining ELSE @,
                     !.interaction = IF c.state = "Interaction" THEN remaining ELSE @,
                     !.deadline = None]

\* A network allowance of zero is a disabled timeout; an interaction
\* allowance of zero is an exhausted one.
SetState(c, now, state) ==
  LET charged == Account(c, now)
  IN  IF c.state = state
      THEN c
      ELSE [charged EXCEPT
              !.state = state,
              !.deadline = IF state = "Network" /\ charged.network > 0
                             THEN now + charged.network
                           ELSE IF state = "Interaction"
                             THEN now + charged.interaction
                           ELSE None]

\* Bytes really moved: the network allowance starts again.
Progress(c, now, timeout_ms) ==
  [c EXCEPT !.network = timeout_ms,
            !.deadline = IF timeout_ms > 0 THEN now + timeout_ms ELSE None]

Stop(c, now) == [Account(c, now) EXCEPT !.state = "Idle"]

\* IoClock::status: what is left of each allowance at this moment.
RemainingNetwork(c, now) ==
  IF c.state = "Network" /\ c.deadline # None
  THEN SaturatingSub(c.deadline, now) ELSE c.network
RemainingInteraction(c, now) ==
  IF c.state = "Interaction" /\ c.deadline # None
  THEN SaturatingSub(c.deadline, now) ELSE c.interaction

Due(c, now) == c.deadline # None /\ now >= c.deadline
=============================================================================
