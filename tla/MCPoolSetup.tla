----------------------------- MODULE MCPoolSetup -----------------------------
(* Instances of PoolSetup for TLC. *)
EXTENDS PoolSetup

Shell == [scheme |-> "Ssh", user |-> "u", host |-> "h", port |-> 22]
MCKey == {Shell}
MCConfig == [perUserHost |-> 1, perHost |-> 1, total |-> 1, maxRequests |-> 1]
MCRequest ==
  [key |-> Shell, identity |-> "Ambient", owner |-> [session |-> "s", operation |-> "o"],
   allocationMs |-> None, connectMs |-> None, interactionMs |-> None,
   fresh |-> FALSE, exclude |-> {}, limits |-> None,
   prefer |-> None, preferWaitMs |-> None, absolute |-> None]
=============================================================================
