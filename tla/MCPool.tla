-------------------------------- MODULE MCPool --------------------------------
(* Instances of Pool for TLC. *)
EXTENDS Pool

Ssh(user) == [scheme |-> "Ssh", user |-> user, host |-> "h", port |-> 22]
Web == [scheme |-> "Https", user |-> "none", host |-> "h", port |-> 443]

One == [perUserHost |-> 1, perHost |-> 1, total |-> 1, maxRequests |-> 3]
MCKey == {Ssh("u"), Web}

Plain(key, identity, session) ==
  [key |-> key, identity |-> identity,
   owner |-> [session |-> session, operation |-> "o"],
   allocationMs |-> None, connectMs |-> None, interactionMs |-> None,
   fresh |-> FALSE, exclude |-> {}, limits |-> None,
   prefer |-> None, preferWaitMs |-> None, absolute |-> None]

\* It waits for the first connection while that one's lease is finishing.
Shell == [Plain(Ssh("u"), "Ambient", "s") EXCEPT !.prefer = 1, !.preferWaitMs = 1]
\* A second session: it never reuses, and everything ends at an absolute time.
Fresh == [Plain(Ssh("u"), "Ambient", "t") EXCEPT !.fresh = TRUE, !.absolute = 2]
Page == [Plain(Web, "Https", "w") EXCEPT !.limits = One]

OneTemplates == {Shell, Fresh, Page}
=============================================================================
