------------------------------- MODULE MCMuxLink -------------------------------
(* Instances of MuxLink for TLC. *)
EXTENDS MuxLink

CONSTANT r1

Small == [frame |-> 1, queued |-> 2, reserve |-> 1, window |-> 1]
Large == [frame |-> 1, queued |-> 3, reserve |-> 1, window |-> 1]

Offer(limits) ==
  [versions |-> {2}, role |-> "Driver", schemes |-> {"Ssh", "Https"},
   policies |-> {"SshAmbient", "SshExplicit", "Anonymous", "Gh",
                 "WindowsConfigured", "WindowsDefault"},
   limits |-> limits]
MCOffers == {Offer(Large)}

Endpoint(role, limits) ==
  [id |-> "e", role |-> role, schemes |-> {"Ssh"}, policies |-> {"SshAmbient"},
   limits |-> limits]
MCEndpoints == {Endpoint("Driver", Small), Endpoint("Local", Small)}

Opening == [kind |-> "Open",
            body |-> [endpoint |-> "e", scheme |-> "Ssh", policy |-> "SshAmbient",
                      limits |-> Small, operation |-> None]]
Checking == [kind |-> "CheckIdentity",
             body |-> [endpoint |-> "e", timeout |-> 1, operation |-> None]]
MCStarters == {Opening, Checking}

Reply(method, endpoint) ==
  [facts |-> [method |-> method, source |-> None, offered |-> FALSE],
   endpoint |-> endpoint, limits |-> Small, reused |-> FALSE]
MCOpened == {Reply("Key", "e"), Reply("Sspi", "f")}

\* The first request is cancelled on both sides, the others never.
MCCancels == Sides \X {r1}
=============================================================================
