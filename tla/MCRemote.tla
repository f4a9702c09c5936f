------------------------------- MODULE MCRemote -------------------------------
(* Instances of Remote for TLC. *)
EXTENDS Remote

CONSTANTS r1, r2

Limits == [frame |-> 1, queued |-> 4, reserve |-> 1, window |-> 1]

MCOffer ==
  [versions |-> {2}, role |-> "Driver", schemes |-> {"Ssh", "Https"},
   policies |-> {"SshAmbient", "Gh"}, limits |-> Limits]
MCEndpoint ==
  [id |-> "e", role |-> "Driver", schemes |-> {"Ssh"}, policies |-> {"SshAmbient"},
   limits |-> Limits]

Ask(service, scheme, policy, answer) ==
  [service |-> service, scheme |-> scheme, policy |-> policy, answer |-> answer]
Push == Ask("ReceivePackExchange", "Ssh", "SshAmbient", "serve")
Fetch == Ask("UploadPackExchange", "Ssh", "SshAmbient", "refuse")
NoRoute == Ask("UploadPackExchange", "Https", "Gh", "serve")

MCInvocation == [r \in Requests |-> IF r = r1 THEN "Served" ELSE "Closing"]
MCSpecs == {Push}
MCMixed == {Push, Fetch, NoRoute}
=============================================================================
