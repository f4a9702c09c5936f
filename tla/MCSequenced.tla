----------------------------- MODULE MCSequenced -----------------------------
(* An instance of Sequenced for TLC. *)
EXTENDS Sequenced, TLC

CONSTANTS a, b

Streams == {a, b}
AnyStream == Permutations(Streams)

\* Producers open, send, and end in order or abruptly.
Producers == [d \in Direction |->
  IF d = "Initiator" THEN {"Open", "Close", "Cancel"}
  ELSE {"Opened", "Data", "Closed", "Failed"}]

\* Frames no producer sent: another content, a final or an abortive kind.
Strays == {[stream |-> s, seq |-> f[1], kind |-> f[2], body |-> "other"] :
             s \in Streams, f \in {<<1, "Open">>, <<3, "Failed">>}}

Charges == [k \in Kind |-> IF k = "Data" THEN 2 ELSE 1]
=============================================================================
