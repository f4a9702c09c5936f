--------------------------- MODULE MCStreamAnyPeer ---------------------------
(* Instances of StreamAnyPeer for TLC: the peer's messages as finite sets. *)
EXTENDS StreamAnyPeer

Per(initiator, endpoint) ==
  [s \in Side |-> IF s = "Initiator" THEN initiator ELSE endpoint]
One == Per(1, 1)
Barriers == [id: {1}, offset: Offset] \cup [id: {2}, offset: {1}]
Ends == {Cancel("Timeout"), Failed("Refused")}

\* Every kind, at every offset, with payloads up to one byte too long.
AnyMessages ==
  {Data(o, n) : o \in Offset, n \in 0 .. MaxPayload + 1}
    \cup {Window(o) : o \in Offset}
    \cup {Flush(b) : b \in Barriers} \cup {Flushed(b) : b \in Barriers}
    \cup {EndWrite(o) : o \in Offset} \cup {Close(o) : o \in Offset}
    \cup {Closed([failed |-> f, discarded |-> FALSE]) : f \in BOOLEAN}
    \cup Ends

=============================================================================
