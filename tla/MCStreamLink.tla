---------------------------- MODULE MCStreamLink ----------------------------
(* Instances of StreamLink for TLC: sizes per side as definitions. *)
EXTENDS StreamLink

Per(initiator, endpoint) ==
  [s \in Side |-> IF s = "Initiator" THEN initiator ELSE endpoint]

One == Per(1, 1)
Two == Per(2, 2)
Nothing == Per(0, 0)

\* Exchanges that nothing disturbs, one way past the window and both ways at
\* once, and short ones that end in other ways: by cancellations and refusals
\* that cross, by a timeout or a lost carrier.
Undisturbed(bytes, flushes) ==
  [bytes |-> bytes, flushes |-> flushes, maxTime |-> 0, events |-> {}]
Disturbed(time, events) ==
  [bytes |-> Per(0, 1), flushes |-> Nothing, maxTime |-> time, events |-> events]
MCCourses == {Undisturbed(Per(2, 0), Per(1, 0)), Undisturbed(Per(0, 2), Per(0, 1)),
              Undisturbed(One, One),
              Disturbed(0, {"Cancel", "Refusal"}), Disturbed(1, {"CarrierLoss"})}
=============================================================================
