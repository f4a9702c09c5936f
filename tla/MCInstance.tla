------------------------------ MODULE MCInstance ------------------------------
(* An instance of Instance for TLC. *)
EXTENDS Instance

CONSTANTS b1, b2

Web == [scheme |-> "Https", user |-> "none", host |-> "h", port |-> 443]
MCKey == {Web}
MCAsked == [key |-> Web, identity |-> "Https"]

Room(n) == [perUserHost |-> n, perHost |-> n, total |-> n, maxRequests |-> 3]
OneRoom == Room(1)
TwoRooms == Room(2)

\* Both bindings authenticate under one scope.
MCScope == [x \in {b1, b2} |-> "s"]
Two == {<<b1, 1>>, <<b2, 1>>}
MCExchanges == Two \cup {<<b1, 2>>}
Course(exchanges, events, time) ==
  [exchanges |-> exchanges, events |-> events, maxTime |-> time]

MCCourses ==
  {Course(MCExchanges, {}, 0),
   Course(Two, {"Drop", "Cancel"}, 0),
   Course(Two, {"Drop", "Seal"}, 0),
   Course(Two, {"Drop", "IdleLost", "Break", "EpochJump", "Retire"}, 0),
   Course(Two, {}, 3)}
=============================================================================
