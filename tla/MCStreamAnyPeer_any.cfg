SPECIFICATION Spec
CONSTANTS
  None = None
  Sides = {"Initiator", "Endpoint"}
  SendBuffer <- One
  ReceiveWindow <- One
  MaxPayload = 1
  CoalesceDelay = 1
  CloseTimeout = 1
  IoTimeout = 2
  InteractionBudget = 1
  MaxOffset = 2
  Messages <- AnyMessages
  Chunks = {1}
  MaxFlushes = 1
  MaxTime = 2
INVARIANTS BoundsHold IoAllowanceExact NoOverdueStream
PROPERTY FirstOutcomeStays
CHECK_DEADLOCK FALSE
