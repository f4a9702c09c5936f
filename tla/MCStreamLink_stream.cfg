SPECIFICATION FairSpec
CONSTANTS
  None = None
  SendBuffer <- Two
  ReceiveWindow <- One
  MaxPayload = 1
  CoalesceDelay = 1
  CloseTimeout = 1
  IoTimeout = 0
  InteractionBudget = 0
  MaxOffset = 2
  Courses <- MCCourses
  Chunks = {1,2}
  QueueLimit = 1
INVARIANTS FlushedMeansArrived EndIsWhole
PROPERTIES HonestPeerNeverRejected CallsComplete EndTogether
CHECK_DEADLOCK FALSE
