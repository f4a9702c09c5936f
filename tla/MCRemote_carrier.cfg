SPECIFICATION Spec
CONSTANTS
  None = None
  Bindable = {1, 2}
  MinFrame = 1
  MinReserve = 1
  MinRoom = 1
  MaxRegistered = 2
  MaxStreams = 1
  BootstrapTimeout = 1
  CleanupTimeout = 1
  MaxCheck = 1
  ActiveLimit = 1
  WaitingLimit = 1
  OutboxRoom = 2
  PerPass = 2
  LaneRoom = 2
  DataWindow = 1
  CloseTicks = 1
  Offer <- MCOffer
  Endpoint <- MCEndpoint
  Invocation <- MCInvocation
  PumpBudget = 2
  r1 = r1
  r2 = r2
  Requests = {r1}
  Specs <- MCMixed
  Answers = {"Granted","Capacity"}
  MaxSerial = 1
  MaxOpens = 1
  MaxWrites = 1
  MaxTicks = 1
  MaxFaults = 1
  Ends = {"down","up"}
INVARIANTS EndTellsEffects
CHECK_DEADLOCK FALSE
