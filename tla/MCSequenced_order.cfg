SPECIFICATION Spec
CONSTANTS
  a = a  b = b  None = None
  Stream <- Streams
  Sends <- Producers
  Stray <- Strays
  ChargeOf <- Charges
  WorstFrame = 2
  RecordCharge = 1
  QueuedBytes = 8
  ControlBytes = 1
  QueuedFrames = 4
  ControlFrames = 1
  MaxQueued = 1
  MaxLifetime = 2
  MaxActive = 2
  MaxReorderStream = 2
  MaxReorderBinding = 3
  GapTimeout = 1
  MaxSeq = 3
  MaxTime = 1
  MaxSent = 4
INVARIANT BuffersExact
INVARIANT WithinBudget
INVARIANT TicketsTrue
INVARIANT GapClocked
INVARIANT HonestNeverRefused
PROPERTY TicketsFinal
PROPERTY AppliedInOrder
CHECK_DEADLOCK FALSE
SYMMETRY AnyStream
