SPECIFICATION Spec
CONSTANTS
  None = None
  Inactive = Inactive
  StallMs = 0
  b1 = b1
  b2 = b2
  Key <- MCKey
  Config <- TwoRooms
  Limits <- OneRoom
  IdleTimeout = 3
  MaxAge = 9
  AllocationTimeout = 2
  ConnectTimeout = 2
  InteractionTimeout = 1
  CleanupTimeout = 1
  Scope <- MCScope
  Provers = {b2}
  MaxExcluded = 1
  Exchanges <- MCExchanges
  Asked <- MCAsked
  Bound = {b1}
  Outcomes = {"Failed", "Proven"}
  ReuseVerdicts = {"Authorized", "Revoked", "Unprovable"}
  Ends = {"Reusable", "Discarded"}
  Courses <- MCCourses
  MaxNews = 2
INVARIANTS  ReceiptsTrue NothingLost
PROPERTIES CancelSparesOthers
CHECK_DEADLOCK FALSE
