SPECIFICATION Spec
CONSTANTS
  None = None
  Inactive = Inactive
  StallMs = 0
  Key <- MCKey
  Config <- One
  IdleTimeout = 2
  MaxAge = 3
  AllocationTimeout = 2
  ConnectTimeout = 1
  InteractionTimeout = 1
  CleanupTimeout = 1
  Templates <- OneTemplates
  Scopes = {"scoped"}
  Outcomes = {"Failed", "Unproven", "Proven", "Mismatch"}
  SiteLimits = {1}
  Settles = {1}
  MaxRequests = 2
  MaxTime = 2
  MaxEvents = 1
INVARIANTS Accounted DeadlineComplete
PROPERTIES  NoLostWake
CHECK_DEADLOCK FALSE
