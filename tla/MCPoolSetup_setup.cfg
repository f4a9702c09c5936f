SPECIFICATION Spec
CONSTANTS
  None = None
  Inactive = Inactive
  StallMs = 1
  Key <- MCKey
  Config <- MCConfig
  IdleTimeout = 3
  MaxAge = 3
  AllocationTimeout = 3
  ConnectTimeout = 2
  InteractionTimeout = 2
  CleanupTimeout = 1
  Request <- MCRequest
  LocalMs = {1}
  Kinds = {"Admission"}
  MaxTime = 3
  MaxPhase = 2
INVARIANT BudgetExact
PROPERTIES VerdictAgrees ReceiptSettles
CHECK_DEADLOCK FALSE
