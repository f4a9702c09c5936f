SPECIFICATION FairSpec
CONSTANTS
  a = a  b = b  c = c  d = d  once = once  shared = shared
  Op <- BudgetOps
  Context <- Contexts
  ContextOf <- BudgetContext
  Single = {once}
  Charge <- BudgetCharge
  AdmissionCharge = 2
  HostCharge = 3
  Slots = 1
  Waiting = 2
  MaxSerial = 2
  MaxOpens = 1
INVARIANT SlotsExact
INVARIANT GrantedInOrder
INVARIANT EndIsFinal
 
INVARIANT ChargeExact
INVARIANT SingleAdmission
PROPERTY AdmissionEnds
CHECK_DEADLOCK FALSE
