SPECIFICATION Spec
CONSTANTS
  a = a  b = b  c = c  d = d  once = once  shared = shared
  Op <- Ops
  Context <- Contexts
  ContextOf <- AllShared
  Single = {once}
  Charge <- OneEach
  AdmissionCharge = 2
  HostCharge = 3
  Slots = 2
  Waiting = 3
  MaxSerial = 9
  MaxOpens = 0
INVARIANT FreeSlotWakesNext
CHECK_DEADLOCK FALSE
SYMMETRY AnyOrder
