SPECIFICATION Spec
CONSTANTS
  None = None
  Bindable = {1, 2}
  MinFrame = 1
  MinReserve = 1
  MinRoom = 1
  MaxRegistered = 2
  MaxStreams = 1
  BootstrapTimeout = 1
  CleanupTimeout = 1
  MaxCheck = 1
  r1 = r1
  Requests = {r1, r2}
  Offers <- MCOffers
  Endpoints <- MCEndpoints
  Starters <- MCStarters
  OpenedBodies <- MCOpened
  CoreSends = {"Failed"}
  ClientSends = {"IdentityChecked"}
  Cancels <- MCCancels
  MaxIds = 2
INVARIANTS  OneVerdict
PROPERTIES TerminalsKept
CHECK_DEADLOCK FALSE
