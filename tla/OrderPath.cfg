CONSTANTS
  a1 = a1
  a2 = a2
  MaxHandlers = 1
  Accounts = {a1, a2}
  Clients = {a1}
  PositionCap = 1
  VelocityCap = 0
  MaxOrders = 2
  MaxExtras = 1
  None = None
SPECIFICATION Spec
INVARIANTS
  PathTypeOK
  EventsTellTheTruth
  GateFollowsExposure
  DrainedOrdersPublished
PROPERTIES
  RefusedIsRejudged
CHECK_DEADLOCK FALSE
