CONSTANTS
  a1 = a1
  a2 = a2
  MaxHandlers = 1
  Accounts = {a1, a2}
  Clients = {a1}
  PositionCap = 0
  VelocityCap = 1
  MaxOrders = 2
  MaxExtras = 0
  None = None
SPECIFICATION Spec
PROPERTIES
  OrdersReachFeed
CHECK_DEADLOCK FALSE
