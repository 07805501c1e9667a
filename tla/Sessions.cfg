CONSTANTS
  k1 = k1
  h1 = h1
  h2 = h2
  m1 = m1
  p1 = p1
  a1 = a1
  a2 = a2
  d1 = d1
  Keys = {k1}
  Unit = 2
  Rate = 1
  Burst = 4
  MaxTime = 4
  NoBucket = NoBucket
  Handlers = {h1, h2}
  Mailboxes = {m1}
  Passwords = {p1}
  Registered = {a1, a2}
  Demos = {d1}
  AccessTTL = 1
  RefreshTTL = 2
  DemoTTL = 2
  MaxTrades = 1
  Idle = Idle
SPECIFICATION Spec
INVARIANTS
  SessionsTypeOK
  WithinBurstAndRate
  MailboxNamesOneAccount
  ViewReadsYourWrites
PROPERTIES
  SessionsExpire
SYMMETRY Symmetry
CHECK_DEADLOCK FALSE
