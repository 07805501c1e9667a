CONSTANTS
  b1 = b1
  Tasks = {b1}
  Sim = Sim
  TTL = 2
  Timeout = 1
  QueueCap = 1
  MaxTrades = 1
  None = None
SPECIFICATION Spec
INVARIANTS
  FeedTypeOK
  CacheLagBounded
PROPERTIES
  TradesAnnouncedOnce
  LadderCatchesUp
