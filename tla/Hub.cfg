SPECIFICATION FairSpec
CONSTANTS
  c1 = c1  c2 = c2
  Clients = {c1, c2}
  SendBuffer = 1
  BroadcastBuffer = 2
  MaxMessages = 3
  NoMessage = NoMessage
INVARIANTS HubTypeOK NoPanic NoGaps
PROPERTIES Delivered DisconnectedIsCleanedUp
