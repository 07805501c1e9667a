SPECIFICATION Spec
CONSTANTS
  mm = mm  alice = alice  bob = bob  t1 = t1  t2 = t2  AAPL = AAPL
  Threads = {t1, t2}
  Accounts = {mm, alice, bob}
  MarketMaker = mm
  Traders = {alice, bob}
  Cancellers = {alice, bob}
  Symbols = {AAPL}
  Prices <- MCPrices
  Quantities <- MCQuantities
  SideInputs = {"BUY", "SELL", ""}
  TypeInputs = {"LIMIT", "MARKET"}
  StartingCash = 100
  SeedSymbols <- MCSeedSymbols
  SeedDepth = 1
  SeedMid = 3
  SeedUnit = 1
  MaxPrice = 9
  MaxOrders = 4
  None = None
INVARIANT CashConserved
