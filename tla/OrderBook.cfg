SPECIFICATION BookSpec
CONSTANTS
  alice = alice  bob = bob
  Accounts = {alice, bob}
  Prices = {1, 2}
  Quantities = {1, 2}
  OrderIds = {1, 2, 3}
  None = None
INVARIANTS BookTypeOK IndexMatchesQueues TimeSlotsKept FillsMatchTrades
PROPERTIES PriceTimePriority WriterReturns
