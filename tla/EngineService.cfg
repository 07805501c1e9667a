SPECIFICATION Spec
CONSTANTS
  alice = alice  bob = bob  r1 = r1  r2 = r2
  Accounts = {alice, bob}
  Prices = {1}
  Quantities = {1, 2}
  OrderIds = {1, 2, 3}
  None = None
  Rpcs = {r1, r2}
  Requests <- MCRequests
  MaxLong = 1
  MaxRequests = 3
  MaxSends = 1
  MaxRestarts = 1
INVARIANTS ServiceTypeOK LedgerBalanced FillsDurableFirst NothingSilentlyUnsettled
PROPERTY CallsEnd
