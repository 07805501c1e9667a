SPECIFICATION Spec
CONSTANTS
  alice = alice  bob = bob  r1 = r1  r2 = r2
  Accounts = {alice, bob}
  Prices = {1}
  Quantities = {1, 2}
  OrderIds = {1, 2, 3}
  None = None
  Rpcs = {r1}
  Requests <- MCRequests
  MaxLong = 10
  MaxRequests = 2
  MaxSends = 2
  MaxRestarts = 0
INVARIANT ExecutedOncePerRequest
