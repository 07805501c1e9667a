---------------------------- MODULE MCLocalEngine ----------------------------
\* Constants of the LocalEngine runs.
EXTENDS LocalEngine

CONSTANTS mm, alice, bob, t1, t2, AAPL

\* One seeded symbol.
MCSeedSymbols == <<AAPL>>

\* Around the seeded mid of 3: bids at 2 and 1, asks at 4 and 5.  0 is rejected
\* for a LIMIT order and ignored by a MARKET order.
MCPrices == {0, 2, 4}
MCQuantities == {1, 2, 3}
=============================================================================
