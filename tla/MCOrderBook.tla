----------------------------- MODULE MCOrderBook -----------------------------
\* Constants of the OrderBook run.
EXTENDS OrderBook

CONSTANTS alice, bob
=============================================================================
