--------------------------- MODULE MCEngineService ---------------------------
\* Constants of the EngineService runs.
EXTENDS EngineService

CONSTANTS alice, bob, r1, r2

\* alice sells one or two shares, bob buys two, at one price: who takes, who
\* rests, and how many trades a submission makes depend on the interleaving.
MCRequests ==
  {o \in NewOrders : /\ o.type = "LIMIT"
                     /\ \/ o.account = alice /\ o.side = "SELL"
                        \/ o.account = bob /\ o.side = "BUY" /\ o.quantity = 2}
=============================================================================
