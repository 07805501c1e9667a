------------------------------- MODULE Ledger -------------------------------
(***************************************************************************)
(* The per-account ledger of the in-process engine                          *)
(* (gateway/internal/engine/ledger.go): average-cost bookkeeping on integer *)
(* ticks.  A fill of `qty' at `price' moves cash and one position; reducing *)
(* a position books realised P&L against the exact cost basis.              *)
(*                                                                          *)
(* Pure operators, used by LocalEngine.  An account that the engine's map   *)
(* does not hold yet is the account account() would open, so the map is a   *)
(* total function here.                                                     *)
(***************************************************************************)
EXTENDS Integers

\* position: a signed quantity and the exact cost of what is open.
Position == [qty : Int, costBasis : Int]

\* ledgerAccount.
LedgerAccount(S) == [cash : Int, realized : Int, positions : [S -> Position]]

FlatPosition == [qty |-> 0, costBasis |-> 0]

\* account(): a fresh ledger with the opening balance and no position.
OpenAccount(S, startingCash) ==
  [cash |-> startingCash, realized |-> 0, positions |-> [s \in S |-> FlatPosition]]

\* opposite(): everything that is not BUY has BUY as its opposite.
Opposite(side) == IF side = "BUY" THEN "SELL" ELSE "BUY"

\* abs(), min64(), sameSign().
Abs(x) == IF x < 0 THEN -x ELSE x
Lesser(x, y) == IF x < y THEN x ELSE y
SameSign(x, y) == (x > 0) <=> (y > 0)

\* The signed quantity a side adds to a position: only SELL subtracts.
Delta(side, qty) == IF side = "SELL" THEN -qty ELSE qty

\* The first two arms of applyFill's switch: opening, or adding to, a position.
Opens(pos, delta) == pos.qty = 0 \/ SameSign(pos.qty, delta)

CloseQty(pos, delta) == Lesser(Abs(pos.qty), Abs(delta))

\* Cost attributed to the closed quantity: all of it on a full close, the
\* proportional part rounded to a whole tick otherwise.
ClosedCost(pos, delta) ==
  IF CloseQty(pos, delta) = Abs(pos.qty)
  THEN pos.costBasis
  ELSE (pos.costBasis * CloseQty(pos, delta)) \div Abs(pos.qty)

\* Mutant: a short is closed with a long's formula.
MutRealizedBy(pos, delta, price) ==
  IF Opens(pos, delta) THEN 0 ELSE price * CloseQty(pos, delta) - ClosedCost(pos, delta)

\* What applyFill adds to realized.
RealizedBy(pos, delta, price) ==
  LET proceeds == price * CloseQty(pos, delta) IN
  IF Opens(pos, delta) THEN 0
  ELSE IF pos.qty > 0 THEN proceeds - ClosedCost(pos, delta)
       ELSE ClosedCost(pos, delta) - proceeds

\* Mutant: a flip past flat does not open the new position at the fill price.
MutBasisAfterClose(pos, delta, price) ==
  IF pos.qty + delta = 0 THEN 0 ELSE pos.costBasis - ClosedCost(pos, delta)

\* The basis after a reduction: none when flat, the fill price when the
\* position flipped past flat, what was not closed otherwise.
BasisAfterClose(pos, delta, price) ==
  LET newQty == pos.qty + delta IN
  IF newQty = 0 THEN 0
  ELSE IF SameSign(newQty, delta) THEN price * Abs(newQty)
       ELSE pos.costBasis - ClosedCost(pos, delta)

BasisAfter(pos, delta, price) ==
  IF pos.qty = 0 THEN price * Abs(delta)
  ELSE IF SameSign(pos.qty, delta) THEN pos.costBasis + price * Abs(delta)
       ELSE BasisAfterClose(pos, delta, price)

\* applyFill(): one execution booked for one side.
ApplyFill(acct, symbol, side, price, qty) ==
  LET pos   == acct.positions[symbol]
      delta == Delta(side, qty)
  IN [cash      |-> acct.cash - price * delta,
      realized  |-> acct.realized + RealizedBy(pos, delta, price),
      positions |-> [acct.positions EXCEPT ![symbol] =
                       [qty       |-> pos.qty + delta,
                        costBasis |-> BasisAfter(pos, delta, price)]]]

\* Cost basis with the sign of the position: what the open position was paid
\* for (long) or sold for (short).
SignedBasis(pos) == IF pos.qty > 0 THEN pos.costBasis
                    ELSE IF pos.qty < 0 THEN -pos.costBasis ELSE 0

\* One position's part of GetAccount's unrealized P&L at a mark price; no
\* mark (0) contributes nothing.
UnrealizedOn(pos, mark) ==
  IF mark = 0 \/ pos.qty = 0 THEN 0
  ELSE IF pos.qty > 0 THEN mark * pos.qty - pos.costBasis
       ELSE pos.costBasis - mark * Abs(pos.qty)
=============================================================================
