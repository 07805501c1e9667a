------------------------- MODULE LocalEngineProofs -------------------------
(***************************************************************************)
(* Theorems about LocalEngine for every number of goroutines, accounts,     *)
(* symbols and orders: its type invariant, that its book never stays        *)
(* crossed, that the average cost of a position stays within the prices     *)
(* traded, and that every step of the engine keeps the accounts balanced;   *)
(* first, what one applyFill of the ledger preserves, for every position,   *)
(* price and quantity.                                                      *)
(***************************************************************************)
EXTENDS LocalEngine, SumTheorems

-----------------------------------------------------------------------------
(* The ledger operators *)

\* A partial close: dividing a non-negative basis over the closed part.
LEMMA PartialShare ==
  ASSUME NEW b \in Nat, NEW c \in Nat, NEW q \in Nat, 0 < q, c < q
  PROVE  /\ (b * c) \div q \in Nat
         /\ (b * c) \div q <= b
<1> DEFINE k == (b * c) \div q
<1>1. b * c \in Nat
  OBVIOUS
<1>2. k \in Int /\ q * k <= b * c /\ b * c < q * (k + 1)
  BY <1>1, Z3
<1>3. k >= 0
  BY <1>1, <1>2, Z3
<1>4. b * c <= b * q
  BY Z3
<1>5. q * k <= q * b
  BY <1>1, <1>2, <1>4, Z3
<1>6. k <= b
  BY <1>2, <1>5, Z3
<1> QED
  BY <1>2, <1>3, <1>6

\* A position the ledger can hold: the basis is a magnitude, none when flat.
Sound(pos) == pos.costBasis >= 0 /\ (pos.qty = 0 => pos.costBasis = 0)

\* The cost taken off by a close is at most the basis, and all of it when the
\* position is closed in full.
LEMMA ClosedCostBounds ==
  ASSUME NEW pos \in Position, Sound(pos), NEW delta \in Int, delta # 0,
         pos.qty # 0
  PROVE  /\ ClosedCost(pos, delta) \in Nat
         /\ ClosedCost(pos, delta) <= pos.costBasis
         /\ Abs(delta) >= Abs(pos.qty) => ClosedCost(pos, delta) = pos.costBasis
<1> DEFINE b == pos.costBasis
           q == Abs(pos.qty)
           c == CloseQty(pos, delta)
<1>1. b \in Nat /\ q \in Nat /\ 0 < q /\ c \in Nat /\ c <= q /\ Abs(delta) \in Nat
  BY DEF Position, Sound, Abs, CloseQty, Lesser
<1>2. Abs(delta) >= q => c = q
  BY <1>1 DEF CloseQty, Lesser
<1>3. CASE c = q
  BY <1>1, <1>3 DEF ClosedCost
<1>4. CASE c # q
  <2>1. ClosedCost(pos, delta) = (b * c) \div q
    BY <1>4 DEF ClosedCost
  <2>2. c < q
    BY <1>1, <1>4
  <2>3. (b * c) \div q \in Nat /\ (b * c) \div q <= b
    BY <1>1, <2>2, PartialShare
  <2> QED
    BY <1>2, <1>4, <2>1, <2>3
<1> QED
  BY <1>3, <1>4

\* applyFill keeps every position sound: a magnitude, and nothing when flat.
LEMMA BasisAfterSound ==
  ASSUME NEW pos \in Position, Sound(pos), NEW delta \in Int, delta # 0,
         NEW price \in Nat
  PROVE  /\ BasisAfter(pos, delta, price) \in Nat
         /\ pos.qty + delta = 0 => BasisAfter(pos, delta, price) = 0
         /\ RealizedBy(pos, delta, price) \in Int
<1>1. pos.qty \in Int /\ pos.costBasis \in Nat /\ Abs(delta) \in Nat /\ Abs(pos.qty) \in Nat
      /\ CloseQty(pos, delta) \in Nat /\ Abs(pos.qty + delta) \in Nat
  BY DEF Position, Sound, Abs, CloseQty, Lesser
<1>2. /\ price * Abs(delta) \in Nat
      /\ price * CloseQty(pos, delta) \in Nat
      /\ price * Abs(pos.qty + delta) \in Nat
  BY <1>1, Z3
<1>3. CASE pos.qty = 0
  BY <1>1, <1>2, <1>3 DEF BasisAfter, RealizedBy, Opens
<1>4. CASE pos.qty # 0 /\ SameSign(pos.qty, delta)
  <2>1. pos.qty + delta # 0
    BY <1>1, <1>4 DEF SameSign
  <2>2. BasisAfter(pos, delta, price) = pos.costBasis + price * Abs(delta)
    BY <1>4 DEF BasisAfter
  <2>3. RealizedBy(pos, delta, price) = 0
    BY <1>4 DEF RealizedBy, Opens
  <2> QED
    BY <1>1, <1>2, <2>1, <2>2, <2>3
<1>5. CASE pos.qty # 0 /\ ~ SameSign(pos.qty, delta)
  <2>1. ClosedCost(pos, delta) \in Nat /\ ClosedCost(pos, delta) <= pos.costBasis
    BY <1>5, ClosedCostBounds
  <2>2. BasisAfter(pos, delta, price) = BasisAfterClose(pos, delta, price)
    BY <1>5 DEF BasisAfter
  <2>3. /\ BasisAfterClose(pos, delta, price) \in Nat
        /\ pos.qty + delta = 0 => BasisAfterClose(pos, delta, price) = 0
    BY <1>1, <1>2, <2>1 DEF BasisAfterClose
  <2>4. RealizedBy(pos, delta, price) \in Int
    BY <1>1, <1>2, <1>5, <2>1 DEF RealizedBy, Opens
  <2> QED
    BY <2>2, <2>3, <2>4
<1> QED
  BY <1>3, <1>4, <1>5

\* One fill changes an account by amounts that balance to the tick: the cash
\* that leaves it is what the basis of the position grew by, less what was
\* realised (ledger.go: "realized P&L reconciles with cash to the tick").
LEMMA FillReconciles ==
  ASSUME NEW pos \in Position, Sound(pos), NEW delta \in Int, delta # 0,
         NEW price \in Nat
  PROVE  SignedBasis([qty |-> pos.qty + delta, costBasis |-> BasisAfter(pos, delta, price)])
           - price * delta
         = SignedBasis(pos) + RealizedBy(pos, delta, price)
<1> DEFINE q == pos.qty
           b == pos.costBasis
           nb == BasisAfter(pos, delta, price)
           cc == ClosedCost(pos, delta)
<1>1. q \in Int /\ b \in Nat /\ nb \in Nat
  BY BasisAfterSound DEF Position, Sound
<1>2. CASE q = 0
  BY <1>1, <1>2, Z3 DEF BasisAfter, RealizedBy, Opens, SignedBasis, Abs
<1>3. CASE q # 0 /\ SameSign(q, delta)
  BY <1>1, <1>3, Z3 DEF BasisAfter, RealizedBy, Opens, SignedBasis, Abs, SameSign
<1>4. CASE q # 0 /\ ~ SameSign(q, delta)
  <2>1. cc \in Nat /\ cc <= b /\ (Abs(delta) >= Abs(q) => cc = b)
    BY <1>4, ClosedCostBounds
  <2>2. nb = BasisAfterClose(pos, delta, price)
    BY <1>4 DEF BasisAfter
  <2>3. CASE q > 0
    <3>1. delta < 0
      BY <1>1, <1>4, <2>3 DEF SameSign
    <3>2. CASE Abs(delta) < Abs(q)
      <4>1. RealizedBy(pos, delta, price) = price * (-delta) - cc
        BY <1>1, <1>4, <2>3, <3>1, <3>2 DEF RealizedBy, Opens, CloseQty, Lesser, Abs
      <4>2. nb = b - cc /\ q + delta > 0
        BY <1>1, <2>2, <2>3, <3>1, <3>2 DEF BasisAfterClose, SameSign, Abs
      <4> QED
        BY <1>1, <2>1, <2>3, <4>1, <4>2, Z3 DEF SignedBasis
    <3>3. CASE Abs(delta) >= Abs(q)
      <4>1. RealizedBy(pos, delta, price) = price * q - b
        BY <1>1, <1>4, <2>1, <2>3, <3>1, <3>3 DEF RealizedBy, Opens, CloseQty, Lesser, Abs
      <4>2. q + delta <= 0 /\ nb = price * (-(q + delta))
        BY <1>1, <2>2, <2>3, <3>1, <3>3 DEF BasisAfterClose, SameSign, Abs
      <4> QED
        BY <1>1, <2>1, <2>3, <4>1, <4>2, Z3 DEF SignedBasis
    <3> QED
      BY <1>1, <3>2, <3>3 DEF Abs
  <2>4. CASE q < 0
    <3>1. delta > 0
      BY <1>1, <1>4, <2>4 DEF SameSign
    <3>2. CASE Abs(delta) < Abs(q)
      <4>1. RealizedBy(pos, delta, price) = cc - price * delta
        BY <1>1, <1>4, <2>4, <3>1, <3>2 DEF RealizedBy, Opens, CloseQty, Lesser, Abs
      <4>2. nb = b - cc /\ q + delta < 0
        BY <1>1, <2>2, <2>4, <3>1, <3>2 DEF BasisAfterClose, SameSign, Abs
      <4> QED
        BY <1>1, <2>1, <2>4, <4>1, <4>2, Z3 DEF SignedBasis
    <3>3. CASE Abs(delta) >= Abs(q)
      <4>1. RealizedBy(pos, delta, price) = b - price * (-q)
        BY <1>1, <1>4, <2>1, <2>4, <3>1, <3>3 DEF RealizedBy, Opens, CloseQty, Lesser, Abs
      <4>2. q + delta >= 0 /\ nb = price * (q + delta)
        BY <1>1, <2>2, <2>4, <3>1, <3>3 DEF BasisAfterClose, SameSign, Abs
      <4> QED
        BY <1>1, <2>1, <2>4, <4>1, <4>2, Z3 DEF SignedBasis
    <3> QED
      BY <1>1, <3>2, <3>3 DEF Abs
  <2> QED
    BY <1>1, <1>4, <2>3, <2>4
<1> QED
  BY <1>2, <1>3, <1>4

\* Rounding a partial close never pushes the average cost of what is left out of
\* the bounds it was in.
LEMMA PartialShareBounds ==
  ASSUME NEW b \in Nat, NEW c \in Nat, NEW q \in Nat, c < q,
         NEW lo \in Nat, NEW hi \in Nat, lo * q <= b, b <= hi * q
  PROVE  /\ lo * (q - c) <= b - ((b * c) \div q)
         /\ b - ((b * c) \div q) <= hi * (q - c)
<1> DEFINE k == (b * c) \div q
           r == q - c
<1>1. b * c \in Nat /\ q > 0 /\ r \in Nat /\ r > 0 /\ c = q - r
  OBVIOUS
<1>2. k \in Int /\ q * k <= b * c /\ b * c < q * (k + 1)
  BY <1>1, Z3
<1>3. b * c = b * q - b * r
  BY <1>1, Z3
<1>4. (lo * q) * r <= b * r /\ b * r <= (hi * q) * r
  BY <1>1, Z3
<1>5. q * (lo * r) <= q * (b - k)
  BY <1>1, <1>2, <1>3, <1>4, Z3
<1>6. lo * r <= b - k
  BY <1>1, <1>2, <1>5, Z3
<1>7. q * (b - k) < q * (hi * r) + q
  BY <1>1, <1>2, <1>3, <1>4, Z3
<1>8. b - k < hi * r + 1
  BY <1>1, <1>2, <1>7, Z3
<1> QED
  BY <1>1, <1>2, <1>6, <1>8, Z3

\* One fill at a price between lo and hi keeps the average cost of the position
\* between lo and hi.
LEMMA FillKeepsAverage ==
  ASSUME NEW pos \in Position, Sound(pos), NEW delta \in Int, delta # 0,
         NEW price \in Nat, NEW lo \in Nat, NEW hi \in Nat,
         lo <= price, price <= hi,
         lo * Abs(pos.qty) <= pos.costBasis, pos.costBasis <= hi * Abs(pos.qty)
  PROVE  /\ lo * Abs(pos.qty + delta) <= BasisAfter(pos, delta, price)
         /\ BasisAfter(pos, delta, price) <= hi * Abs(pos.qty + delta)
<1> DEFINE q == pos.qty
           b == pos.costBasis
           nq == Abs(q + delta)
<1>1. /\ q \in Int /\ b \in Nat /\ Abs(delta) \in Nat /\ Abs(q) \in Nat /\ nq \in Nat
      /\ CloseQty(pos, delta) \in Nat
  BY DEF Position, Sound, Abs, CloseQty, Lesser
<1>2. \A n \in Nat : lo * n <= price * n /\ price * n <= hi * n
  BY Z3
<1>3. CASE q = 0
  <2>1. BasisAfter(pos, delta, price) = price * Abs(delta) /\ nq = Abs(delta)
    BY <1>1, <1>3 DEF BasisAfter
  <2> QED
    BY <1>1, <1>2, <2>1
<1>4. CASE q # 0 /\ SameSign(q, delta)
  <2>1. BasisAfter(pos, delta, price) = b + price * Abs(delta)
    BY <1>4 DEF BasisAfter
  <2>2. nq = Abs(q) + Abs(delta)
    BY <1>1, <1>4 DEF SameSign, Abs
  <2>3. lo * Abs(delta) <= price * Abs(delta) /\ price * Abs(delta) <= hi * Abs(delta)
    BY <1>1, <1>2
  <2>4. /\ lo * nq = lo * Abs(q) + lo * Abs(delta)
        /\ hi * nq = hi * Abs(q) + hi * Abs(delta)
    BY <1>1, <2>2, Z3
  <2> QED
    BY <1>1, <2>1, <2>3, <2>4, Z3
<1>5. CASE q # 0 /\ ~ SameSign(q, delta)
  <2>1. BasisAfter(pos, delta, price) = BasisAfterClose(pos, delta, price)
    BY <1>5 DEF BasisAfter
  <2>2. CASE Abs(delta) < Abs(q)
    <3>1. nq = Abs(q) - Abs(delta) /\ q + delta # 0 /\ ~ SameSign(q + delta, delta)
      BY <1>1, <1>5, <2>2 DEF SameSign, Abs
    <3>2. CloseQty(pos, delta) = Abs(delta)
      BY <1>1, <2>2 DEF CloseQty, Lesser
    <3>3. BasisAfterClose(pos, delta, price) = b - ((b * Abs(delta)) \div Abs(q))
      BY <1>1, <2>2, <3>1, <3>2 DEF BasisAfterClose, ClosedCost
    <3> HIDE DEF q, b, nq
    <3>4. /\ lo * (Abs(q) - Abs(delta)) <= b - ((b * Abs(delta)) \div Abs(q))
          /\ b - ((b * Abs(delta)) \div Abs(q)) <= hi * (Abs(q) - Abs(delta))
      <4>1. lo * Abs(q) <= b /\ b <= hi * Abs(q)
        BY DEF q, b
      <4> QED
        BY <1>1, <2>2, <4>1, PartialShareBounds
    <3>5. /\ lo * nq <= BasisAfterClose(pos, delta, price)
          /\ BasisAfterClose(pos, delta, price) <= hi * nq
      BY <3>1, <3>3, <3>4
    <3> QED
      BY <2>1, <3>5 DEF nq, q
  <2>3. CASE Abs(delta) >= Abs(q)
    <3>1. BasisAfterClose(pos, delta, price) = price * nq
      <4>1. CASE q + delta = 0
        BY <1>1, <4>1 DEF BasisAfterClose, Abs
      <4>2. CASE q + delta # 0
        <5>1. SameSign(q + delta, delta)
          BY <1>1, <1>5, <2>3, <4>2 DEF SameSign, Abs
        <5> QED
          BY <4>2, <5>1 DEF BasisAfterClose
      <4> QED
        BY <4>1, <4>2
    <3> QED
      BY <1>1, <1>2, <2>1, <3>1
  <2> QED
    BY <1>1, <2>2, <2>3
<1> QED
  BY <1>3, <1>4, <1>5

\* applyFill returns a ledger account.
LEMMA ApplyFillType ==
  ASSUME NEW S, NEW acct \in LedgerAccount(S), NEW s \in S, NEW side,
         NEW price \in Nat, NEW qty \in Nat \ {0}, Sound(acct.positions[s])
  PROVE  /\ ApplyFill(acct, s, side, price, qty) \in LedgerAccount(S)
         /\ Sound(ApplyFill(acct, s, side, price, qty).positions[s])
<1> DEFINE pos == acct.positions[s]
           delta == Delta(side, qty)
<1>1. pos \in Position /\ delta \in Int /\ delta # 0
  BY DEF LedgerAccount, Delta
<1>2. /\ BasisAfter(pos, delta, price) \in Nat
      /\ pos.qty + delta = 0 => BasisAfter(pos, delta, price) = 0
      /\ RealizedBy(pos, delta, price) \in Int
  BY <1>1, BasisAfterSound
<1>3. price * delta \in Int
  BY <1>1, Z3
<1> HIDE DEF delta
<1>4. [qty |-> pos.qty + delta, costBasis |-> BasisAfter(pos, delta, price)] \in Position
  BY <1>1, <1>2 DEF Position
<1>5. ApplyFill(acct, s, side, price, qty) =
        [cash |-> acct.cash - price * delta,
         realized |-> acct.realized + RealizedBy(pos, delta, price),
         positions |-> [acct.positions EXCEPT ![s] =
            [qty |-> pos.qty + delta, costBasis |-> BasisAfter(pos, delta, price)]]]
  BY DEF ApplyFill, delta
<1> QED
  BY <1>1, <1>2, <1>3, <1>4, <1>5 DEF LedgerAccount, Sound

\* The average cost of a position lies between two prices of P; a flat position
\* has none.
AverageWithin(pos, P) ==
  IF pos.qty = 0 THEN pos.costBasis = 0
  ELSE \E lo, hi \in P : lo * Abs(pos.qty) <= pos.costBasis /\ pos.costBasis <= hi * Abs(pos.qty)

\* A fill at one more price keeps the average cost within the prices so far.
LEMMA FillKeepsAverageWithin ==
  ASSUME NEW pos \in Position, Sound(pos), NEW delta \in Int, delta # 0, NEW price \in Nat,
         NEW P \in SUBSET Nat, AverageWithin(pos, P)
  PROVE  AverageWithin([qty |-> pos.qty + delta, costBasis |-> BasisAfter(pos, delta, price)],
                       P \cup {price})
<1> DEFINE nq == pos.qty + delta
           nb == BasisAfter(pos, delta, price)
<1>1. pos.qty \in Int /\ pos.costBasis \in Nat /\ nq \in Int /\ Abs(pos.qty) \in Nat
      /\ Abs(nq) \in Nat /\ nb \in Nat /\ (nq = 0 => nb = 0)
  BY BasisAfterSound DEF Position, Sound, Abs
<1>2. \E lo, hi \in P \cup {price} : lo * Abs(nq) <= nb /\ nb <= hi * Abs(nq)
  <2>1. CASE pos.qty = 0
    <3>1. price * Abs(pos.qty) <= pos.costBasis /\ pos.costBasis <= price * Abs(pos.qty)
      <4>1. Abs(pos.qty) = 0 /\ pos.costBasis = 0
        BY <2>1 DEF Sound, Abs
      <4> QED
        BY <4>1
    <3>2. price * Abs(nq) <= nb /\ nb <= price * Abs(nq)
      BY <3>1, FillKeepsAverage
    <3> QED
      BY <3>2
  <2>2. CASE pos.qty # 0
    <3>1. PICK l, h \in P : l * Abs(pos.qty) <= pos.costBasis /\ pos.costBasis <= h * Abs(pos.qty)
      BY <2>2 DEF AverageWithin
    <3> DEFINE lo == IF l < price THEN l ELSE price
               hi == IF h > price THEN h ELSE price
    <3>2. /\ lo \in P \cup {price} /\ hi \in P \cup {price} /\ lo \in Nat /\ hi \in Nat
          /\ l \in Nat /\ h \in Nat /\ lo <= l /\ h <= hi /\ lo <= price /\ price <= hi
      OBVIOUS
    <3> HIDE DEF lo, hi
    <3>3. lo * Abs(pos.qty) <= l * Abs(pos.qty) /\ h * Abs(pos.qty) <= hi * Abs(pos.qty)
      BY <1>1, <3>2, Z3
    <3>4. lo * Abs(pos.qty) <= pos.costBasis /\ pos.costBasis <= hi * Abs(pos.qty)
      BY <1>1, <3>1, <3>2, <3>3, Z3
    <3>5. lo * Abs(nq) <= nb /\ nb <= hi * Abs(nq)
      BY <3>2, <3>4, FillKeepsAverage
    <3> QED
      BY <3>2, <3>5
  <2> QED
    BY <2>1, <2>2
<1> HIDE DEF nq, nb
<1>3. AverageWithin([qty |-> nq, costBasis |-> nb], P \cup {price})
  BY <1>1, <1>2 DEF AverageWithin
<1> QED
  BY <1>3 DEF nq, nb

-----------------------------------------------------------------------------
(* The engine *)

\* The queue positions seedBook hands out are distinct and within the counter.
LEMMA SeedIdBounds ==
  ASSUME NEW k \in 1..Len(SeedSymbols), NEW i \in 1..SeedDepth, NEW side \in Sides
  PROVE  /\ SeedId(k, i, side) \in Nat
         /\ 2 * SeedDepth * (k - 1) < SeedId(k, i, side)
         /\ SeedId(k, i, side) <= 2 * SeedDepth * k
         /\ SeedId(k, i, side) <= SeedCount
<1>1. k \in Nat /\ k >= 1 /\ Len(SeedSymbols) \in Nat /\ SeedDepth \in Nat
  BY LocalEngineAssumption
<1>2. 2 * SeedDepth * k = 2 * SeedDepth * (k - 1) + 2 * SeedDepth
      /\ 2 * SeedDepth * (k - 1) \in Nat
  BY <1>1, Z3
<1>3. 2 * SeedDepth * k <= 2 * SeedDepth * Len(SeedSymbols)
  BY <1>1, Z3
<1> QED
  BY <1>1, <1>2, <1>3, Z3 DEF SeedId, SeedCount

\* Seeded orders are told apart by their queue position.
LEMMA SeedsDistinct ==
  ASSUME NEW k \in 1..Len(SeedSymbols), NEW i \in 1..SeedDepth, NEW side \in Sides,
         NEW l \in 1..Len(SeedSymbols), NEW j \in 1..SeedDepth, NEW other \in Sides,
         SeedId(k, i, side) = SeedId(l, j, other)
  PROVE  k = l /\ i = j /\ side = other
<1>1. /\ k \in Nat /\ l \in Nat /\ SeedDepth \in Nat /\ Len(SeedSymbols) \in Nat
      /\ i \in Nat /\ j \in Nat /\ 1 <= k /\ 1 <= l
  BY LocalEngineAssumption
<1>2. /\ 2 * SeedDepth * (k - 1) < SeedId(k, i, side)
      /\ SeedId(k, i, side) <= 2 * SeedDepth * k
      /\ 2 * SeedDepth * (l - 1) < SeedId(l, j, other)
      /\ SeedId(l, j, other) <= 2 * SeedDepth * l
      /\ SeedId(k, i, side) \in Nat
  BY SeedIdBounds
<1>3. ~ (k <= l - 1)
  <2>1. ASSUME k <= l - 1 PROVE 2 * SeedDepth * k <= 2 * SeedDepth * (l - 1)
    BY <1>1, <2>1, Z3
  <2>2. 2 * SeedDepth * k \in Nat /\ 2 * SeedDepth * (l - 1) \in Nat
    BY <1>1, Z3
  <2> QED
    BY <1>1, <1>2, <2>1, <2>2
<1>4. ~ (l <= k - 1)
  <2>1. ASSUME l <= k - 1 PROVE 2 * SeedDepth * l <= 2 * SeedDepth * (k - 1)
    BY <1>1, <2>1, Z3
  <2>2. 2 * SeedDepth * l \in Nat /\ 2 * SeedDepth * (k - 1) \in Nat
    BY <1>1, Z3
  <2> QED
    BY <1>1, <1>2, <2>1, <2>2
<1>5. k = l
  BY <1>1, <1>3, <1>4
<1>6. 2 * SeedDepth * (k - 1) \in Nat
  BY <1>1, Z3
<1> QED
  BY <1>1, <1>5, <1>6, Z3 DEF SeedId, Sides

-----------------------------------------------------------------------------
(* The order bestOpposite looks for. *)

\* Whenever bestOpposite has a candidate it finds one that is better than every
\* other: price decides, and the queue position among equal prices.
LEMMA BestExists ==
  ASSUME TypeOK, QueuePositions, NEW o, Candidates(o) # {}
  PROVE  \E m \in book : IsBestOpposite(m, o)
<1> DEFINE C == Candidates(o)
           key(m) == IF Wanted(o.side) = "SELL" THEN m.price ELSE MaxPrice - m.price
           Keys == {key(m) : m \in C}
<1>1. /\ C \subseteq book /\ MaxPrice \in Nat
      /\ \A m \in C : m \in Orders /\ m.price \in 1..MaxPrice /\ m.seq \in Nat
                      /\ m.side = Wanted(o.side)
  BY LocalEngineAssumption DEF Candidates, TypeOK, Orders
<1>2. Keys \in SUBSET Nat /\ Keys # {}
  BY <1>1
<1>3. PICK best \in Keys : \A k \in Keys : best <= k
  BY <1>2, NatMin
<1> DEFINE F == {m \in C : key(m) = best}
           Positions == {m.seq : m \in F}
<1>4. Positions \in SUBSET Nat /\ Positions # {}
  BY <1>1, <1>3
<1>5. PICK first \in Positions : \A k \in Positions : first <= k
  BY <1>4, NatMin
<1>6. PICK m \in F : m.seq = first
  BY <1>5
<1>7. ASSUME NEW n \in C, n # m
      PROVE  BetterPrice(m.side, m.price, n.price) \/ (m.price = n.price /\ m.seq < n.seq)
  <2>1. key(m) <= key(n) /\ m \in C /\ key(m) = best
    BY <1>3, <1>6, <1>7
  <2>2. CASE m.price = n.price
    <3>1. n \in F
      BY <1>1, <1>7, <2>1, <2>2
    <3>2. m.seq <= n.seq
      BY <1>5, <1>6, <3>1
    <3>3. m.seq # n.seq
      BY <1>1, <1>7, <2>1 DEF QueuePositions
    <3> QED
      BY <1>1, <1>7, <2>1, <2>2, <3>2, <3>3
  <2>3. CASE m.price # n.price
    BY <1>1, <1>7, <2>1, <2>3 DEF BetterPrice, Wanted
  <2> QED
    BY <2>2, <2>3
<1> QED
  BY <1>1, <1>6, <1>7 DEF IsBestOpposite

\* When the matching loop stops with something left of an order, no resting order
\* of another account crosses it.  (Not so for a side other than BUY and
\* SELL: the loop then looks at the best ask but compares prices as a seller.)
LEMMA StopsUncrossed ==
  ASSUME TypeOK, QueuePositions, NEW o \in Takers, o.side \in Sides,
         o.remaining > 0, ~ CanFill(o), NEW m \in Candidates(o)
  PROVE  ~ Crosses(o, m.price)
<1>1. PICK b \in book : IsBestOpposite(b, o)
  BY BestExists
<1>2. ~ Crosses(o, b.price)
  BY <1>1 DEF CanFill
<1>3. b \in Candidates(o) /\ b.side = Wanted(o.side)
  BY <1>1 DEF IsBestOpposite, Candidates
<1>4. b.price \in Int /\ m.price \in Int /\ o.price \in Int
  <2>1. b \in Orders /\ m \in Orders
    BY <1>3 DEF Candidates, TypeOK
  <2>2. o.price \in Prices
    BY DEF Takers
  <2>3. b.price \in 1..MaxPrice /\ m.price \in 1..MaxPrice
    BY <2>1 DEF Orders
  <2>4. Prices \subseteq Int /\ MaxPrice \in Nat
    BY LocalEngineAssumption
  <2>5. b.price \in Int /\ m.price \in Int
    BY <2>3, <2>4
  <2>6. o.price \in Int
    BY <2>2, <2>4
  <2> QED
    BY <2>5, <2>6
<1>5. CASE b = m
  BY <1>2, <1>5
<1>6. CASE b # m
  <2>1. BetterPrice(b.side, b.price, m.price) \/ b.price = m.price
    BY <1>1, <1>6 DEF IsBestOpposite
  <2> QED
    BY <1>2, <1>3, <1>4, <2>1 DEF Crosses, BetterPrice, Wanted, Sides
<1> QED
  BY <1>5, <1>6

-----------------------------------------------------------------------------
(* The inductive invariant. *)

SoundPositions == \A a \in Accounts, s \in Symbols : Sound(accounts[a].positions[s])

\* BookNotCrossed is kept only by a book whose queue positions are distinct (or
\* bestOpposite might find no best order), TypeOK only by sound positions (or a
\* close could take off more than the basis).
Inv == TypeOK /\ QueuePositions /\ SoundPositions /\ BookNotCrossed

\* The seeded book is well formed.
LEMMA SeedsTyped == Seeds \in SUBSET Orders /\ \A m \in Seeds : m.account = MarketMaker
<1>1. ASSUME NEW k \in 1..Len(SeedSymbols), NEW i \in 1..SeedDepth, NEW side \in Sides
      PROVE  Seed(k, i, side) \in Orders
  <2>1. SeedId(k, i, side) \in Nat
    BY SeedIdBounds
  <2>2. SeedSymbols[k] \in Symbols
    BY LocalEngineAssumption
  <2>3. /\ SeedDepth \in Nat /\ SeedMid \in Nat /\ SeedDepth < SeedMid /\ MaxPrice \in Nat
        /\ SeedMid + SeedDepth <= MaxPrice /\ SeedUnit \in Nat \ {0} /\ MarketMaker \in Accounts
    BY LocalEngineAssumption
  <2>4. i * SeedUnit \in Nat \ {0}
    BY <2>3, Z3
  <2>5. (IF side = "BUY" THEN SeedMid - i ELSE SeedMid + i) \in 1..MaxPrice
    BY <2>3
  <2> QED
    BY <2>1, <2>2, <2>3, <2>4, <2>5 DEF Seed, Orders
<1>2. \A m \in Seeds : m.account = MarketMaker
  BY DEF Seeds, Seed
<1> QED
  BY <1>1, <1>2 DEF Seeds

\* NewLocalEngine establishes the invariant: the seeded book is not crossed and
\* every account is flat.
LEMMA InitInv == Init => Inv
<1> SUFFICES ASSUME Init PROVE Inv
  OBVIOUS
<1>1. SeedCount \in Nat
  <2>1. SeedDepth \in Nat /\ Len(SeedSymbols) \in Nat
    BY LocalEngineAssumption
  <2> QED
    BY <2>1, Z3 DEF SeedCount
<1>2. OpenAccount(Symbols, StartingCash) \in LedgerAccount(Symbols)
  BY LocalEngineAssumption DEF OpenAccount, LedgerAccount, FlatPosition, Position
<1>3. TypeOK
  <2>1. lastPrice \in [Symbols -> 0..MaxPrice]
    <3>1. MaxPrice \in Nat
      BY LocalEngineAssumption
    <3> QED
      BY <3>1 DEF Init
  <2>2. call \in [Threads -> Takers \cup {None}] /\ \A t \in Threads : call[t] = None
    BY DEF Init
  <2>3. book \in SUBSET Orders
    BY SeedsTyped DEF Init
  <2>4. accounts \in [Accounts -> LedgerAccount(Symbols)]
    BY <1>2 DEF Init
  <2>5. tape \in Seq(Trades)
    BY DEF Init
  <2>6. mu = None /\ orderID \in Nat /\ seq \in Nat
    BY <1>1 DEF Init
  <2> QED
    BY <2>1, <2>2, <2>3, <2>4, <2>5, <2>6 DEF TypeOK
<1>4. QueuePositions
  <2>1. \A m \in Seeds : m.seq <= SeedCount
    BY SeedIdBounds DEF Seeds, Seed
  <2>2. ASSUME NEW m \in Seeds, NEW n \in Seeds, m.seq = n.seq
        PROVE  m = n
    <3>1. PICK k \in 1..Len(SeedSymbols), i \in 1..SeedDepth, side \in Sides : m = Seed(k, i, side)
      BY DEF Seeds
    <3>2. PICK l \in 1..Len(SeedSymbols), j \in 1..SeedDepth, other \in Sides : n = Seed(l, j, other)
      BY DEF Seeds
    <3>3. SeedId(k, i, side) = SeedId(l, j, other)
      BY <2>2, <3>1, <3>2 DEF Seed
    <3>4. k = l /\ i = j /\ side = other
      BY <3>3, SeedsDistinct
    <3> QED
      BY <3>1, <3>2, <3>4
  <2> QED
    BY <2>1, <2>2 DEF Init, QueuePositions
<1>5. SoundPositions
  BY DEF Init, SoundPositions, OpenAccount, FlatPosition, Sound
<1>6. BookNotCrossed
  BY SeedsTyped DEF Init, BookNotCrossed
<1> QED
  BY <1>3, <1>4, <1>5, <1>6 DEF Inv

-----------------------------------------------------------------------------
(* One iteration of the matching loop. *)

\* The order under the mutex is a valid one.
LEMMA TakerTyped ==
  ASSUME TypeOK, NEW t \in Threads, mu = t
  PROVE  call[t] \in Takers /\ call[t] # None /\ Valid(call[t])
BY LocalEngineAssumption DEF TypeOK

\* What an iteration does: a positive quantity, no more than either order has
\* left, is exchanged with the best order of another account.
LEMMA MatchStep ==
  ASSUME TypeOK, NEW t \in Threads, Match(t)
  PROVE  \E m \in book, fill \in Nat \ {0} :
           /\ m \in Orders /\ call[t] \in Takers
           /\ fill <= call[t].remaining /\ fill <= m.remaining
           /\ fill = Lesser(call[t].remaining, m.remaining)
           /\ IsBestOpposite(m, call[t]) /\ Crosses(call[t], m.price)
           /\ m.symbol = call[t].symbol /\ m.account # call[t].account
           /\ call' = [call EXCEPT ![t].remaining = @ - fill]
           /\ book' = (book \ {m}) \cup AfterFill(m, fill)
           /\ tape' = Append(tape, TradeOf(call[t], m, fill))
           /\ accounts' = BookFill(call[t], m, fill)
           /\ lastPrice' = [lastPrice EXCEPT ![call[t].symbol] = m.price]
<1>1. call[t] \in Takers
  BY TakerTyped DEF Match
<1>2. PICK m \in book :
        /\ IsBestOpposite(m, call[t])
        /\ Crosses(call[t], m.price)
        /\ LET o    == call[t]
               fill == Lesser(o.remaining, m.remaining)
           IN /\ call' = [call EXCEPT ![t].remaining = @ - fill]
              /\ book' = (book \ {m}) \cup AfterFill(m, fill)
              /\ tape' = Append(tape, TradeOf(o, m, fill))
              /\ accounts' = BookFill(o, m, fill)
              /\ lastPrice' = [lastPrice EXCEPT ![o.symbol] = m.price]
  BY DEF Match
<1> DEFINE fill == Lesser(call[t].remaining, m.remaining)
<1>3. m \in Orders
  BY DEF TypeOK
<1>4. fill \in Nat \ {0} /\ fill <= call[t].remaining /\ fill <= m.remaining
  <2>1. call[t].remaining \in Nat /\ call[t].remaining > 0
    BY <1>1 DEF Match, Takers
  <2>2. m.remaining \in Nat \ {0}
    BY <1>3 DEF Orders
  <2> QED
    BY <2>1, <2>2 DEF Lesser
<1>5. m.symbol = call[t].symbol /\ m.account # call[t].account
  BY <1>2 DEF IsBestOpposite, Candidates
<1> HIDE DEF fill
<1>6. /\ call' = [call EXCEPT ![t].remaining = @ - fill]
      /\ book' = (book \ {m}) \cup AfterFill(m, fill)
      /\ tape' = Append(tape, TradeOf(call[t], m, fill))
      /\ accounts' = BookFill(call[t], m, fill)
      /\ lastPrice' = [lastPrice EXCEPT ![call[t].symbol] = m.price]
  BY <1>2 DEF fill
<1>7. fill = Lesser(call[t].remaining, m.remaining)
  BY DEF fill
<1> QED
  BY <1>1, <1>2, <1>3, <1>4, <1>5, <1>6, <1>7

\* n is the order m, perhaps with less of it left.
Reduction(n, m) ==
  /\ n.account = m.account /\ n.symbol = m.symbol /\ n.side = m.side
  /\ n.price = m.price /\ n.seq = m.seq

\* An order that was partly executed keeps everything but its quantity.
LEMMA AfterFillKeeps ==
  ASSUME NEW m \in Orders, NEW fill \in Nat \ {0}, fill <= m.remaining,
         NEW n \in AfterFill(m, fill)
  PROVE  n \in Orders /\ Reduction(n, m)
<1>1. m.remaining \in Nat \ {0}
  BY DEF Orders
<1>2. n = [m EXCEPT !.remaining = @ - fill] /\ m.remaining # fill
  BY DEF AfterFill
<1>3. m.remaining - fill \in Nat \ {0}
  BY <1>1, <1>2
<1> QED
  BY <1>2, <1>3 DEF Orders, Reduction

\* applyFill is called for two different accounts: each ledger is changed by
\* its own side of the fill, and no other is touched.
LEMMA BookFillEffect ==
  ASSUME TypeOK, NEW o \in Takers, NEW m \in Orders, NEW fill \in Nat \ {0},
         m.account # o.account
  PROVE  LET after == BookFill(o, m, fill) IN
         /\ o.account \in Accounts /\ m.account \in Accounts
         /\ DOMAIN after = Accounts /\ after = [a \in Accounts |-> after[a]]
         /\ after[o.account] = ApplyFill(accounts[o.account], o.symbol, o.side, m.price, fill)
         /\ after[m.account] =
              ApplyFill(accounts[m.account], o.symbol, Opposite(o.side), m.price, fill)
         /\ \A a \in Accounts \ {o.account, m.account} : after[a] = accounts[a]
<1>1. o.account \in Accounts /\ m.account \in Accounts
  BY DEF Takers, Orders
<1>2. accounts = [a \in Accounts |-> accounts[a]]
  BY DEF TypeOK
<1> QED
  BY <1>1, <1>2 DEF BookFill

\* A fill leaves every ledger typed and every position sound.
LEMMA FillSound ==
  ASSUME TypeOK, SoundPositions, NEW o \in Takers, NEW m \in Orders,
         NEW fill \in Nat \ {0}, m.account # o.account
  PROVE  /\ BookFill(o, m, fill) \in [Accounts -> LedgerAccount(Symbols)]
         /\ \A a \in Accounts, s \in Symbols :
              Sound(BookFill(o, m, fill)[a].positions[s])
<1> DEFINE after == BookFill(o, m, fill)
<1>1. /\ o.account \in Accounts /\ m.account \in Accounts
      /\ DOMAIN after = Accounts /\ after = [a \in Accounts |-> after[a]]
      /\ after[o.account] = ApplyFill(accounts[o.account], o.symbol, o.side, m.price, fill)
      /\ after[m.account] =
           ApplyFill(accounts[m.account], o.symbol, Opposite(o.side), m.price, fill)
      /\ \A a \in Accounts \ {o.account, m.account} : after[a] = accounts[a]
  BY BookFillEffect
<1> HIDE DEF after
<1>2. /\ o.symbol \in Symbols /\ m.price \in Nat
      /\ \A a \in Accounts : accounts[a] \in LedgerAccount(Symbols)
  <2>1. m.price \in 1..MaxPrice /\ MaxPrice \in Nat
    BY LocalEngineAssumption DEF Orders
  <2> QED
    BY <2>1 DEF Takers, TypeOK
<1>3. ASSUME NEW a \in Accounts, NEW side
      PROVE  /\ ApplyFill(accounts[a], o.symbol, side, m.price, fill) \in LedgerAccount(Symbols)
             /\ \A s \in Symbols :
                  Sound(ApplyFill(accounts[a], o.symbol, side, m.price, fill).positions[s])
  <2> DEFINE new == ApplyFill(accounts[a], o.symbol, side, m.price, fill)
  <2>1. new \in LedgerAccount(Symbols) /\ Sound(new.positions[o.symbol])
    BY <1>2, ApplyFillType DEF SoundPositions
  <2>2. \A s \in Symbols \ {o.symbol} : new.positions[s] = accounts[a].positions[s]
    BY <1>2 DEF ApplyFill, LedgerAccount
  <2> QED
    BY <2>1, <2>2 DEF SoundPositions
<1>4. ASSUME NEW a \in Accounts
      PROVE  after[a] \in LedgerAccount(Symbols) /\ \A s \in Symbols : Sound(after[a].positions[s])
  <2>1. CASE a = o.account
    BY <1>1, <1>3, <2>1
  <2>2. CASE a = m.account
    BY <1>1, <1>3, <2>2
  <2>3. CASE a \notin {o.account, m.account}
    BY <1>1, <1>2, <2>3 DEF SoundPositions
  <2> QED
    BY <2>1, <2>2, <2>3
<1> QED
  BY <1>1, <1>4 DEF after

\* Match keeps the invariant.
LEMMA MatchInv ==
  ASSUME Inv, NEW t \in Threads, Match(t)
  PROVE  Inv'
<1> USE DEF Inv
<1>1. PICK m \in book, fill \in Nat \ {0} :
        /\ m \in Orders /\ call[t] \in Takers
        /\ fill <= call[t].remaining /\ fill <= m.remaining
        /\ IsBestOpposite(m, call[t]) /\ Crosses(call[t], m.price)
        /\ m.symbol = call[t].symbol /\ m.account # call[t].account
        /\ call' = [call EXCEPT ![t].remaining = @ - fill]
        /\ book' = (book \ {m}) \cup AfterFill(m, fill)
        /\ tape' = Append(tape, TradeOf(call[t], m, fill))
        /\ accounts' = BookFill(call[t], m, fill)
        /\ lastPrice' = [lastPrice EXCEPT ![call[t].symbol] = m.price]
  BY MatchStep
<1>2. mu' = mu /\ orderID' = orderID /\ seq' = seq /\ mu = t
  BY DEF Match
<1>3. \A n \in book' : n \in Orders /\ \E k \in book : Reduction(n, k)
  <2>1. \A n \in AfterFill(m, fill) : n \in Orders /\ Reduction(n, m)
    BY <1>1, AfterFillKeeps
  <2>2. \A n \in book : n \in Orders /\ Reduction(n, n)
    BY DEF TypeOK, Reduction
  <2> QED
    BY <1>1, <2>1, <2>2
<1>4. /\ accounts' \in [Accounts -> LedgerAccount(Symbols)]
      /\ SoundPositions'
  <2>1. /\ BookFill(call[t], m, fill) \in [Accounts -> LedgerAccount(Symbols)]
        /\ \A a \in Accounts, s \in Symbols :
             Sound(BookFill(call[t], m, fill)[a].positions[s])
    BY <1>1, FillSound
  <2> QED
    BY <1>1, <2>1 DEF SoundPositions
<1>5. TypeOK'
  <2>1. call' \in [Threads -> Takers \cup {None}] /\ call'[t] \in Takers
        /\ \A u \in Threads : call'[u] # None => Valid(call'[u])
    <3>1. call[t].remaining \in Nat /\ call[t].remaining - fill \in Nat
      BY <1>1 DEF Takers
    <3>2. [call[t] EXCEPT !.remaining = @ - fill] \in Takers
      BY <1>1, <3>1 DEF Takers
    <3>3. Valid([call[t] EXCEPT !.remaining = @ - fill])
      BY <1>1, <1>2, TakerTyped DEF Valid, Takers
    <3>4. call \in [Threads -> Takers \cup {None}] /\ \A u \in Threads : call[u] # None => Valid(call[u])
      BY DEF TypeOK
    <3>5. call' = [call EXCEPT ![t] = [call[t] EXCEPT !.remaining = @ - fill]]
      BY <1>1
    <3> QED
      BY <3>2, <3>3, <3>4, <3>5
  <2>2. tape' \in Seq(Trades)
    <3>1. TradeOf(call[t], m, fill) \in Trades
      BY <1>1 DEF TradeOf, Trades, Takers, Orders
    <3> QED
      BY <1>1, <3>1 DEF TypeOK
  <2>3. lastPrice' \in [Symbols -> 0..MaxPrice]
    <3>1. m.price \in 0..MaxPrice
      <4>1. m.price \in 1..MaxPrice /\ MaxPrice \in Nat
        BY <1>1, LocalEngineAssumption DEF Orders
      <4> QED
        BY <4>1
    <3> QED
      BY <1>1, <3>1 DEF TypeOK
  <2>4. book' \in SUBSET Orders
    BY <1>3
  <2>5. mu' \in Threads /\ call'[mu'] # None
    BY <1>2, <2>1, NoneIsNoCall
  <2> QED
    BY <1>2, <1>4, <2>1, <2>2, <2>3, <2>4, <2>5 DEF TypeOK
<1>6. QueuePositions'
  <2>1. \A n \in book' : n.seq <= seq'
    BY <1>2, <1>3 DEF QueuePositions, Reduction
  <2>2. ASSUME NEW n \in book', NEW k \in book', n.seq = k.seq
        PROVE  n = k
    <3>1. \A x \in AfterFill(m, fill) : x.seq = m.seq
      BY <1>1, AfterFillKeeps DEF Reduction
    <3>2. \A x, y \in AfterFill(m, fill) : x = y
      BY DEF AfterFill
    <3> QED
      BY <1>1, <2>2, <3>1, <3>2 DEF QueuePositions
  <2> QED
    BY <2>1, <2>2 DEF QueuePositions
<1>7. BookNotCrossed'
  BY <1>3 DEF BookNotCrossed, Reduction
<1> QED
  BY <1>4, <1>5, <1>6, <1>7

\* Finish keeps the invariant: what it rests crosses nothing.
LEMMA FinishInv ==
  ASSUME Inv, NEW t \in Threads, Finish(t)
  PROVE  Inv'
<1> USE DEF Inv
<1> DEFINE o == call[t]
           rests == o.remaining > 0 /\ o.type = "LIMIT"
           r == RestingOrder(o)
<1>1. o \in Takers /\ Valid(o)
  BY TakerTyped DEF Finish
<1>2. /\ mu' = None /\ call' = [call EXCEPT ![t] = None] /\ ~ CanFill(o)
      /\ orderID' = orderID /\ accounts' = accounts /\ lastPrice' = lastPrice /\ tape' = tape
      /\ book' = IF rests THEN book \cup {r} ELSE book
      /\ seq' = IF rests THEN seq + 1 ELSE seq
  BY DEF Finish, Rests
<1>3. seq \in Nat /\ orderID \in Nat
  BY DEF TypeOK
<1> HIDE DEF o
<1>4. ASSUME rests PROVE r \in Orders
  <2>1. o.price \in 1..MaxPrice
    <3>1. o.price \in Prices /\ o.price > 0
      BY <1>1, <1>4 DEF Takers, Valid
    <3>2. MaxPrice \in Nat /\ o.price \in Int /\ o.price <= MaxPrice
      BY <3>1, LocalEngineAssumption
    <3> QED
      BY <3>1, <3>2
  <2>2. o.remaining \in Nat \ {0} /\ seq + 1 \in Nat
    BY <1>1, <1>3, <1>4 DEF Takers
  <2> QED
    BY <1>1, <2>1, <2>2 DEF RestingOrder, Orders, Takers
<1>5. TypeOK'
  <2>1. book' \in SUBSET Orders
    BY <1>2, <1>4 DEF TypeOK
  <2>2. call' \in [Threads -> Takers \cup {None}]
        /\ \A u \in Threads : call'[u] # None => Valid(call'[u])
    BY <1>2 DEF TypeOK
  <2> QED
    BY <1>2, <1>3, <2>1, <2>2 DEF TypeOK
<1>6. QueuePositions'
  <2>1. CASE rests
    <3>1. \A m \in book : m.seq \in Nat /\ m.seq <= seq
      BY DEF TypeOK, Orders, QueuePositions
    <3>2. r.seq = seq + 1
      BY DEF RestingOrder
    <3>3. book' = book \cup {r} /\ seq' = seq + 1
      BY <1>2, <2>1
    <3>4. \A m \in book' : m.seq <= seq'
      BY <1>3, <3>1, <3>2, <3>3
    <3>5. \A m \in book : m.seq # r.seq
      BY <1>3, <3>1, <3>2
    <3>6. \A m, n \in book' : m.seq = n.seq => m = n
      BY <3>3, <3>5 DEF QueuePositions
    <3> QED
      BY <3>4, <3>6 DEF QueuePositions
  <2>2. CASE ~ rests
    BY <1>2, <2>2 DEF QueuePositions
  <2> QED
    BY <2>1, <2>2
<1>7. SoundPositions'
  BY <1>2 DEF SoundPositions
<1>8. BookNotCrossed'
  <2>1. CASE rests
    <3>1. book' = book \cup {r}
      BY <1>2, <2>1
    <3>2. r.symbol = o.symbol /\ r.side = o.side /\ r.account = o.account /\ r.price = o.price
      BY DEF RestingOrder
    <3>3. ASSUME NEW m \in book, m.symbol = o.symbol, m.account # o.account, o.side \in Sides,
                 m.side = Wanted(o.side)
          PROVE  ~ Crosses(o, m.price)
      BY <1>1, <1>2, <2>1, <3>3, StopsUncrossed DEF Candidates
    <3>4. \A m \in book : m.price \in Int
      BY DEF TypeOK, Orders
    <3>5. o.price \in Int
      <4>1. o.price \in Prices
        BY <1>1 DEF Takers
      <4> QED
        BY <4>1, LocalEngineAssumption
    <3>6. ASSUME NEW m \in book, m.symbol = r.symbol, m.account # r.account,
                 r.side = "BUY", m.side = "SELL"
          PROVE  r.price < m.price
      <4>1. o.side = "BUY" /\ o.side \in Sides /\ Wanted(o.side) = "SELL"
        BY <3>2, <3>6 DEF Sides, Wanted
      <4>2. ~ (o.price >= m.price)
        BY <3>2, <3>3, <3>6, <4>1 DEF Crosses
      <4> QED
        BY <3>2, <3>4, <3>5, <4>2
    <3>7. ASSUME NEW m \in book, m.symbol = r.symbol, m.account # r.account,
                 m.side = "BUY", r.side = "SELL"
          PROVE  m.price < r.price
      <4>1. o.side = "SELL" /\ o.side \in Sides /\ Wanted(o.side) = "BUY"
        BY <3>2, <3>7 DEF Sides, Wanted
      <4>2. ~ (o.price <= m.price)
        BY <3>2, <3>3, <3>7, <4>1 DEF Crosses
      <4> QED
        BY <3>2, <3>4, <3>5, <4>2
    <3> HIDE DEF r
    <3> QED
      BY <3>1, <3>6, <3>7 DEF BookNotCrossed
  <2>2. CASE ~ rests
    BY <1>2, <2>2 DEF BookNotCrossed
  <2> QED
    BY <2>1, <2>2
<1> QED
  BY <1>5, <1>6, <1>7, <1>8

\* SubmitOrder keeps the invariant: nothing but the calls and the id change.
LEMMA SubmitInv ==
  ASSUME Inv, NEW t \in Threads, NEW o \in NewOrder, SubmitOrder(t, o)
  PROVE  Inv'
<1> USE DEF Inv
<1>1. /\ mu' = mu /\ seq' = seq /\ book' = book /\ accounts' = accounts
      /\ lastPrice' = lastPrice /\ tape' = tape /\ orderID' = orderID + 1 /\ call[t] = None
  BY DEF SubmitOrder
<1>2. orderID \in Nat
  BY DEF TypeOK
<1>3. TypeOK'
  <2>1. CASE Valid(o)
    <3> DEFINE c == [id |-> orderID', account |-> o.account, symbol |-> o.symbol,
                     side |-> o.side, type |-> o.type, price |-> o.price,
                     quantity |-> o.quantity, remaining |-> o.quantity]
    <3>1. call' = [call EXCEPT ![t] = c]
      BY <2>1 DEF SubmitOrder
    <3>2. o.account \in Accounts /\ o.quantity \in Nat \ {0}
      <4>1. o.account \in Traders /\ o.quantity \in Quantities /\ o.quantity > 0
        BY <2>1 DEF NewOrder, Valid
      <4>2. Traders \subseteq Accounts /\ Quantities \subseteq Int
        BY LocalEngineAssumption
      <4>3. o.account \in Accounts
        BY <4>1, <4>2
      <4>4. o.quantity \in Int
        BY <4>1, <4>2
      <4> QED
        BY <4>1, <4>3, <4>4
    <3>3. c \in Takers /\ Valid(c)
      BY <1>1, <1>2, <2>1, <3>2 DEF Takers, NewOrder, Valid
    <3> HIDE DEF c
    <3>4. /\ call' \in [Threads -> Takers \cup {None}]
          /\ \A u \in Threads : call'[u] # None => Valid(call'[u])
          /\ mu' # None => call'[mu'] # None
      BY <1>1, <3>1, <3>3 DEF TypeOK
    <3> QED
      BY <1>1, <1>2, <3>4 DEF TypeOK
  <2>2. CASE ~ Valid(o)
    <3>1. call' = call
      BY <2>2 DEF SubmitOrder
    <3> QED
      BY <1>1, <1>2, <3>1 DEF TypeOK
  <2> QED
    BY <2>1, <2>2
<1> QED
  BY <1>1, <1>3 DEF QueuePositions, SoundPositions, BookNotCrossed

\* CancelOrder keeps the invariant: it can only take an order out of the book.
LEMMA CancelInv ==
  ASSUME Inv, NEW id, NEW who, CancelOrder(id, who)
  PROVE  Inv'
<1> USE DEF Inv
<1>1. /\ mu' = mu /\ seq' = seq /\ book' \subseteq book /\ accounts' = accounts
      /\ lastPrice' = lastPrice /\ tape' = tape /\ orderID' = orderID /\ call' = call
  BY DEF CancelOrder, vars
<1>2. TypeOK'
  BY <1>1 DEF TypeOK
<1> QED
  BY <1>1, <1>2 DEF QueuePositions, SoundPositions, BookNotCrossed

\* Every step keeps the invariant.
LEMMA NextInv == Inv /\ [Next]_vars => Inv'
<1> SUFFICES ASSUME Inv, [Next]_vars PROVE Inv'
  OBVIOUS
<1>1. ASSUME NEW t \in Threads, NEW o \in NewOrder, SubmitOrder(t, o) PROVE Inv'
  BY <1>1, SubmitInv
<1>2. ASSUME NEW t \in Threads, Lock(t) PROVE Inv'
  <2>1. /\ mu' = t /\ call[t] # None /\ orderID' = orderID /\ seq' = seq /\ book' = book
        /\ accounts' = accounts /\ lastPrice' = lastPrice /\ call' = call /\ tape' = tape
    BY <1>2 DEF Lock
  <2>2. TypeOK'
    BY <2>1 DEF Inv, TypeOK
  <2> QED
    BY <2>1, <2>2 DEF Inv, QueuePositions, SoundPositions, BookNotCrossed
<1>3. ASSUME NEW t \in Threads, Match(t) PROVE Inv'
  BY <1>3, MatchInv
<1>4. ASSUME NEW t \in Threads, Finish(t) PROVE Inv'
  BY <1>4, FinishInv
<1>5. ASSUME NEW id \in 1..MaxOrders, NEW who \in Cancellers, CancelOrder(id, who) PROVE Inv'
  BY <1>5, CancelInv
<1>6. CASE UNCHANGED vars
  BY <1>6 DEF vars, Inv, TypeOK, QueuePositions, SoundPositions, BookNotCrossed
<1> QED
  BY <1>1, <1>2, <1>3, <1>4, <1>5, <1>6 DEF Next

\* The invariant holds in every state of every behaviour.
LEMMA Invariance == Spec => []Inv
<1> QED
  BY InitInv, NextInv, PTL DEF Spec

\* Type correctness of the engine: a resting order always has a positive price
\* and quantity, a caller past the checks always carries a valid order, and the
\* mutex is only ever held by a caller with an order to match.
THEOREM TypeCorrect == Spec => []TypeOK
<1>1. Inv => TypeOK
  BY DEF Inv
<1> QED
  BY <1>1, Invariance, PTL

\* The book never stays crossed between two accounts: SubmitOrder rests a
\* remainder only where bestOpposite found nothing it crosses.
THEOREM NeverCrossed == Spec => []BookNotCrossed
<1>1. Inv => BookNotCrossed
  BY DEF Inv
<1> QED
  BY <1>1, Invariance, PTL

-----------------------------------------------------------------------------
(* The average cost of every position. *)

TradedPrices(s) == {tape[i].price : i \in TradesIn(s)}

\* The property, position by position.
LEMMA WithinPositions ==
  BasisWithinTradedPrices <=>
    \A a \in Accounts, s \in Symbols :
      AverageWithin(accounts[a].positions[s], TradedPrices(s))
<1>1. ASSUME NEW a \in Accounts, NEW s \in Symbols, NEW b, NEW q
      PROVE  (\E i, j \in TradesIn(s) : tape[i].price * q <= b /\ b <= tape[j].price * q)
             <=> (\E lo, hi \in TradedPrices(s) : lo * q <= b /\ b <= hi * q)
  BY Zenon DEF TradedPrices
<1> QED
  BY <1>1 DEF BasisWithinTradedPrices, AverageWithin

\* One fill adds its price to the prices traded in its symbol, and to no other.
LEMMA MatchPrices ==
  ASSUME NEW trades \in Seq(Trades), NEW x \in Trades, NEW s
  PROVE  {Append(trades, x)[i].price :
            i \in {j \in DOMAIN Append(trades, x) : Append(trades, x)[j].symbol = s}}
         = {trades[i].price : i \in {j \in DOMAIN trades : trades[j].symbol = s}}
           \cup (IF x.symbol = s THEN {x.price} ELSE {})
<1> DEFINE n == Len(trades)
           all == Append(trades, x)
<1>1. /\ n \in Nat /\ DOMAIN trades = 1..n /\ DOMAIN all = 1..(n + 1)
      /\ all[n + 1] = x /\ \A i \in 1..n : all[i] = trades[i]
  OBVIOUS
<1>2. 1..(n + 1) = 1..n \cup {n + 1}
  BY <1>1
<1> HIDE DEF all, n
<1>3. {all[i].price : i \in {j \in DOMAIN all : all[j].symbol = s}}
      = {trades[i].price : i \in {j \in DOMAIN trades : trades[j].symbol = s}}
        \cup (IF x.symbol = s THEN {x.price} ELSE {})
  BY <1>1, <1>2
<1> QED
  BY <1>3 DEF all

\* applyFill keeps the average cost of the position it changes within the
\* prices traded, and touches no other position of the account.
LEMMA ApplyFillAverages ==
  ASSUME NEW acct \in LedgerAccount(Symbols), NEW s \in Symbols, NEW side,
         NEW price \in Nat, NEW qty \in Nat \ {0},
         \A r \in Symbols : Sound(acct.positions[r]),
         NEW P \in [Symbols -> SUBSET Nat],
         \A r \in Symbols : AverageWithin(acct.positions[r], P[r])
  PROVE  \A r \in Symbols :
           AverageWithin(ApplyFill(acct, s, side, price, qty).positions[r],
                         P[r] \cup (IF s = r THEN {price} ELSE {}))
<1> DEFINE pos == acct.positions[s]
           delta == Delta(side, qty)
           new == [qty |-> pos.qty + delta, costBasis |-> BasisAfter(pos, delta, price)]
<1>1. pos \in Position /\ delta \in Int /\ delta # 0
  BY DEF LedgerAccount, Delta
<1>2. AverageWithin(new, P[s] \cup {price})
  BY <1>1, FillKeepsAverageWithin
<1>3. ApplyFill(acct, s, side, price, qty).positions = [acct.positions EXCEPT ![s] = new]
  BY DEF ApplyFill
<1> HIDE DEF new
<1>4. \A r \in Symbols : [acct.positions EXCEPT ![s] = new][r] = IF r = s THEN new ELSE acct.positions[r]
  BY DEF LedgerAccount
<1>5. ASSUME NEW r \in Symbols
      PROVE  AverageWithin(ApplyFill(acct, s, side, price, qty).positions[r],
                           P[r] \cup (IF s = r THEN {price} ELSE {}))
  <2>1. CASE r = s
    BY <1>2, <1>3, <1>4, <2>1
  <2>2. CASE r # s
    <3>1. P[r] \cup (IF s = r THEN {price} ELSE {}) = P[r]
      BY <2>2
    <3> QED
      BY <1>3, <1>4, <2>2, <3>1
  <2> QED
    BY <2>1, <2>2
<1> QED
  BY <1>5

\* A fill keeps the average cost of every position within the prices traded.
LEMMA MatchAverages ==
  ASSUME Inv, BasisWithinTradedPrices, NEW t \in Threads, Match(t)
  PROVE  BasisWithinTradedPrices'
<1>1. PICK m \in book, fill \in Nat \ {0} :
        /\ m \in Orders /\ call[t] \in Takers
        /\ m.symbol = call[t].symbol /\ m.account # call[t].account
        /\ tape' = Append(tape, TradeOf(call[t], m, fill))
        /\ accounts' = BookFill(call[t], m, fill)
  BY MatchStep DEF Inv
<1> DEFINE o == call[t]
           x == TradeOf(o, m, fill)
           P == [s \in Symbols |-> TradedPrices(s)]
           more(s) == IF o.symbol = s THEN {m.price} ELSE {}
<1>2. tape \in Seq(Trades) /\ accounts \in [Accounts -> LedgerAccount(Symbols)]
  BY DEF Inv, TypeOK
<1>3. x \in Trades /\ x.symbol = o.symbol /\ x.price = m.price
  BY <1>1 DEF TradeOf, Trades, Takers, Orders
<1>4. m.price \in Nat /\ o.symbol \in Symbols
  <2>1. m.price \in 1..MaxPrice /\ MaxPrice \in Nat
    BY <1>1, LocalEngineAssumption DEF Orders
  <2> QED
    BY <1>1, <2>1 DEF Takers
<1> HIDE DEF x
<1>5. \A s \in Symbols : (TradedPrices(s))' = TradedPrices(s) \cup more(s)
  BY <1>1, <1>2, <1>3, MatchPrices DEF TradedPrices, TradesIn, x
<1>6. P \in [Symbols -> SUBSET Nat]
  <2>1. \A i \in DOMAIN tape : tape[i].price \in 1..MaxPrice
    <3>1. \A i \in DOMAIN tape : tape[i] \in Trades
      BY <1>2
    <3>2. \A y \in Trades : y.price \in 1..MaxPrice
      BY DEF Trades
    <3> QED
      BY <3>1, <3>2
  <2>2. MaxPrice \in Nat
    BY LocalEngineAssumption
  <2>3. \A i \in DOMAIN tape : tape[i].price \in Nat
    BY <2>1, <2>2
  <2> QED
    BY <2>3 DEF TradedPrices, TradesIn
<1>7. \A a \in Accounts, s \in Symbols : AverageWithin(accounts[a].positions[s], P[s])
  BY WithinPositions
<1> DEFINE after == BookFill(o, m, fill)
<1>8. /\ o.account \in Accounts /\ m.account \in Accounts
      /\ after[o.account] = ApplyFill(accounts[o.account], o.symbol, o.side, m.price, fill)
      /\ after[m.account] =
           ApplyFill(accounts[m.account], o.symbol, Opposite(o.side), m.price, fill)
      /\ \A a \in Accounts \ {o.account, m.account} : after[a] = accounts[a]
  BY <1>1, BookFillEffect DEF Inv
<1> HIDE DEF o, P, after
<1>9. ASSUME NEW a \in Accounts, NEW side
      PROVE  \A s \in Symbols :
               AverageWithin(ApplyFill(accounts[a], o.symbol, side, m.price, fill).positions[s],
                             P[s] \cup more(s))
  <2>1. accounts[a] \in LedgerAccount(Symbols) /\ \A r \in Symbols : Sound(accounts[a].positions[r])
    BY <1>2 DEF Inv, SoundPositions
  <2> QED
    BY <1>4, <1>6, <1>7, <2>1, ApplyFillAverages
<1>10. ASSUME NEW a \in Accounts, NEW s \in Symbols
       PROVE  AverageWithin(after[a].positions[s], P[s] \cup more(s))
  <2>1. CASE a = o.account
    BY <1>8, <1>9, <2>1
  <2>2. CASE a = m.account
    BY <1>8, <1>9, <2>2
  <2>3. CASE a \notin {o.account, m.account}
    <3>1. after[a].positions[s] = accounts[a].positions[s]
      BY <1>8, <2>3
    <3>2. AverageWithin(accounts[a].positions[s], P[s])
      BY <1>7
    <3> QED
      BY <3>1, <3>2 DEF AverageWithin
  <2> QED
    BY <2>1, <2>2, <2>3
<1>11. \A a \in Accounts, s \in Symbols :
         AverageWithin(accounts'[a].positions[s], (TradedPrices(s))')
  BY <1>1, <1>5, <1>10 DEF o, P, after
<1>12. (BasisWithinTradedPrices <=>
         \A a \in Accounts, s \in Symbols :
           AverageWithin(accounts[a].positions[s], TradedPrices(s)))'
  BY WithinPositions, PTL
<1>13. (\A a \in Accounts, s \in Symbols :
          AverageWithin(accounts[a].positions[s], TradedPrices(s)))'
  BY <1>11
<1> QED
  BY <1>12, <1>13

\* The average cost of an open position never leaves the range of prices traded
\* in its symbol, however many partial closes have rounded it (ledger.go,
\* applyFill: the remainder is carried forward).
THEOREM AveragesBounded == Spec => []BasisWithinTradedPrices
<1>1. Init => BasisWithinTradedPrices
  BY DEF Init, BasisWithinTradedPrices, OpenAccount, FlatPosition
<1>2. Inv /\ BasisWithinTradedPrices /\ [Next]_vars => BasisWithinTradedPrices'
  <2> SUFFICES ASSUME Inv, BasisWithinTradedPrices, [Next]_vars PROVE BasisWithinTradedPrices'
    OBVIOUS
  <2>1. ASSUME NEW t \in Threads, Match(t) PROVE BasisWithinTradedPrices'
    BY <2>1, MatchAverages
  <2>2. CASE UNCHANGED <<accounts, tape>>
    BY <2>2 DEF BasisWithinTradedPrices, TradesIn
  <2> QED
    BY <2>1, <2>2 DEF Next, SubmitOrder, Lock, Finish, CancelOrder, vars
<1> QED
  BY <1>1, <1>2, Invariance, PTL DEF Spec

-----------------------------------------------------------------------------
(* What a step may do to the ledgers. *)

\* The ledger of account a takes part in one execution in symbol s: `paid' leaves
\* its cash, `got' (negative for a seller) enters its position, and the P&L it
\* books is what reconciles the two.
Books(a, s, got, paid) ==
  /\ accounts'[a].cash = accounts[a].cash - paid
  /\ accounts'[a].positions[s].qty = accounts[a].positions[s].qty + got
  /\ \A r \in Symbols \ {s} : accounts'[a].positions[r] = accounts[a].positions[r]
  /\ accounts'[a].cash + SignedBasis(accounts'[a].positions[s])
       - SignedBasis(accounts[a].positions[s])
     = accounts[a].cash + (accounts'[a].realized - accounts[a].realized)

\* A step leaves the ledgers alone or moves one quantity and its price between
\* exactly two of them.
Transfer ==
  \/ accounts' = accounts
  \/ \E buyer, seller \in Accounts, s \in Symbols, price \in Nat, qty \in Nat \ {0} :
       /\ buyer # seller
       /\ Books(buyer, s, qty, price * qty)
       /\ Books(seller, s, -qty, -(price * qty))
       /\ \A a \in Accounts \ {buyer, seller} : accounts'[a] = accounts[a]

\* applyFill books its side of an execution.
LEMMA ApplyFillBooks ==
  ASSUME NEW acct \in LedgerAccount(Symbols), NEW s \in Symbols, NEW side,
         NEW price \in Nat, NEW qty \in Nat \ {0}, Sound(acct.positions[s])
  PROVE  LET new == ApplyFill(acct, s, side, price, qty)
             got == Delta(side, qty)
         IN /\ new.cash = acct.cash - price * got
            /\ new.positions[s].qty = acct.positions[s].qty + got
            /\ \A r \in Symbols \ {s} : new.positions[r] = acct.positions[r]
            /\ new.cash + SignedBasis(new.positions[s]) - SignedBasis(acct.positions[s])
               = acct.cash + (new.realized - acct.realized)
<1> DEFINE pos == acct.positions[s]
           got == Delta(side, qty)
           after == [qty |-> pos.qty + got, costBasis |-> BasisAfter(pos, got, price)]
           new == ApplyFill(acct, s, side, price, qty)
<1>1. pos \in Position /\ got \in Int /\ got # 0 /\ acct.cash \in Int /\ acct.realized \in Int
  BY DEF LedgerAccount, Delta
<1>2. SignedBasis(after) - price * got = SignedBasis(pos) + RealizedBy(pos, got, price)
  BY <1>1, FillReconciles
<1>3. BasisAfter(pos, got, price) \in Nat /\ RealizedBy(pos, got, price) \in Int
  BY <1>1, BasisAfterSound
<1>4. SignedBasis(after) \in Int /\ SignedBasis(pos) \in Int /\ price * got \in Int
  <2>1. price * got \in Int
    BY <1>1, Z3
  <2>2. SignedBasis(pos) \in Int
    BY <1>1 DEF SignedBasis, Position
  <2>3. after \in Position
    BY <1>1, <1>3 DEF Position
  <2>4. SignedBasis(after) \in Int
    BY <2>3 DEF SignedBasis, Position
  <2> QED
    BY <2>1, <2>2, <2>4
<1> HIDE DEF after, got, pos
<1>5. /\ new.cash = acct.cash - price * got
      /\ new.realized = acct.realized + RealizedBy(pos, got, price)
      /\ new.positions = [acct.positions EXCEPT ![s] = after]
  BY DEF ApplyFill, after, got, pos
<1>6. acct.positions \in [Symbols -> Position]
  BY DEF LedgerAccount
<1>7. new.positions[s] = after /\ \A r \in Symbols \ {s} : new.positions[r] = acct.positions[r]
  BY <1>5, <1>6
<1>8. after.qty = pos.qty + got
  BY DEF after
<1> HIDE DEF new
<1>9. new.cash + SignedBasis(new.positions[s]) - SignedBasis(pos)
      = acct.cash + (new.realized - acct.realized)
  BY <1>1, <1>2, <1>3, <1>4, <1>5, <1>7
<1> QED
  BY <1>5, <1>7, <1>8, <1>9 DEF new, got, pos

\* Orders with a valid side only: every step of the engine that touches a ledger
\* is one execution between two different accounts, the buyer pays what the
\* seller receives and gets what the seller delivers, and both reconcile their
\* P&L with their cash to the tick.  This is why cash is conserved and accounts
\* reconcile; with any other side both parties are booked as buyers (BookFill)
\* and it does not hold.
THEOREM FillsAreTransfers ==
  ASSUME SideInputs \subseteq Sides
  PROVE  Spec => [][Transfer]_vars
<1>1. ASSUME Inv, [Next]_vars PROVE Transfer \/ UNCHANGED vars
  <2>1. ASSUME NEW t \in Threads, Match(t) PROVE Transfer
    <3>1. PICK m \in book, fill \in Nat \ {0} :
            /\ m \in Orders /\ call[t] \in Takers /\ m.account # call[t].account
            /\ accounts' = BookFill(call[t], m, fill)
      BY <1>1, <2>1, MatchStep DEF Inv
    <3> DEFINE o == call[t]
    <3>2. /\ o.account \in Accounts /\ m.account \in Accounts
          /\ accounts'[o.account] = ApplyFill(accounts[o.account], o.symbol, o.side, m.price, fill)
          /\ accounts'[m.account] =
               ApplyFill(accounts[m.account], o.symbol, Opposite(o.side), m.price, fill)
          /\ \A a \in Accounts \ {o.account, m.account} : accounts'[a] = accounts[a]
      BY <1>1, <3>1, BookFillEffect DEF Inv
    <3>3. o.symbol \in Symbols /\ o.side \in Sides /\ m.price \in Nat
      <4>1. m.price \in 1..MaxPrice /\ MaxPrice \in Nat
        BY <3>1, LocalEngineAssumption DEF Orders
      <4>2. o.side \in SideInputs /\ o.symbol \in Symbols
        BY <3>1 DEF Takers
      <4>3. m.price \in Nat
        BY <4>1
      <4> QED
        BY <4>2, <4>3
    <3>4. ASSUME NEW a \in Accounts
          PROVE  accounts[a] \in LedgerAccount(Symbols) /\ Sound(accounts[a].positions[o.symbol])
      BY <1>1, <3>3 DEF Inv, TypeOK, SoundPositions
    <3> HIDE DEF o
    <3>5. ASSUME NEW a \in Accounts, NEW side,
                 accounts'[a] = ApplyFill(accounts[a], o.symbol, side, m.price, fill)
          PROVE  Books(a, o.symbol, Delta(side, fill), m.price * Delta(side, fill))
      BY <3>3, <3>4, <3>5, ApplyFillBooks DEF Books
    <3>6. m.price * (-fill) = -(m.price * fill)
      <4>1. \A p, n \in Int : p * (-n) = -(p * n)
        OBVIOUS
      <4> QED
        BY <3>3, <4>1
    <3>7. CASE o.side = "BUY"
      <4>1. Books(o.account, o.symbol, fill, m.price * fill)
        <5>1. Delta(o.side, fill) = fill
          BY <3>7 DEF Delta
        <5> QED
          BY <3>2, <3>5, <5>1
      <4>2. Books(m.account, o.symbol, -fill, -(m.price * fill))
        <5>1. Delta(Opposite(o.side), fill) = -fill
          BY <3>7 DEF Delta, Opposite
        <5> QED
          BY <3>2, <3>5, <3>6, <5>1
      <4> QED
        BY <3>1, <3>2, <3>3, <4>1, <4>2 DEF Transfer, o
    <3>8. CASE o.side = "SELL"
      <4>1. Books(m.account, o.symbol, fill, m.price * fill)
        <5>1. Delta(Opposite(o.side), fill) = fill
          BY <3>8 DEF Delta, Opposite
        <5> QED
          BY <3>2, <3>5, <5>1
      <4>2. Books(o.account, o.symbol, -fill, -(m.price * fill))
        <5>1. Delta(o.side, fill) = -fill
          BY <3>8 DEF Delta
        <5> QED
          BY <3>2, <3>5, <3>6, <5>1
      <4> QED
        BY <3>1, <3>2, <3>3, <4>1, <4>2 DEF Transfer, o
    <3> QED
      BY <3>3, <3>7, <3>8 DEF Sides
  <2>2. CASE accounts' = accounts
    BY <2>2 DEF Transfer
  <2> QED
    BY <1>1, <2>1, <2>2 DEF Next, SubmitOrder, Lock, Finish, CancelOrder, vars
<1>2. Inv /\ [Next]_vars => [Transfer]_vars
  BY <1>1
<1> QED
  BY <1>2, Invariance, PTL DEF Spec

-----------------------------------------------------------------------------
(* The engine implements the abstract book. *)

\* A caller that waits for the mutex has not traded yet.
WaitersWhole == \A t \in Threads : call[t] # None /\ mu # t => call[t].remaining > 0

\* Taking the mutex is the arrival of the order at its symbol's book.
LEMMA LockRefines ==
  ASSUME Inv, WaitersWhole, NEW t \in Threads, Lock(t), NEW s \in Symbols
  PROVE  [Book(s)!Next]_(Book(s)!bookVars)
<1>1. /\ mu = None /\ mu' = t /\ call' = call /\ book' = book /\ call[t] # None
      /\ call[t].remaining > 0 /\ t # None
  BY LocalEngineAssumption DEF Lock, WaitersWhole
<1>2. CASE call[t].symbol = s
  <2>1. Book(s)!Arrive
    BY <1>1, <1>2 DEF Book!Arrive
  <2> QED
    BY <2>1 DEF Book!Next
<1>3. CASE call[t].symbol # s
  <2>1. UNCHANGED (Book(s)!bookVars)
    BY <1>1, <1>3 DEF Book!bookVars
  <2> QED
    BY <2>1
<1> QED
  BY <1>2, <1>3

\* An iteration of the loop is a fill of the first order in line.
LEMMA MatchRefines ==
  ASSUME Inv, SideInputs \subseteq Sides, NEW t \in Threads, Match(t), NEW s \in Symbols
  PROVE  [Book(s)!Next]_(Book(s)!bookVars)
<1>1. PICK m \in book, fill \in Nat \ {0} :
        /\ m \in Orders /\ call[t] \in Takers
        /\ fill = Lesser(call[t].remaining, m.remaining)
        /\ IsBestOpposite(m, call[t]) /\ Crosses(call[t], m.price)
        /\ m.symbol = call[t].symbol /\ m.account # call[t].account
        /\ call' = [call EXCEPT ![t].remaining = @ - fill]
        /\ book' = (book \ {m}) \cup AfterFill(m, fill)
  BY MatchStep DEF Inv
<1> DEFINE o == call[t]
<1>2. mu' = mu /\ mu = t /\ t # None /\ o.remaining > 0 /\ o # None
  BY LocalEngineAssumption, TakerTyped DEF Match, Inv
<1>3. call'[t] = [o EXCEPT !.remaining = @ - fill] /\ call'[t].symbol = o.symbol
  <2>1. call \in [Threads -> Takers \cup {None}]
    BY DEF Inv, TypeOK
  <2> QED
    BY <1>1, <2>1 DEF Takers
<1>4. \A n \in AfterFill(m, fill) : n.symbol = m.symbol
  BY <1>1 DEF AfterFill, Orders
<1> HIDE DEF o
<1>5. CASE o.symbol = s
  <2> DEFINE R == {k \in book : k.symbol = s}
  <2>1. (IF mu # None /\ call[mu].symbol = s THEN call[mu] ELSE None) = o
    BY <1>2, <1>5 DEF o
  <2>2. (IF mu' # None /\ call'[mu'].symbol = s THEN call'[mu'] ELSE None) = [o EXCEPT !.remaining = @ - fill]
    BY <1>2, <1>3, <1>5
  <2>3. {k \in book' : k.symbol = s} = (R \ {m}) \cup AfterFill(m, fill)
    BY <1>1, <1>4, <1>5 DEF o
  <2>4. AfterFill(m, fill) = Book(s)!Reduced(m, fill)
    BY DEF AfterFill, Book!Reduced
  <2>5. o.side \in Sides
    BY <1>1 DEF Takers, o
  <2>6. m \in Book(s)!Eligible(o, R)
    <3>1. m \in R /\ m.account # o.account /\ m.side = Wanted(o.side)
      BY <1>1, <1>5 DEF o, IsBestOpposite, Candidates
    <3>2. Book(s)!Takes(o, m.price)
      <4>1. m.price \in Int
        BY <1>1, LocalEngineAssumption DEF Orders
      <4>2. o.price \in Int
        <5>1. o.price \in Prices
          BY <1>1 DEF Takers, o
        <5> QED
          BY <5>1, LocalEngineAssumption
      <4> QED
        BY <1>1, <4>1, <4>2 DEF Crosses, Book!Takes, o
    <3>3. Wanted(o.side) = Book(s)!OtherSide(o.side)
      BY <2>5 DEF Wanted, Book!OtherSide, Sides
    <3> QED
      BY <3>1, <3>2, <3>3 DEF Book!Eligible
  <2>7. Book(s)!Eligible(o, R) \subseteq Candidates(o)
    <3>1. Wanted(o.side) = Book(s)!OtherSide(o.side)
      BY <2>5 DEF Wanted, Book!OtherSide, Sides
    <3> QED
      BY <1>5, <3>1 DEF Book!Eligible, Candidates
  <2>8. Book(s)!FirstInLine(m, Book(s)!Eligible(o, R))
    BY <1>1, <2>7 DEF o, IsBestOpposite, BetterPrice, Book!FirstInLine, Book!Precedes
  <2>9. fill = IF m.remaining < o.remaining THEN m.remaining ELSE o.remaining
    <3>1. m.remaining \in Nat /\ o.remaining \in Nat
      BY <1>1 DEF Orders, Takers, o
    <3> QED
      BY <1>1, <3>1 DEF Lesser, o
  <2> HIDE DEF R
  <2>10. Book(s)!Fill
    BY <1>2, <2>1, <2>2, <2>3, <2>4, <2>6, <2>8, <2>9 DEF Book!Fill, R
  <2> QED
    BY <2>10 DEF Book!Next
<1>6. CASE o.symbol # s
  <2>1. {k \in book' : k.symbol = s} = {k \in book : k.symbol = s}
    BY <1>1, <1>4, <1>6 DEF o
  <2>2. UNCHANGED (Book(s)!bookVars)
    BY <1>2, <1>3, <1>6, <2>1 DEF Book!bookVars, o
  <2> QED
    BY <2>2
<1> QED
  BY <1>5, <1>6

\* The end of SubmitOrder is the departure of the order, its remainder resting
\* behind every other order of the book.
LEMMA FinishRefines ==
  ASSUME Inv, SideInputs \subseteq Sides, NEW t \in Threads, Finish(t), NEW s \in Symbols
  PROVE  [Book(s)!Next]_(Book(s)!bookVars)
<1> DEFINE o == call[t]
           rests == o.remaining > 0 /\ o.type = "LIMIT"
           r == RestingOrder(o)
<1>1. /\ mu = t /\ mu' = None /\ ~ CanFill(o) /\ t # None
      /\ book' = IF rests THEN book \cup {r} ELSE book
  BY LocalEngineAssumption DEF Finish, Rests
<1>2. o \in Takers /\ o # None
  BY <1>1, TakerTyped DEF Inv
<1>3. /\ r.id = o.id /\ r.account = o.account /\ r.side = o.side /\ r.symbol = o.symbol
      /\ r.price = o.price /\ r.remaining = o.remaining /\ r.seq = seq + 1
  BY DEF RestingOrder
<1> HIDE DEF o, r
<1>4. (IF mu' # None /\ call'[mu'].symbol = s THEN call'[mu'] ELSE None) = None
  BY <1>1
<1>5. CASE o.symbol = s
  <2> DEFINE R == {k \in book : k.symbol = s}
  <2>1. (IF mu # None /\ call[mu].symbol = s THEN call[mu] ELSE None) = o
    BY <1>1, <1>5 DEF o
  <2>2. o.remaining = 0 \/ Book(s)!Eligible(o, R) = {}
    <3>1. SUFFICES ASSUME o.remaining # 0, NEW m \in Book(s)!Eligible(o, R) PROVE FALSE
      OBVIOUS
    <3>2. o.side \in Sides
      BY <1>2 DEF Takers
    <3>3. Wanted(o.side) = Book(s)!OtherSide(o.side)
      BY <3>2 DEF Wanted, Book!OtherSide, Sides
    <3>4. m \in Candidates(o) /\ Book(s)!Takes(o, m.price)
      BY <1>5, <3>1, <3>3 DEF Book!Eligible, Candidates
    <3>5. o.remaining > 0
      BY <1>2, <3>1 DEF Takers
    <3>6. ~ Crosses(o, m.price)
      BY <1>1, <1>2, <3>2, <3>4, <3>5, StopsUncrossed DEF Inv
    <3>7. m.price \in Int
      BY <3>4 DEF Inv, TypeOK, Candidates, Orders
    <3>8. o.price \in Int
      <4>1. o.price \in Prices
        BY <1>2 DEF Takers
      <4> QED
        BY <4>1, LocalEngineAssumption
    <3> QED
      BY <3>4, <3>6, <3>7, <3>8 DEF Crosses, Book!Takes
  <2>3. CASE rests
    <3>1. {k \in book' : k.symbol = s} = R \cup {r}
      BY <1>1, <1>3, <1>5, <2>3
    <3>2. \A m \in R : m.seq < r.seq
      <4>1. seq \in Nat /\ \A m \in book : m.seq \in Nat /\ m.seq <= seq
        BY DEF Inv, TypeOK, Orders, QueuePositions
      <4> QED
        BY <1>3, <4>1
    <3>3. Book(s)!RestsBehind(r, o, R)
      BY <1>3, <3>2 DEF Book!RestsBehind
    <3>4. Book(s)!Leave
      BY <1>2, <1>4, <2>1, <2>2, <2>3, <3>1, <3>3 DEF Book!Leave
    <3> QED
      BY <3>4 DEF Book!Next
  <2>4. CASE ~ rests
    <3>1. Book(s)!Leave
      BY <1>1, <1>2, <1>4, <2>1, <2>2, <2>4 DEF Book!Leave
    <3> QED
      BY <3>1 DEF Book!Next
  <2> QED
    BY <2>3, <2>4
<1>6. CASE o.symbol # s
  <2>1. {k \in book' : k.symbol = s} = {k \in book : k.symbol = s}
    BY <1>1, <1>3, <1>6
  <2>2. UNCHANGED (Book(s)!bookVars)
    BY <1>1, <1>6, <2>1 DEF Book!bookVars, o
  <2> QED
    BY <2>2
<1> QED
  BY <1>5, <1>6

\* A cancel takes one order out of one symbol's book.
LEMMA CancelRefines ==
  ASSUME NEW id, NEW who, CancelOrder(id, who), NEW s \in Symbols
  PROVE  [Book(s)!Next]_(Book(s)!bookVars)
<1>1. mu = None /\ mu' = None
  BY DEF CancelOrder, vars
<1>2. CASE \E m \in book : book' = book \ {m}
  <2>1. PICK m \in book : book' = book \ {m}
    BY <1>2
  <2>2. CASE m.symbol = s
    <3>1. Book(s)!Cancel
      BY <1>1, <2>1, <2>2 DEF Book!Cancel
    <3> QED
      BY <3>1 DEF Book!Next
  <2>3. CASE m.symbol # s
    <3>1. UNCHANGED (Book(s)!bookVars)
      BY <1>1, <2>1, <2>3 DEF Book!bookVars
    <3> QED
      BY <3>1
  <2> QED
    BY <2>2, <2>3
<1>3. CASE book' = book
  BY <1>1, <1>3 DEF Book!bookVars
<1> QED
  BY <1>2, <1>3 DEF CancelOrder, vars

\* A submission is not yet seen by any book.
LEMMA SubmitRefines ==
  ASSUME Inv, NEW t \in Threads, NEW o \in NewOrder, SubmitOrder(t, o), NEW s \in Symbols
  PROVE  [Book(s)!Next]_(Book(s)!bookVars)
<1>1. mu' = mu /\ book' = book /\ call[t] = None
  BY DEF SubmitOrder
<1>2. mu # None => mu \in Threads /\ mu # t /\ call'[mu] = call[mu]
  BY <1>1 DEF Inv, TypeOK, SubmitOrder
<1>3. UNCHANGED (Book(s)!bookVars)
  BY <1>1, <1>2 DEF Book!bookVars
<1> QED
  BY <1>3

\* WaitersWhole holds in every state.
LEMMA WaitersInvariant == Spec => []WaitersWhole
<1>1. Init => WaitersWhole
  BY DEF Init, WaitersWhole
<1>2. Inv /\ WaitersWhole /\ [Next]_vars => WaitersWhole'
  <2> SUFFICES ASSUME Inv, WaitersWhole, [Next]_vars PROVE WaitersWhole'
    OBVIOUS
  <2>1. call \in [Threads -> Takers \cup {None}]
    BY DEF Inv, TypeOK
  <2>2. ASSUME NEW t \in Threads, NEW o \in NewOrder, SubmitOrder(t, o) PROVE WaitersWhole'
    <3>1. mu' = mu
      BY <2>2 DEF SubmitOrder
    <3>2. CASE Valid(o)
      BY <2>1, <2>2, <3>1, <3>2 DEF SubmitOrder, WaitersWhole, Valid
    <3>3. CASE ~ Valid(o)
      BY <2>2, <3>1, <3>3 DEF SubmitOrder, WaitersWhole
    <3> QED
      BY <3>2, <3>3
  <2>3. ASSUME NEW t \in Threads, Lock(t) PROVE WaitersWhole'
    BY <2>3, LocalEngineAssumption DEF Lock, WaitersWhole
  <2>4. ASSUME NEW t \in Threads, Match(t) PROVE WaitersWhole'
    <3>1. mu' = t /\ mu = t /\ \A u \in Threads \ {t} : call'[u] = call[u]
      BY <2>1, <2>4 DEF Match
    <3> QED
      BY <3>1 DEF WaitersWhole
  <2>5. ASSUME NEW t \in Threads, Finish(t) PROVE WaitersWhole'
    <3>1. mu = t /\ call'[t] = None /\ \A u \in Threads \ {t} : call'[u] = call[u]
      BY <2>1, <2>5 DEF Finish
    <3> QED
      BY <3>1 DEF WaitersWhole
  <2>6. CASE UNCHANGED <<mu, call>>
    BY <2>6 DEF WaitersWhole
  <2> QED
    BY <2>2, <2>3, <2>4, <2>5, <2>6 DEF Next, CancelOrder, vars
<1> QED
  BY <1>1, <1>2, Invariance, PTL DEF Spec

\* With valid sides, every symbol's book follows price-time priority with the
\* skip policy (the abstract book PriceTimeBook), for any number of concurrent
\* callers, accounts and symbols.
THEOREM EngineKeepsPriority ==
  ASSUME SideInputs \subseteq Sides
  PROVE  Spec => PriceTimePriority
<1>1. ASSUME Init, NEW s \in Symbols PROVE Book(s)!Init
  BY <1>1, SeedsTyped DEF Init, Book!Init
<1>2. ASSUME Inv, WaitersWhole, [Next]_vars, NEW s \in Symbols
      PROVE  [Book(s)!Next]_(Book(s)!bookVars)
  <2>1. ASSUME NEW t \in Threads, NEW o \in NewOrder, SubmitOrder(t, o)
        PROVE  [Book(s)!Next]_(Book(s)!bookVars)
    BY <1>2, <2>1, SubmitRefines
  <2>2. ASSUME NEW t \in Threads, Lock(t) PROVE [Book(s)!Next]_(Book(s)!bookVars)
    BY <1>2, <2>2, LockRefines
  <2>3. ASSUME NEW t \in Threads, Match(t) PROVE [Book(s)!Next]_(Book(s)!bookVars)
    BY <1>2, <2>3, MatchRefines
  <2>4. ASSUME NEW t \in Threads, Finish(t) PROVE [Book(s)!Next]_(Book(s)!bookVars)
    BY <1>2, <2>4, FinishRefines
  <2>5. ASSUME NEW id \in 1..MaxOrders, NEW who \in Cancellers, CancelOrder(id, who)
        PROVE  [Book(s)!Next]_(Book(s)!bookVars)
    BY <2>5, CancelRefines
  <2>6. CASE UNCHANGED vars
    BY <2>6 DEF vars, Book!bookVars
  <2> QED
    BY <1>2, <2>1, <2>2, <2>3, <2>4, <2>5, <2>6 DEF Next
<1>3. Inv /\ WaitersWhole /\ [Next]_vars
        => [\A s \in Symbols : [Book(s)!Next]_(Book(s)!bookVars)]_vars
  BY <1>2
<1>4. Init => \A s \in Symbols : Book(s)!Init
  BY <1>1
<1> QED
  BY <1>3, <1>4, Invariance, WaitersInvariant, PTL DEF Spec, PriceTimePriority

-----------------------------------------------------------------------------
(* What the ledgers add up to. *)

\* The cash of every account, and the sum CashConserved takes of it.
CashOf(accts) == [a \in Accounts |-> accts[a].cash]

\* CashConserved's sum in the form the sum theorems speak of.
LEMMA CashTotal ==
  ASSUME TypeOK
  PROVE  MapThenSumSet(LAMBDA a : accounts[a].cash, Accounts) = Total(CashOf(accounts), Accounts)
<1> DEFINE P(it) == it = [s \in SUBSET Accounts |->
                            IF s = {} THEN 0 ELSE accounts[Pick(s)].cash + it[s \ {Pick(s)}]]
           f == CashOf(accounts)
<1>1. MapThenSumSet(LAMBDA a : accounts[a].cash, Accounts) = (CHOOSE it : P(it))[Accounts]
  BY Zenon DEF MapThenSumSet, MapThenFoldSet, Pick
<1>2. Summable(f, Accounts)
  BY LocalEngineAssumption DEF Summable, TypeOK, CashOf, LedgerAccount
<1>3. ASSUME NEW it PROVE P(it) <=> SumsOver(it, f, SUBSET Accounts)
  <2>1. \A s \in SUBSET Accounts : s # {} => accounts[Pick(s)].cash = f[Pick(s)]
    BY PickIn DEF CashOf
  <2> QED
    BY <2>1 DEF SumsOver
<1> HIDE DEF P
<1>4. P(CHOOSE it : P(it))
  <2>1. \E it : P(it)
    BY <1>2, <1>3, SumsExist
  <2> QED
    BY <2>1
<1> QED
  BY <1>1, <1>2, <1>3, <1>4, IsTotal

\* Orders with a valid side move cash between two accounts, so the sum stays.
LEMMA TransferKeepsCash ==
  ASSUME TypeOK, Transfer, TypeOK'
  PROVE  Total(CashOf(accounts'), Accounts) = Total(CashOf(accounts), Accounts)
<1>1. CASE accounts' = accounts
  BY <1>1
<1>2. CASE accounts' # accounts
  <2>1. PICK buyer \in Accounts, seller \in Accounts, s \in Symbols, price \in Nat, qty \in Nat \ {0} :
          /\ buyer # seller
          /\ Books(buyer, s, qty, price * qty)
          /\ Books(seller, s, -qty, -(price * qty))
          /\ \A a \in Accounts \ {buyer, seller} : accounts'[a] = accounts[a]
    BY <1>2 DEF Transfer
  <2>2. PICK paid \in Int : paid = price * qty
    BY <2>1
  <2> DEFINE f == CashOf(accounts)
             h == CashOf(accounts')
             g == [f EXCEPT ![buyer] = h[buyer]]
  <2>3. /\ \A a \in Accounts : f[a] = accounts[a].cash /\ f[a] \in Int
        /\ \A a \in Accounts : h[a] = accounts'[a].cash /\ h[a] \in Int
        /\ f = [a \in Accounts |-> f[a]]
    BY DEF CashOf, TypeOK, LedgerAccount
  <2>4. /\ h[buyer] = f[buyer] - paid /\ h[seller] = f[seller] + paid
        /\ \A a \in Accounts \ {buyer, seller} : h[a] = f[a]
    BY <2>1, <2>2, <2>3 DEF Books
  <2> HIDE DEF f, h
  <2>5. Summable(f, Accounts)
    BY <2>3, LocalEngineAssumption DEF Summable
  <2>6. /\ g[buyer] = h[buyer] /\ g[seller] = f[seller]
        /\ \A a \in Accounts \ {buyer} : g[a] = f[a]
        /\ \A a \in Accounts \ {seller} : h[a] = g[a]
    BY <2>1, <2>3, <2>4
  <2> HIDE DEF g
  <2>7. Summable(g, Accounts) /\ Total(g, Accounts) = Total(f, Accounts) + (g[buyer] - f[buyer])
    BY <2>3, <2>5, <2>6, TotalChange
  <2>8. Total(h, Accounts) = Total(g, Accounts) + (h[seller] - g[seller])
    BY <2>3, <2>6, <2>7, TotalChange
  <2>9. Total(f, Accounts) \in Int
    BY <2>5, TotalType
  <2>10. Total(h, Accounts) = Total(f, Accounts)
    BY <2>1, <2>2, <2>3, <2>4, <2>6, <2>7, <2>8, <2>9
  <2> QED
    BY <2>10 DEF f, h
<1> QED
  BY <1>1, <1>2

\* What every account starts with.
LEMMA InitCash == Init => Total(CashOf(accounts), Accounts) = StartingCash * Cardinality(Accounts)
<1> SUFFICES ASSUME Init PROVE Total(CashOf(accounts), Accounts) = StartingCash * Cardinality(Accounts)
  OBVIOUS
<1>1. \A a \in Accounts : CashOf(accounts)[a] = StartingCash
  BY DEF Init, CashOf, OpenAccount
<1> QED
  BY <1>1, TotalConstant, LocalEngineAssumption

\* Cash is conserved (ledger_test.go), for any number of accounts, orders and
\* goroutines: whatever applyFill takes from one account it gives to another.
\* For orders with a valid side: with any other side both parties of a fill are
\* booked as buyers.
THEOREM NoCashCreated ==
  ASSUME SideInputs \subseteq Sides
  PROVE  Spec => []CashConserved
<1> DEFINE C == Total(CashOf(accounts), Accounts) = StartingCash * Cardinality(Accounts)
<1>1. Init => C
  BY InitCash
<1>2. Inv /\ Inv' /\ C /\ [Next]_vars /\ [Transfer]_vars => C'
  <2> SUFFICES ASSUME Inv, Inv', C, [Next]_vars, [Transfer]_vars PROVE C'
    OBVIOUS
  <2>1. CASE Transfer
    BY <2>1, TransferKeepsCash DEF Inv
  <2>2. CASE UNCHANGED vars
    BY <2>2 DEF vars
  <2> QED
    BY <2>1, <2>2
<1>3. Inv /\ C => CashConserved
  BY CashTotal, Zenon DEF CashConserved, Inv
<1>4. Spec => [][Transfer]_vars
  BY FillsAreTransfers
<1> HIDE DEF C
<1> QED
  BY <1>1, <1>2, <1>3, <1>4, Invariance, PTL DEF Spec

\* What the open positions of an account were paid for, by symbol, what they
\* are worth at the last price, and what GetAccount calls unrealised.
BasisOf(acct) == [s \in Symbols |-> SignedBasis(acct.positions[s])]
WorthOf(acct, marks) == [s \in Symbols |-> marks[s] * acct.positions[s].qty]
UnrealizedOf(acct, marks) == [s \in Symbols |-> UnrealizedOn(acct.positions[s], marks[s])]

\* GetAccount's sums in that form.
LEMMA WorthTotal ==
  ASSUME TypeOK, NEW a \in Accounts
  PROVE  /\ Summable(WorthOf(accounts[a], lastPrice), Symbols)
         /\ MarketValue(a) = Total(WorthOf(accounts[a], lastPrice), Symbols)
<1> DEFINE P(it) == it = [u \in SUBSET Symbols |->
               IF u = {} THEN 0
               ELSE lastPrice[Pick(u)] * accounts[a].positions[Pick(u)].qty + it[u \ {Pick(u)}]]
           f == WorthOf(accounts[a], lastPrice)
<1>1. MarketValue(a) = (CHOOSE it : P(it))[Symbols]
  BY Zenon DEF MarketValue, MapThenSumSet, MapThenFoldSet, Pick
<1>2. Summable(f, Symbols)
  <2>1. ASSUME NEW s \in Symbols PROVE f[s] \in Int
    <3>1. lastPrice[s] \in Int /\ accounts[a].positions[s].qty \in Int
      BY LocalEngineAssumption DEF TypeOK, LedgerAccount, Position
    <3> QED
      BY <3>1 DEF WorthOf
  <2> QED
    BY <2>1, LocalEngineAssumption DEF Summable
<1>3. ASSUME NEW it PROVE P(it) <=> SumsOver(it, f, SUBSET Symbols)
  <2>1. \A u \in SUBSET Symbols : u # {} =>
          lastPrice[Pick(u)] * accounts[a].positions[Pick(u)].qty = f[Pick(u)]
    BY PickIn DEF WorthOf
  <2> QED
    BY <2>1 DEF SumsOver
<1> HIDE DEF P
<1>4. P(CHOOSE it : P(it))
  <2>1. \E it : P(it)
    BY <1>2, <1>3, SumsExist
  <2> QED
    BY <2>1
<1> QED
  BY <1>1, <1>2, <1>3, <1>4, IsTotal

\* The unrealised P&L likewise.
LEMMA UnrealizedTotal ==
  ASSUME TypeOK, NEW a \in Accounts
  PROVE  /\ Summable(UnrealizedOf(accounts[a], lastPrice), Symbols)
         /\ Unrealized(a) = Total(UnrealizedOf(accounts[a], lastPrice), Symbols)
<1> DEFINE P(it) == it = [u \in SUBSET Symbols |->
               IF u = {} THEN 0
               ELSE UnrealizedOn(accounts[a].positions[Pick(u)], lastPrice[Pick(u)])
                      + it[u \ {Pick(u)}]]
           f == UnrealizedOf(accounts[a], lastPrice)
<1>1. Unrealized(a) = (CHOOSE it : P(it))[Symbols]
  BY Zenon DEF Unrealized, MapThenSumSet, MapThenFoldSet, Pick
<1>2. Summable(f, Symbols)
  <2>1. ASSUME NEW s \in Symbols PROVE f[s] \in Int
    <3>1. lastPrice[s] \in Int /\ accounts[a].positions[s] \in Position
      BY LocalEngineAssumption DEF TypeOK, LedgerAccount
    <3>2. UnrealizedOn(accounts[a].positions[s], lastPrice[s]) \in Int
      BY <3>1 DEF UnrealizedOn, Position, Abs
    <3> QED
      BY <3>2 DEF UnrealizedOf
  <2> QED
    BY <2>1, LocalEngineAssumption DEF Summable
<1>3. ASSUME NEW it PROVE P(it) <=> SumsOver(it, f, SUBSET Symbols)
  <2>1. \A u \in SUBSET Symbols : u # {} =>
          UnrealizedOn(accounts[a].positions[Pick(u)], lastPrice[Pick(u)]) = f[Pick(u)]
    BY PickIn DEF UnrealizedOf
  <2> QED
    BY <2>1 DEF SumsOver
<1> HIDE DEF P
<1>4. P(CHOOSE it : P(it))
  <2>1. \E it : P(it)
    BY <1>2, <1>3, SumsExist
  <2> QED
    BY <2>1
<1> QED
  BY <1>1, <1>2, <1>3, <1>4, IsTotal

\* Cash and the cost of what is held are the opening balance and the realised
\* P&L; and a symbol with an open position has a last price.
PaidFor(acct) == acct.cash + Total(BasisOf(acct), Symbols) = StartingCash + acct.realized
Reconciled ==
  /\ \A a \in Accounts : PaidFor(accounts[a])
  /\ \A a \in Accounts, s \in Symbols : lastPrice[s] = 0 => accounts[a].positions[s].qty = 0

\* A fresh ledger is reconciled.
LEMMA InitReconciled == Init => Reconciled
<1> SUFFICES ASSUME Init PROVE Reconciled
  OBVIOUS
<1>1. ASSUME NEW a \in Accounts PROVE PaidFor(accounts[a])
  <2>1. accounts[a].cash = StartingCash /\ accounts[a].realized = 0
    BY DEF Init, OpenAccount
  <2>2. \A s \in Symbols : BasisOf(accounts[a])[s] = 0
    BY DEF Init, OpenAccount, BasisOf, SignedBasis, FlatPosition
  <2>3. Total(BasisOf(accounts[a]), Symbols) = 0 * Cardinality(Symbols)
    BY <2>2, TotalConstant, LocalEngineAssumption
  <2>4. Cardinality(Symbols) \in Nat
    BY FS_CardinalityType, LocalEngineAssumption
  <2> QED
    BY <2>1, <2>3, <2>4, LocalEngineAssumption DEF PaidFor
<1> QED
  BY <1>1 DEF Init, Reconciled, OpenAccount, FlatPosition

\* What was paid for the positions adds up to a number.
LEMMA BasisSummable ==
  ASSUME NEW acct \in LedgerAccount(Symbols)
  PROVE  Summable(BasisOf(acct), Symbols)
<1>1. ASSUME NEW s \in Symbols PROVE BasisOf(acct)[s] \in Int
  BY DEF LedgerAccount, Position, BasisOf, SignedBasis
<1> QED
  BY <1>1, LocalEngineAssumption DEF Summable

\* applyFill keeps an account reconciled, whatever the side.
LEMMA FillReconciled ==
  ASSUME NEW acct \in LedgerAccount(Symbols), NEW s \in Symbols, NEW side,
         NEW price \in Nat, NEW qty \in Nat \ {0}, Sound(acct.positions[s]), PaidFor(acct)
  PROVE  PaidFor(ApplyFill(acct, s, side, price, qty))
<1> DEFINE new == ApplyFill(acct, s, side, price, qty)
           f == BasisOf(acct)
           g == BasisOf(new)
<1>1. /\ \A r \in Symbols \ {s} : new.positions[r] = acct.positions[r]
      /\ new.cash + SignedBasis(new.positions[s]) - SignedBasis(acct.positions[s])
           = acct.cash + (new.realized - acct.realized)
  BY ApplyFillBooks
<1>2. new \in LedgerAccount(Symbols)
  BY ApplyFillType
<1> HIDE DEF new
<1>3. /\ f[s] = SignedBasis(acct.positions[s]) /\ g[s] = SignedBasis(new.positions[s])
      /\ \A r \in Symbols \ {s} : g[r] = f[r]
  BY <1>1 DEF BasisOf
<1>4. Summable(f, Symbols) /\ Summable(g, Symbols)
  BY <1>2, BasisSummable
<1> HIDE DEF f, g
<1>5. f[s] \in Int /\ g[s] \in Int /\ Total(f, Symbols) \in Int
  BY <1>4, TotalType DEF Summable
<1>6. Total(g, Symbols) = Total(f, Symbols) + (g[s] - f[s])
  BY <1>3, <1>4, <1>5, TotalChange
<1>7. /\ acct.cash \in Int /\ acct.realized \in Int /\ new.cash \in Int /\ new.realized \in Int
  BY <1>2 DEF LedgerAccount
<1>8. acct.cash + Total(f, Symbols) = StartingCash + acct.realized
  BY DEF PaidFor, f
<1>9. new.cash + Total(g, Symbols) = StartingCash + new.realized
  <2>1. StartingCash \in Int
    BY LocalEngineAssumption
  <2>2. new.cash + g[s] - f[s] = acct.cash + (new.realized - acct.realized)
    BY <1>1, <1>3
  <2> QED
    BY <2>1, <2>2, <1>5, <1>6, <1>7, <1>8
<1> QED
  BY <1>9 DEF PaidFor, g, new

\* applyFill is the only thing that touches a ledger.
LEMMA StepReconciled == Inv /\ Reconciled /\ [Next]_vars => Reconciled'
<1> SUFFICES ASSUME Inv, Reconciled, [Next]_vars PROVE Reconciled'
  OBVIOUS
<1>1. ASSUME NEW t \in Threads, Match(t) PROVE Reconciled'
  <2>1. PICK m \in book, fill \in Nat \ {0} :
          /\ m \in Orders /\ call[t] \in Takers /\ m.account # call[t].account
          /\ accounts' = BookFill(call[t], m, fill)
          /\ lastPrice' = [lastPrice EXCEPT ![call[t].symbol] = m.price]
    BY <1>1, MatchStep DEF Inv
  <2>2. PICK o \in Takers : o = call[t]
    BY <2>1
  <2>3. /\ o.account \in Accounts /\ m.account \in Accounts
        /\ accounts'[o.account] = ApplyFill(accounts[o.account], o.symbol, o.side, m.price, fill)
        /\ accounts'[m.account] =
             ApplyFill(accounts[m.account], o.symbol, Opposite(o.side), m.price, fill)
        /\ \A a \in Accounts \ {o.account, m.account} : accounts'[a] = accounts[a]
    BY <2>1, <2>2, BookFillEffect DEF Inv
  <2>4. o.symbol \in Symbols /\ m.price \in Nat /\ m.price # 0
    <3>1. m.price \in 1..MaxPrice /\ MaxPrice \in Nat
      BY <2>1, LocalEngineAssumption DEF Orders
    <3> QED
      BY <3>1 DEF Takers
  <2>5. ASSUME NEW a \in Accounts
        PROVE  /\ accounts[a] \in LedgerAccount(Symbols) /\ Sound(accounts[a].positions[o.symbol])
               /\ PaidFor(accounts[a])
    BY <2>4 DEF Inv, TypeOK, SoundPositions, Reconciled
  <2>6. ASSUME NEW a \in Accounts
        PROVE  PaidFor(accounts'[a]) /\ \A r \in Symbols \ {o.symbol} :
                 accounts'[a].positions[r] = accounts[a].positions[r]
    <3>1. ASSUME NEW side, accounts'[a] = ApplyFill(accounts[a], o.symbol, side, m.price, fill)
          PROVE  PaidFor(accounts'[a]) /\ \A r \in Symbols \ {o.symbol} :
                   accounts'[a].positions[r] = accounts[a].positions[r]
      <4>1. PaidFor(ApplyFill(accounts[a], o.symbol, side, m.price, fill))
        BY <2>4, <2>5, FillReconciled
      <4>2. \A r \in Symbols \ {o.symbol} :
              ApplyFill(accounts[a], o.symbol, side, m.price, fill).positions[r] = accounts[a].positions[r]
        BY <2>4, <2>5, ApplyFillBooks
      <4> QED
        BY <3>1, <4>1, <4>2
    <3> QED
      BY <2>3, <2>5, <3>1
  <2>7. lastPrice \in [Symbols -> 0..MaxPrice]
    BY DEF Inv, TypeOK
  <2>8. ASSUME NEW a \in Accounts, NEW s \in Symbols, lastPrice'[s] = 0
        PROVE  accounts'[a].positions[s].qty = 0
    <3>1. s # o.symbol /\ lastPrice[s] = 0
      BY <2>1, <2>2, <2>4, <2>7, <2>8
    <3> QED
      BY <2>6, <3>1 DEF Reconciled
  <2> QED
    BY <2>6, <2>8 DEF Reconciled
<1>2. CASE accounts' = accounts /\ lastPrice' = lastPrice
  BY <1>2 DEF Reconciled
<1> QED
  BY <1>1, <1>2 DEF Next, SubmitOrder, Lock, Finish, CancelOrder, vars

\* Mark to market: what is held is worth what it cost and what it gained.
LEMMA MarkedToMarket ==
  ASSUME NEW pos \in Position, NEW mark \in Nat, mark = 0 => pos.qty = 0
  PROVE  /\ SignedBasis(pos) \in Int /\ UnrealizedOn(pos, mark) \in Int
         /\ mark * pos.qty = SignedBasis(pos) + UnrealizedOn(pos, mark)
<1>1. pos.qty \in Int /\ pos.costBasis \in Int /\ mark * pos.qty \in Int
  BY DEF Position
<1>2. mark * (-pos.qty) = -(mark * pos.qty) /\ mark * 0 = 0
  <2>1. \A p, n \in Int : p * (-n) = -(p * n) /\ p * 0 = 0
    OBVIOUS
  <2> QED
    BY <1>1, <2>1
<1>3. CASE pos.qty = 0
  BY <1>1, <1>2, <1>3 DEF SignedBasis, UnrealizedOn
<1>4. CASE pos.qty > 0
  BY <1>1, <1>4 DEF SignedBasis, UnrealizedOn
<1>5. CASE pos.qty < 0
  <2>1. Abs(pos.qty) = -pos.qty
    BY <1>5 DEF Abs
  <2> QED
    BY <1>1, <1>2, <1>5, <2>1 DEF SignedBasis, UnrealizedOn
<1> QED
  BY <1>1, <1>3, <1>4, <1>5

\* With the positions marked to market this is AccountReconciles.
LEMMA ReconciledAccounts == Inv /\ Reconciled => AccountReconciles
<1> SUFFICES ASSUME Inv, Reconciled, NEW a \in Accounts
             PROVE  accounts[a].cash + MarketValue(a)
                      = StartingCash + accounts[a].realized + Unrealized(a)
  BY DEF AccountReconciles
<1> DEFINE b == BasisOf(accounts[a])
           u == UnrealizedOf(accounts[a], lastPrice)
           w == WorthOf(accounts[a], lastPrice)
<1>1. accounts[a] \in LedgerAccount(Symbols)
  BY DEF Inv, TypeOK
<1>2. /\ Summable(w, Symbols) /\ MarketValue(a) = Total(w, Symbols)
      /\ Summable(u, Symbols) /\ Unrealized(a) = Total(u, Symbols)
      /\ Summable(b, Symbols)
  BY <1>1, WorthTotal, UnrealizedTotal, BasisSummable DEF Inv
<1>3. ASSUME NEW s \in Symbols PROVE w[s] = b[s] + u[s]
  <2>1. accounts[a].positions[s] \in Position /\ lastPrice[s] \in Nat
    BY <1>1, LocalEngineAssumption DEF Inv, TypeOK, LedgerAccount
  <2>2. lastPrice[s] = 0 => accounts[a].positions[s].qty = 0
    BY DEF Reconciled
  <2>3. lastPrice[s] * accounts[a].positions[s].qty
          = SignedBasis(accounts[a].positions[s]) + UnrealizedOn(accounts[a].positions[s], lastPrice[s])
    BY <2>1, <2>2, MarkedToMarket
  <2> QED
    BY <2>3 DEF BasisOf, UnrealizedOf, WorthOf
<1> HIDE DEF b, u, w
<1>4. Total(w, Symbols) = Total(b, Symbols) + Total(u, Symbols)
  BY <1>2, <1>3, TotalPlus
<1>5. Total(b, Symbols) \in Int /\ Total(u, Symbols) \in Int
  BY <1>2, TotalType
<1>6. accounts[a].cash + Total(b, Symbols) = StartingCash + accounts[a].realized
  BY DEF Reconciled, PaidFor, b
<1>7. accounts[a].cash \in Int /\ accounts[a].realized \in Int
  BY <1>1 DEF LedgerAccount
<1> QED
  BY <1>2, <1>4, <1>5, <1>6, <1>7, LocalEngineAssumption

\* Every account reconciles to the tick (ledger_test.go, for flat accounts), for
\* any series of fills in any symbols and with any sides: cash and the market
\* value of what is held are the opening balance, the realised and the
\* unrealised P&L, although every partial close rounds.
THEOREM AccountsReconcile == Spec => []AccountReconciles
<1> QED
  BY InitReconciled, StepReconciled, ReconciledAccounts, Invariance, PTL DEF Spec

-----------------------------------------------------------------------------
(* The orders in the history. *)

\* Every id handed out has its request in the history, and what rests, waits or
\* was traded was handed out to the account that owns it.
Statuses == {"PENDING", "ACCEPTED", "PARTIALLY_FILLED", "FILLED", "REJECTED"}
Entries == [account : Accounts, symbol : Symbols, side : SideInputs \cup Sides,
            type : TypeInputs \cup {"LIMIT"}, quantity : Int, status : Statuses,
            filled : Int, cancelled : Int]
Known(id, a) == id \in 1..orderID /\ history[id].account = a
KnownNext(id, a) == id \in 1..orderID' /\ history'[id].account = a
Histories ==
  /\ history \in Seq(Entries) /\ Len(history) = orderID
  /\ \A m \in book : Known(m.id, m.account)
  /\ \A t \in Threads : call[t] # None => Known(call[t].id, call[t].account)
  /\ \A i \in 1..Len(tape) :
       tape[i].buyOrder \in 1..orderID /\ tape[i].sellOrder \in 1..orderID

\* seedBook hands out every number up to its count.
LEMMA SeedIdsCover ==
  ASSUME NEW n \in 1..SeedCount
  PROVE  \E k \in 1..Len(SeedSymbols), i \in 1..SeedDepth, side \in Sides : SeedId(k, i, side) = n
<1> DEFINE d == 2 * SeedDepth
           q == (n - 1) \div d
           r == (n - 1) - d * q
           i == (r \div 2) + 1
           side == IF r = 2 * (i - 1) THEN "BUY" ELSE "SELL"
<1>1. SeedDepth \in Nat /\ Len(SeedSymbols) \in Nat /\ d \in Nat /\ SeedCount = d * Len(SeedSymbols)
  <2>1. SeedDepth \in Nat /\ Len(SeedSymbols) \in Nat
    BY LocalEngineAssumption
  <2> QED
    BY <2>1, Z3 DEF SeedCount
<1>2. n \in Nat /\ n >= 1 /\ n <= d * Len(SeedSymbols)
  BY <1>1, Z3
<1>3. d > 0
  BY <1>1, <1>2, Z3
<1>4. q \in Int /\ d * q <= n - 1 /\ n - 1 < d * (q + 1)
  BY <1>1, <1>2, <1>3, Z3
<1>5. q >= 0
  BY <1>1, <1>2, <1>3, <1>4, Z3
<1>6. q < Len(SeedSymbols)
  BY <1>1, <1>2, <1>3, <1>4, Z3
<1> HIDE DEF d, q
<1>7. r \in Nat /\ r < d /\ n - 1 = d * q + r
  <2>1. d * q \in Int /\ d * (q + 1) = d * q + d
    BY <1>1, <1>4, Z3
  <2>2. PICK p \in Int : p = d * q
    BY <2>1
  <2> QED
    BY <1>1, <1>2, <1>4, <2>1, <2>2
<1> HIDE DEF r
<1>8. i \in 1..SeedDepth /\ (r = 2 * (i - 1) \/ r = 2 * (i - 1) + 1)
  BY <1>1, <1>7 DEF d
<1>9. q + 1 \in 1..Len(SeedSymbols)
  BY <1>1, <1>4, <1>5, <1>6
<1>10. side \in Sides
  BY DEF Sides
<1>11. SeedId(q + 1, i, side) = d * q + 2 * (i - 1) + (IF side = "BUY" THEN 1 ELSE 2)
  <2>1. 2 * SeedDepth * ((q + 1) - 1) = d * q
    BY <1>1, <1>4, Z3 DEF d
  <2> QED
    BY <2>1 DEF SeedId
<1>12. d * q \in Int
  BY <1>1, <1>4, Z3
<1> HIDE DEF i
<1>13. SeedId(q + 1, i, side) = n
  BY <1>2, <1>7, <1>8, <1>11, <1>12
<1> QED
  BY <1>8, <1>9, <1>10, <1>13

\* The history starts with one answered order per seed.
LEMMA SeedHistory ==
  /\ SeedCount \in Nat
  /\ \A m, n \in Seeds : m.id = n.id => m = n
  /\ \A m \in Seeds : m.id \in 1..SeedCount
  /\ \A n \in 1..SeedCount : \E m \in Seeds : m.id = n
<1>1. SeedCount \in Nat
  <2>1. SeedDepth \in Nat /\ Len(SeedSymbols) \in Nat
    BY LocalEngineAssumption
  <2> QED
    BY <2>1, Z3 DEF SeedCount
<1>2. ASSUME NEW m \in Seeds, NEW n \in Seeds, m.id = n.id PROVE m = n
  <2>1. PICK k \in 1..Len(SeedSymbols), i \in 1..SeedDepth, side \in Sides : m = Seed(k, i, side)
    BY DEF Seeds
  <2>2. PICK l \in 1..Len(SeedSymbols), j \in 1..SeedDepth, other \in Sides : n = Seed(l, j, other)
    BY DEF Seeds
  <2>3. SeedId(k, i, side) = SeedId(l, j, other)
    BY <1>2, <2>1, <2>2 DEF Seed
  <2>4. k = l /\ i = j /\ side = other
    BY <2>3, SeedsDistinct
  <2> QED
    BY <2>1, <2>2, <2>4
<1>3. ASSUME NEW m \in Seeds PROVE m.id \in 1..SeedCount
  <2>1. PICK k \in 1..Len(SeedSymbols), i \in 1..SeedDepth, side \in Sides : m = Seed(k, i, side)
    BY DEF Seeds
  <2>2. /\ SeedId(k, i, side) \in Nat /\ 2 * SeedDepth * (k - 1) < SeedId(k, i, side)
        /\ SeedId(k, i, side) <= SeedCount
    BY SeedIdBounds
  <2>3. 2 * SeedDepth * (k - 1) >= 0
    <3>1. SeedDepth \in Nat /\ k \in Nat /\ k >= 1
      BY LocalEngineAssumption
    <3> QED
      BY <3>1, Z3
  <2>4. m.id = SeedId(k, i, side)
    BY <2>1 DEF Seed
  <2>5. 2 * SeedDepth * (k - 1) \in Int
    <3>1. SeedDepth \in Nat /\ k \in Nat
      BY LocalEngineAssumption
    <3> QED
      BY <3>1, Z3
  <2> QED
    BY <1>1, <2>2, <2>3, <2>4, <2>5
<1>4. ASSUME NEW n \in 1..SeedCount PROVE \E m \in Seeds : m.id = n
  <2>1. PICK k \in 1..Len(SeedSymbols), i \in 1..SeedDepth, side \in Sides : SeedId(k, i, side) = n
    BY SeedIdsCover
  <2>2. Seed(k, i, side) \in Seeds /\ Seed(k, i, side).id = n
    BY <2>1 DEF Seeds, Seed
  <2> QED
    BY <2>2
<1> QED
  BY <1>1, <1>2, <1>3, <1>4

\* Init's history, entry by entry.
LEMMA InitHistory ==
  ASSUME Init
  PROVE  /\ history \in Seq(Entries) /\ Len(history) = orderID
         /\ \A m \in book : m.id \in 1..orderID /\ history[m.id] = SeedEntry(m)
<1>1. \A n \in 1..SeedCount : \E m \in Seeds : m.id = n /\ (CHOOSE s \in Seeds : s.id = n) = m
  BY SeedHistory
<1>2. ASSUME NEW m \in Seeds PROVE SeedEntry(m) \in Entries
  <2>1. m \in Orders
    BY SeedsTyped
  <2>2. m.side \in Sides
    BY DEF Seeds, Seed
  <2> QED
    BY <2>1, <2>2 DEF SeedEntry, Entry, Entries, Orders, Statuses
<1>3. history \in [1..SeedCount -> Entries]
  BY <1>1, <1>2 DEF Init
<1>4. history \in Seq(Entries) /\ Len(history) = SeedCount
  BY <1>3, SeedHistory
<1>5. \A m \in Seeds : history[m.id] = SeedEntry(m)
  BY <1>1, SeedHistory DEF Init
<1> QED
  BY <1>4, <1>5, SeedHistory DEF Init

\* The seeds are known.
LEMMA InitHistories == Init => Histories
<1> SUFFICES ASSUME Init PROVE Histories
  OBVIOUS
<1>1. ASSUME NEW m \in book PROVE Known(m.id, m.account)
  <2>1. SeedEntry(m).account = m.account
    BY DEF SeedEntry, Entry
  <2> QED
    BY <2>1, InitHistory DEF Known
<1>2. \A t \in Threads : call[t] = None
  BY DEF Init
<1>3. tape = <<>>
  BY DEF Init
<1> QED
  BY <1>1, <1>2, <1>3, InitHistory DEF Histories

\* An entry keeps the request it was made for.
SameRequests ==
  /\ orderID \in Nat /\ orderID' \in Nat /\ orderID <= orderID'
  /\ history' \in Seq(Entries) /\ Len(history') = orderID'
  /\ \A id \in 1..orderID : /\ history'[id].account = history[id].account
                            /\ history'[id].type = history[id].type
                            /\ history'[id].quantity = history[id].quantity

\* What SubmitOrder appends, and what Finish and CancelOrder update.
LEMMA SubmitHistory ==
  ASSUME Inv, Histories, NEW t \in Threads, NEW o \in NewOrder, SubmitOrder(t, o)
  PROVE  SameRequests /\ \A id \in 1..orderID : history'[id] = history[id]
<1>1. PICK status \in Statuses : history' = Append(history, Entry(o, status))
  BY DEF SubmitOrder, Statuses
<1>2. Entry(o, status) \in Entries
  <2>1. o.account \in Accounts /\ o.quantity \in Int
    BY LocalEngineAssumption DEF NewOrder
  <2>2. o.symbol \in Symbols /\ o.side \in SideInputs /\ o.type \in TypeInputs
    BY DEF NewOrder
  <2> QED
    BY <1>1, <2>1, <2>2 DEF Entry, Entries
<1>3. orderID \in Nat /\ orderID' = orderID + 1
  BY DEF Inv, TypeOK, SubmitOrder
<1>4. history \in Seq(Entries) /\ Len(history) = orderID
  BY DEF Histories
<1>5. history' \in Seq(Entries) /\ Len(history') = orderID + 1
  BY <1>1, <1>2, <1>4
<1>6. \A id \in 1..orderID : history'[id] = history[id]
  BY <1>1, <1>3, <1>4
<1> QED
  BY <1>3, <1>5, <1>6 DEF SameRequests

\* What the end of SubmitOrder writes: the answer of its own order only.
LEMMA FinishHistory ==
  ASSUME Inv, Histories, NEW t \in Threads, Finish(t)
  PROVE  LET o == call[t]
         IN /\ SameRequests
            /\ o.id \in 1..orderID
            /\ history'[o.id].status = StatusFor(o.type, o.quantity - o.remaining, o.remaining)
            /\ history'[o.id].filled = o.quantity - o.remaining
            /\ history'[o.id].cancelled = history[o.id].cancelled
            /\ \A id \in 1..orderID \ {o.id} : history'[id] = history[id]
<1> DEFINE o == call[t]
           status == StatusFor(o.type, o.quantity - o.remaining, o.remaining)
<1>1. o \in Takers /\ o # None
  BY TakerTyped DEF Inv, Finish
<1>2. orderID \in Nat /\ orderID' = orderID
  BY DEF Inv, TypeOK, Finish
<1>3. history \in Seq(Entries) /\ Len(history) = orderID
  BY DEF Histories
<1>4. o.id \in 1..orderID
  BY <1>1 DEF Histories, Known
<1>5. o.remaining \in Nat /\ o.quantity \in Nat
  BY <1>1 DEF Takers
<1>6. status \in Statuses /\ o.quantity - o.remaining \in Int
  BY <1>5 DEF StatusFor, Statuses
<1>7. history' = [history EXCEPT ![o.id] =
          [@ EXCEPT !.status = status, !.filled = o.quantity - o.remaining]]
  BY DEF Finish
<1> HIDE DEF o, status
<1>8. history[o.id] \in Entries
  BY <1>3, <1>4
<1> DEFINE e == [history[o.id] EXCEPT !.status = status, !.filled = o.quantity - o.remaining]
<1>9. /\ e \in Entries /\ e.status = status /\ e.cancelled = history[o.id].cancelled
      /\ e.filled = o.quantity - o.remaining
      /\ e.account = history[o.id].account /\ e.type = history[o.id].type
      /\ e.quantity = history[o.id].quantity
  BY <1>6, <1>8 DEF Entries
<1>10. history' = [history EXCEPT ![o.id] = e]
  BY <1>7
<1> HIDE DEF e
<1>11. /\ history' \in Seq(Entries) /\ Len(history') = orderID
       /\ history'[o.id] = e /\ \A id \in 1..orderID \ {o.id} : history'[id] = history[id]
  BY <1>3, <1>4, <1>9, <1>10
<1>12. SameRequests
  BY <1>2, <1>9, <1>11 DEF SameRequests
<1> QED
  BY <1>4, <1>9, <1>11, <1>12 DEF o, status

\* What CancelOrder writes: what it took off the book, of that order only.
LEMMA CancelHistory ==
  ASSUME Inv, Histories, NEW id, NEW who, CancelOrder(id, who)
  PROVE  \/ UNCHANGED vars
         \/ \E m \in book :
              /\ m.id = id /\ book' = book \ {m} /\ tape' = tape /\ call' = call
              /\ SameRequests
              /\ id \in 1..orderID /\ orderID' = orderID
              /\ history'[id].status = history[id].status /\ history'[id].filled = history[id].filled
              /\ history'[id].cancelled = history[id].cancelled + m.remaining
              /\ \A j \in 1..orderID \ {id} : history'[j] = history[j]
<1>1. CASE \E m \in book : m.id = id /\ MayCancel(m, who)
  <2>1. PICK m \in book : /\ m.id = id /\ book' = book \ {m}
                          /\ history' = [history EXCEPT ![id].cancelled = @ + m.remaining]
                          /\ orderID' = orderID /\ tape' = tape /\ call' = call
    BY <1>1 DEF CancelOrder
  <2>2. history \in Seq(Entries) /\ Len(history) = orderID /\ orderID \in Nat
    BY DEF Histories, Inv, TypeOK
  <2>3. id \in 1..orderID
    BY <2>1 DEF Histories, Known
  <2>4. m.remaining \in Nat
    BY DEF Inv, TypeOK, Orders
  <2> DEFINE e == [history[id] EXCEPT !.cancelled = @ + m.remaining]
  <2>5. history[id] \in Entries
    BY <2>2, <2>3
  <2>6. /\ e \in Entries /\ e.status = history[id].status /\ e.filled = history[id].filled
        /\ e.cancelled = history[id].cancelled + m.remaining
        /\ e.account = history[id].account /\ e.type = history[id].type
        /\ e.quantity = history[id].quantity
    BY <2>4, <2>5 DEF Entries
  <2>7. history' = [history EXCEPT ![id] = e]
    BY <2>1
  <2> HIDE DEF e
  <2>8. /\ history' \in Seq(Entries) /\ Len(history') = orderID
        /\ history'[id] = e /\ \A j \in 1..orderID \ {id} : history'[j] = history[j]
    BY <2>2, <2>3, <2>6, <2>7
  <2>9. SameRequests
    BY <2>1, <2>2, <2>6, <2>8 DEF SameRequests
  <2> QED
    BY <2>1, <2>3, <2>6, <2>8, <2>9
<1>2. CASE ~ \E m \in book : m.id = id /\ MayCancel(m, who)
  BY <1>2 DEF CancelOrder
<1> QED
  BY <1>1, <1>2

\* No step changes the request an id stands for.
LEMMA RequestsStay ==
  ASSUME Inv, Histories, [Next]_vars
  PROVE  SameRequests
<1>0. orderID \in Nat /\ history \in Seq(Entries) /\ Len(history) = orderID
  BY DEF Inv, TypeOK, Histories
<1>1. ASSUME NEW t \in Threads, NEW o \in NewOrder, SubmitOrder(t, o) PROVE SameRequests
  BY <1>1, SubmitHistory
<1>2. ASSUME NEW t \in Threads, Finish(t) PROVE SameRequests
  BY <1>2, FinishHistory
<1>3. CASE UNCHANGED <<orderID, history>>
  BY <1>0, <1>3 DEF SameRequests
<1>4. ASSUME NEW id \in 1..MaxOrders, NEW who \in Cancellers, CancelOrder(id, who) PROVE SameRequests
  <2>1. CASE UNCHANGED vars
    BY <1>3, <2>1 DEF vars
  <2>2. CASE ~ UNCHANGED vars
    BY <1>4, <2>2, CancelHistory
  <2> QED
    BY <2>1, <2>2
<1> QED
  BY <1>1, <1>2, <1>3, <1>4 DEF Next, Lock, Match, vars

\* Ids stay known: orders move between callers, book and tape.
LEMMA StepHistories == Inv /\ Histories /\ [Next]_vars => Histories'
<1> SUFFICES ASSUME Inv, Histories, [Next]_vars PROVE Histories'
  OBVIOUS
<1>1. SameRequests
  BY RequestsStay
<1>2. ASSUME NEW id, NEW a, Known(id, a) PROVE KnownNext(id, a)
  BY <1>1, <1>2 DEF Known, KnownNext, SameRequests
<1>3. ASSUME NEW m \in book' PROVE KnownNext(m.id, m.account)
  <2>1. CASE \E n \in book : n.id = m.id /\ n.account = m.account
    BY <1>2, <2>1 DEF Histories
  <2>2. ASSUME NEW t \in Threads, Match(t) PROVE \E n \in book : n.id = m.id /\ n.account = m.account
    <3>1. PICK n \in book, fill \in Nat \ {0} : book' = (book \ {n}) \cup AfterFill(n, fill)
      BY <2>2, MatchStep DEF Inv
    <3>2. \A r \in AfterFill(n, fill) : r = [n EXCEPT !.remaining = @ - fill]
      BY DEF AfterFill
    <3>3. n \in Orders
      BY DEF Inv, TypeOK
    <3>4. \A r \in AfterFill(n, fill) : r.id = n.id /\ r.account = n.account
      BY <3>2, <3>3 DEF Orders
    <3> QED
      BY <3>1, <3>4
  <2>3. ASSUME NEW t \in Threads, Finish(t), m \notin book PROVE KnownNext(m.id, m.account)
    <3>1. m = RestingOrder(call[t])
      BY <2>3 DEF Finish
    <3>2. call[t] # None
      BY <2>3, TakerTyped DEF Inv, Finish
    <3> QED
      BY <1>2, <3>1, <3>2 DEF Histories, RestingOrder
  <2>4. CASE book' \subseteq book
    BY <2>1, <2>4
  <2>5. ASSUME NEW id \in 1..MaxOrders, NEW who \in Cancellers, CancelOrder(id, who)
        PROVE  book' \subseteq book
    BY <2>5 DEF CancelOrder, vars
  <2> QED
    BY <2>1, <2>2, <2>3, <2>4, <2>5 DEF Next, SubmitOrder, Lock, vars
<1>4. ASSUME NEW t \in Threads, call'[t] # None PROVE KnownNext(call'[t].id, call'[t].account)
  <2>0. call \in [Threads -> Takers \cup {None}]
    BY DEF Inv, TypeOK
  <2>1. CASE call[t] # None /\ call'[t].id = call[t].id /\ call'[t].account = call[t].account
    BY <1>2, <2>1 DEF Histories
  <2>2. ASSUME NEW u \in Threads, NEW o \in NewOrder, SubmitOrder(u, o), call'[t] # call[t]
        PROVE  KnownNext(call'[t].id, call'[t].account)
    <3>1. Valid(o) /\ t = u /\ call'[t].id = orderID' /\ call'[t].account = o.account
      BY <2>0, <2>2 DEF SubmitOrder
    <3>2. history' = Append(history, Entry(o, "PENDING")) /\ orderID' = orderID + 1
      BY <2>2, <3>1 DEF SubmitOrder
    <3>3. history \in Seq(Entries) /\ Len(history) = orderID /\ orderID \in Nat
      BY DEF Histories, Inv, TypeOK
    <3>4. history'[orderID + 1] = Entry(o, "PENDING")
      BY <3>2, <3>3
    <3> QED
      BY <3>1, <3>2, <3>3, <3>4 DEF KnownNext, Entry
  <2>3. ASSUME NEW u \in Threads, Match(u)
        PROVE  call[t] # None /\ call'[t].id = call[t].id /\ call'[t].account = call[t].account
    <3>1. PICK fill : call' = [call EXCEPT ![u].remaining = @ - fill] /\ call[u] \in Takers
      BY <2>3, MatchStep DEF Inv
    <3> QED
      BY <1>4, <2>0, <3>1, NoneIsNoCall DEF Takers
  <2>4. ASSUME NEW u \in Threads, Finish(u) PROVE call'[t] = call[t]
    BY <1>4, <2>0, <2>4 DEF Finish
  <2>5. CASE call'[t] = call[t]
    BY <1>4, <2>1, <2>5
  <2>6. ASSUME NEW id \in 1..MaxOrders, NEW who \in Cancellers, CancelOrder(id, who)
        PROVE  call' = call
    BY <2>6 DEF CancelOrder, vars
  <2> QED
    BY <2>1, <2>2, <2>3, <2>4, <2>5, <2>6 DEF Next, Lock, vars
<1>5. ASSUME NEW i \in 1..Len(tape')
      PROVE  tape'[i].buyOrder \in 1..orderID' /\ tape'[i].sellOrder \in 1..orderID'
  <2>0. tape \in Seq(Trades)
    BY DEF Inv, TypeOK
  <2>1. CASE tape' = tape
    BY <1>1, <1>5, <2>1 DEF Histories, SameRequests
  <2>2. ASSUME NEW t \in Threads, Match(t)
        PROVE  tape'[i].buyOrder \in 1..orderID' /\ tape'[i].sellOrder \in 1..orderID'
    <3>1. PICK m \in book, fill \in Nat \ {0} :
            tape' = Append(tape, TradeOf(call[t], m, fill)) /\ call[t] \in Takers
      BY <2>2, MatchStep DEF Inv
    <3>2. orderID' = orderID
      BY <2>2 DEF Match
    <3>3. m.id \in 1..orderID /\ call[t].id \in 1..orderID
      BY <3>1, NoneIsNoCall DEF Histories, Known
    <3>4. /\ TradeOf(call[t], m, fill).buyOrder \in 1..orderID
          /\ TradeOf(call[t], m, fill).sellOrder \in 1..orderID
      BY <3>3 DEF TradeOf
    <3>5. (i \in 1..Len(tape) /\ tape'[i] = tape[i]) \/ tape'[i] = TradeOf(call[t], m, fill)
      BY <1>5, <2>0, <3>1
    <3> QED
      BY <3>2, <3>4, <3>5 DEF Histories
  <2>3. ASSUME NEW id \in 1..MaxOrders, NEW who \in Cancellers, CancelOrder(id, who)
        PROVE  tape' = tape
    BY <2>3 DEF CancelOrder, vars
  <2> QED
    BY <2>1, <2>2, <2>3 DEF Next, SubmitOrder, Lock, Finish, vars
<1> QED
  BY <1>1, <1>3, <1>4, <1>5 DEF Histories, SameRequests, Known, KnownNext

-----------------------------------------------------------------------------
(* Positions and tape. *)

\* What the trades give an account, trade by trade.
NetOf(a) == [i \in DOMAIN tape |-> BoughtBy(a, i) - SoldBy(a, i)]

\* Every position is the sum of what the tape gives.
Booked ==
  \A a \in Accounts, s \in Symbols :
    accounts[a].positions[s].qty = Total(NetOf(a), TradesIn(s))

\* An account's trades in a symbol add up to a number.
LEMMA NetSummable ==
  ASSUME Inv, NEW a, NEW s
  PROVE  /\ Summable(NetOf(a), TradesIn(s))
         /\ TradesIn(s) \in SUBSET (1..Len(tape)) /\ DOMAIN tape = 1..Len(tape)
<1>1. tape \in Seq(Trades)
  BY DEF Inv, TypeOK
<1>2. Len(tape) \in Nat /\ DOMAIN tape = 1..Len(tape) /\ TradesIn(s) \in SUBSET (1..Len(tape))
  BY <1>1 DEF TradesIn
<1>3. IsFiniteSet(TradesIn(s))
  <2>1. IsFiniteSet(1..Len(tape))
    BY <1>2, FS_Interval
  <2> QED
    BY <1>2, <2>1, FS_Subset
<1>4. ASSUME NEW i \in TradesIn(s) PROVE NetOf(a)[i] \in Int
  <2>1. i \in DOMAIN tape /\ tape[i].quantity \in Int
    <3>1. i \in 1..Len(tape) /\ tape[i] \in Trades
      BY <1>1, <1>2
    <3> QED
      BY <1>2, <3>1 DEF Trades
  <2> QED
    BY <2>1 DEF NetOf, BoughtBy, SoldBy
<1> QED
  BY <1>2, <1>3, <1>4 DEF Summable

\* PositionsMatchTape's sum in the form the sum theorems speak of.
LEMMA PositionTotal ==
  ASSUME Inv, NEW a, NEW s
  PROVE  MapThenSumSet(LAMBDA i : BoughtBy(a, i) - SoldBy(a, i), TradesIn(s))
           = Total(NetOf(a), TradesIn(s))
<1> DEFINE P(it) == it = [u \in SUBSET TradesIn(s) |->
               IF u = {} THEN 0
               ELSE (BoughtBy(a, Pick(u)) - SoldBy(a, Pick(u))) + it[u \ {Pick(u)}]]
           f == NetOf(a)
<1>1. MapThenSumSet(LAMBDA i : BoughtBy(a, i) - SoldBy(a, i), TradesIn(s))
        = (CHOOSE it : P(it))[TradesIn(s)]
  BY Zenon DEF MapThenSumSet, MapThenFoldSet, Pick
<1>2. Summable(f, TradesIn(s))
  BY NetSummable
<1>3. ASSUME NEW it PROVE P(it) <=> SumsOver(it, f, SUBSET TradesIn(s))
  <2>1. \A u \in SUBSET TradesIn(s) : u # {} =>
          BoughtBy(a, Pick(u)) - SoldBy(a, Pick(u)) = f[Pick(u)]
    BY PickIn, NetSummable DEF NetOf
  <2> QED
    BY <2>1 DEF SumsOver
<1> HIDE DEF P
<1>4. P(CHOOSE it : P(it))
  <2>1. \E it : P(it)
    BY <1>2, <1>3, SumsExist
  <2> QED
    BY <2>1
<1> QED
  BY <1>1, <1>2, <1>3, <1>4, IsTotal

\* No trades and no positions at the start.
LEMMA InitBooked == Init => Booked
<1> SUFFICES ASSUME Init, NEW a \in Accounts, NEW s \in Symbols
             PROVE  accounts[a].positions[s].qty = Total(NetOf(a), TradesIn(s))
  BY DEF Booked
<1>1. TradesIn(s) = {}
  BY DEF Init, TradesIn
<1>2. accounts[a].positions[s].qty = 0
  BY DEF Init, OpenAccount, FlatPosition
<1> QED
  BY <1>1, <1>2, TotalEmpty

\* applyFill and the tape record the same execution: the account whose order
\* the trade names as the buy gains what the account of the sell order loses.
LEMMA FillOnTape ==
  ASSUME Inv, Histories, SideInputs \subseteq Sides, NEW t \in Threads, Match(t)
  PROVE  \E x \in Trades :
           /\ tape' = Append(tape, x) /\ history' = history
           /\ x.buyOrder \in 1..orderID /\ x.sellOrder \in 1..orderID
           /\ \A a \in Accounts :
                /\ \A r \in Symbols \ {x.symbol} : accounts'[a].positions[r] = accounts[a].positions[r]
                /\ accounts'[a].positions[x.symbol].qty = accounts[a].positions[x.symbol].qty
                     + ((IF history[x.buyOrder].account = a THEN x.quantity ELSE 0)
                          - (IF history[x.sellOrder].account = a THEN x.quantity ELSE 0))
<1>1. PICK m \in book, fill \in Nat \ {0} :
        /\ m \in Orders /\ call[t] \in Takers /\ m.account # call[t].account
        /\ m.symbol = call[t].symbol
        /\ tape' = Append(tape, TradeOf(call[t], m, fill))
        /\ accounts' = BookFill(call[t], m, fill)
  BY MatchStep DEF Inv
<1>2. PICK o : o = call[t]
  OBVIOUS
<1>3. /\ o \in Takers /\ o.account \in Accounts /\ m.account \in Accounts /\ m.account # o.account
      /\ accounts'[o.account] = ApplyFill(accounts[o.account], o.symbol, o.side, m.price, fill)
      /\ accounts'[m.account] =
           ApplyFill(accounts[m.account], o.symbol, Opposite(o.side), m.price, fill)
      /\ \A a \in Accounts \ {o.account, m.account} : accounts'[a] = accounts[a]
  BY <1>1, <1>2, BookFillEffect DEF Inv
<1>4. o.symbol \in Symbols /\ m.price \in Nat /\ o.side \in Sides
  BY <1>1, <1>3, LocalEngineAssumption DEF Orders, Takers
<1>5. PICK x : x = TradeOf(o, m, fill)
  OBVIOUS
<1>6. /\ x \in Trades /\ x.symbol = o.symbol /\ x.quantity = fill
      /\ x.buyOrder = IF o.side = "SELL" THEN m.id ELSE o.id
      /\ x.sellOrder = IF o.side = "SELL" THEN o.id ELSE m.id
  BY <1>1, <1>3, <1>4, <1>5 DEF TradeOf, Trades, Orders, Takers
<1>7. /\ o.id \in 1..orderID /\ history[o.id].account = o.account
      /\ m.id \in 1..orderID /\ history[m.id].account = m.account
  BY <1>1, <1>2, NoneIsNoCall DEF Histories, Known
<1>8. ASSUME NEW a \in Accounts
      PROVE  accounts[a] \in LedgerAccount(Symbols) /\ Sound(accounts[a].positions[o.symbol])
             /\ accounts[a].positions[o.symbol].qty \in Int
  BY <1>4 DEF Inv, TypeOK, SoundPositions, LedgerAccount, Position
<1>9. ASSUME NEW a \in Accounts, NEW side,
             accounts'[a] = ApplyFill(accounts[a], o.symbol, side, m.price, fill)
      PROVE  /\ \A r \in Symbols \ {o.symbol} : accounts'[a].positions[r] = accounts[a].positions[r]
             /\ accounts'[a].positions[o.symbol].qty
                  = accounts[a].positions[o.symbol].qty + Delta(side, fill)
  BY <1>4, <1>8, <1>9, ApplyFillBooks
<1>10. ASSUME NEW a \in Accounts
       PROVE  /\ \A r \in Symbols \ {o.symbol} : accounts'[a].positions[r] = accounts[a].positions[r]
              /\ accounts'[a].positions[o.symbol].qty = accounts[a].positions[o.symbol].qty
                   + ((IF history[x.buyOrder].account = a THEN fill ELSE 0)
                        - (IF history[x.sellOrder].account = a THEN fill ELSE 0))
  <2>1. CASE a \notin {o.account, m.account}
    BY <1>3, <1>6, <1>7, <1>8, <2>1
  <2>2. CASE a = o.account
    <3>1. /\ \A r \in Symbols \ {o.symbol} : accounts'[a].positions[r] = accounts[a].positions[r]
          /\ accounts'[a].positions[o.symbol].qty
               = accounts[a].positions[o.symbol].qty + Delta(o.side, fill)
      BY <1>3, <1>9, <2>2
    <3>2. CASE o.side = "SELL"
      BY <1>3, <1>6, <1>7, <1>8, <2>2, <3>1, <3>2 DEF Delta, Opposite
    <3>3. CASE o.side = "BUY"
      BY <1>3, <1>6, <1>7, <1>8, <2>2, <3>1, <3>3 DEF Delta, Opposite
    <3> QED
      BY <1>4, <3>2, <3>3 DEF Sides
  <2>3. CASE a = m.account
    <3>1. /\ \A r \in Symbols \ {o.symbol} : accounts'[a].positions[r] = accounts[a].positions[r]
          /\ accounts'[a].positions[o.symbol].qty
               = accounts[a].positions[o.symbol].qty + Delta(Opposite(o.side), fill)
      BY <1>3, <1>9, <2>3
    <3>2. CASE o.side = "SELL"
      BY <1>3, <1>6, <1>7, <1>8, <2>3, <3>1, <3>2 DEF Delta, Opposite
    <3>3. CASE o.side = "BUY"
      BY <1>3, <1>6, <1>7, <1>8, <2>3, <3>1, <3>3 DEF Delta, Opposite
    <3> QED
      BY <1>4, <3>2, <3>3 DEF Sides
  <2> QED
    BY <2>1, <2>2, <2>3
<1>11. tape' = Append(tape, x) /\ history' = history
  BY <1>1, <1>2, <1>5 DEF Match
<1>12. x.buyOrder \in 1..orderID /\ x.sellOrder \in 1..orderID
  BY <1>6, <1>7
<1> QED
  BY <1>6, <1>10, <1>11, <1>12

\* A fill is booked as it is recorded, and nothing else books or records.
LEMMA StepBooked ==
  SideInputs \subseteq Sides /\ Inv /\ Histories /\ Booked /\ [Next]_vars => Booked'
<1> SUFFICES ASSUME SideInputs \subseteq Sides, Inv, Histories, Booked, [Next]_vars,
                    NEW a \in Accounts, NEW s \in Symbols
             PROVE  accounts'[a].positions[s].qty = Total(NetOf(a)', TradesIn(s)')
  BY DEF Booked
<1>0. PICK n \in Nat : n = Len(tape) /\ DOMAIN tape = 1..n
  BY DEF Inv, TypeOK
<1>1. Summable(NetOf(a), TradesIn(s)) /\ TradesIn(s) \in SUBSET (1..n)
  BY <1>0, NetSummable
<1>2. Total(NetOf(a), TradesIn(s)) \in Int
  BY <1>1, TotalType
<1>3. accounts[a].positions[s].qty = Total(NetOf(a), TradesIn(s))
  BY DEF Booked
<1>4. ASSUME NEW t \in Threads, Match(t)
      PROVE  accounts'[a].positions[s].qty = Total(NetOf(a)', TradesIn(s)')
  <2>1. PICK x \in Trades :
          /\ tape' = Append(tape, x) /\ history' = history
          /\ \A r \in Symbols \ {x.symbol} : accounts'[a].positions[r] = accounts[a].positions[r]
          /\ accounts'[a].positions[x.symbol].qty = accounts[a].positions[x.symbol].qty
               + ((IF history[x.buyOrder].account = a THEN x.quantity ELSE 0)
                    - (IF history[x.sellOrder].account = a THEN x.quantity ELSE 0))
    BY <1>4, FillOnTape
  <2>2. tape \in Seq(Trades)
    BY DEF Inv, TypeOK
  <2>3. /\ DOMAIN tape' = 1..(n + 1) /\ tape'[n + 1] = x
        /\ \A i \in 1..n : tape'[i] = tape[i]
    BY <1>0, <2>1, <2>2
  <2>4. \A i \in TradesIn(s) : NetOf(a)'[i] = NetOf(a)[i]
    BY <1>0, <1>1, <2>1, <2>3 DEF NetOf, BoughtBy, SoldBy
  <2>5. CASE x.symbol = s
    <3>1. TradesIn(s)' = TradesIn(s) \cup {n + 1}
      BY <1>0, <2>3, <2>5 DEF TradesIn
    <3>2. NetOf(a)'[n + 1] = (IF history[x.buyOrder].account = a THEN x.quantity ELSE 0)
                               - (IF history[x.sellOrder].account = a THEN x.quantity ELSE 0)
      BY <1>0, <2>1, <2>3 DEF NetOf, BoughtBy, SoldBy
    <3>3. n + 1 \notin TradesIn(s) /\ NetOf(a)'[n + 1] \in Int
      <4>1. x.quantity \in Int
        BY DEF Trades
      <4> QED
        BY <1>0, <1>1, <3>2, <4>1
    <3>4. Total(NetOf(a)', TradesIn(s) \cup {n + 1}) = Total(NetOf(a), TradesIn(s)) + NetOf(a)'[n + 1]
      BY <1>1, <2>4, <3>3, TotalGrows
    <3> QED
      BY <1>3, <2>1, <2>5, <3>1, <3>2, <3>4
  <2>6. CASE x.symbol # s
    <3>1. TradesIn(s)' = TradesIn(s)
      BY <1>0, <2>3, <2>6 DEF TradesIn
    <3>2. Total(NetOf(a)', TradesIn(s)) = Total(NetOf(a), TradesIn(s))
      BY <1>1, <2>4, TotalEqual
    <3> QED
      BY <1>3, <2>1, <2>6, <3>1, <3>2
  <2> QED
    BY <2>5, <2>6
<1>5. CASE tape' = tape /\ accounts' = accounts
  <2>1. SameRequests
    BY RequestsStay
  <2>2. TradesIn(s)' = TradesIn(s) /\ DOMAIN tape' = DOMAIN tape
    BY <1>5 DEF TradesIn
  <2>3. ASSUME NEW i \in TradesIn(s) PROVE NetOf(a)'[i] = NetOf(a)[i]
    <3>1. i \in 1..Len(tape) /\ i \in DOMAIN tape
      BY <1>0, <1>1
    <3>2. tape[i].buyOrder \in 1..orderID /\ tape[i].sellOrder \in 1..orderID
      BY <3>1 DEF Histories
    <3>3. /\ history'[tape[i].buyOrder].account = history[tape[i].buyOrder].account
          /\ history'[tape[i].sellOrder].account = history[tape[i].sellOrder].account
      BY <2>1, <3>2 DEF SameRequests
    <3> QED
      BY <1>5, <2>2, <3>1, <3>3 DEF NetOf, BoughtBy, SoldBy
  <2>4. Total(NetOf(a)', TradesIn(s)) = Total(NetOf(a), TradesIn(s))
    BY <1>1, <2>3, TotalEqual
  <2> QED
    BY <1>3, <1>5, <2>2, <2>4
<1> QED
  BY <1>4, <1>5 DEF Next, SubmitOrder, Lock, Finish, CancelOrder, vars

\* The history is one entry per id in every state.
LEMMA HistoriesKept == Spec => []Histories
<1> QED
  BY InitHistories, StepHistories, Invariance, PTL DEF Spec

\* The tape and the ledgers agree on every position, whatever the interleaving:
\* what an account holds in a symbol is what the trades say its orders bought,
\* less what they say its orders sold.
THEOREM TapeExplainsPositions ==
  ASSUME SideInputs \subseteq Sides
  PROVE  Spec => []PositionsMatchTape
<1>1. Inv /\ Histories /\ Booked /\ [Next]_vars => Booked'
  BY StepBooked
<1>2. Inv /\ Booked => PositionsMatchTape
  BY PositionTotal, Zenon DEF Booked, PositionsMatchTape
<1> QED
  BY <1>1, <1>2, InitBooked, Invariance, HistoriesKept, PTL DEF Spec

-----------------------------------------------------------------------------
(* Answers and tape. *)

\* What the trades say was executed of an order.
Traded == [i \in DOMAIN tape |-> tape[i].quantity]
FillsOf(id) == {i \in DOMAIN tape : id \in {tape[i].buyOrder, tape[i].sellOrder}}
Exec(id) == Total(Traded, FillsOf(id))

\* An id is at one place at most: one thread carries it or it rests once.
OnePlace ==
  /\ \A m, n \in book : m.id = n.id => m = n
  /\ \A t, u \in Threads :
       call[t] # None /\ call[u] # None /\ call[t].id = call[u].id => t = u
  /\ \A m \in book, t \in Threads : call[t] # None => m.id # call[t].id

\* Every unit of an order under way is executed or still to be matched, every
\* unit of a resting one executed, resting or cancelled, and the answer to any
\* other order is final; what a MARKET order did not fill is given up.
GivesUp(h) == h.status = "PARTIALLY_FILLED" /\ h.type = "MARKET"
Carried(t) ==
  LET o == call[t]
      h == history[o.id]
  IN /\ h.status = "PENDING" /\ h.type = o.type /\ h.quantity = o.quantity /\ h.cancelled = 0
     /\ Exec(o.id) = o.quantity - o.remaining
Resting(m) ==
  LET h == history[m.id] IN
  /\ h.status \in {"ACCEPTED", "PARTIALLY_FILLED"} /\ h.type = "LIMIT"
  /\ Exec(m.id) + m.remaining + h.cancelled = h.quantity
Final(id) ==
  LET h == history[id] IN
  /\ h.status = "FILLED" => Exec(id) = h.quantity
  /\ h.status = "REJECTED" => Exec(id) = 0
  /\ GivesUp(h) => Exec(id) = h.filled
  /\ h.status \in {"ACCEPTED", "PARTIALLY_FILLED"} /\ ~ GivesUp(h) =>
       Exec(id) + h.cancelled = h.quantity
Accounted ==
  /\ \A t \in Threads : call[t] # None => Carried(t)
  /\ \A m \in book : Resting(m)
  /\ \A id \in 1..orderID : (\A m \in book : m.id # id) => Final(id)

\* The trades of an order add up to a number.
LEMMA TradedSummable ==
  ASSUME Inv, NEW id
  PROVE  /\ Summable(Traded, FillsOf(id)) /\ Exec(id) \in Int
         /\ FillsOf(id) \in SUBSET (1..Len(tape)) /\ DOMAIN tape = 1..Len(tape)
<1>1. tape \in Seq(Trades)
  BY DEF Inv, TypeOK
<1>2. Len(tape) \in Nat /\ DOMAIN tape = 1..Len(tape) /\ FillsOf(id) \in SUBSET (1..Len(tape))
  BY <1>1 DEF FillsOf
<1>3. IsFiniteSet(FillsOf(id))
  <2>1. IsFiniteSet(1..Len(tape))
    BY <1>2, FS_Interval
  <2> QED
    BY <1>2, <2>1, FS_Subset
<1>4. ASSUME NEW i \in FillsOf(id) PROVE Traded[i] \in Int
  <2>1. i \in 1..Len(tape) /\ tape[i] \in Trades
    BY <1>1, <1>2
  <2> QED
    BY <1>2, <2>1 DEF Traded, Trades
<1>5. Summable(Traded, FillsOf(id))
  BY <1>3, <1>4 DEF Summable
<1> QED
  BY <1>2, <1>5, TotalType DEF Exec

\* AnswersStayTrue's sum in the form the sum theorems speak of.
LEMMA ExecutedTotal ==
  ASSUME Inv, NEW id
  PROVE  Executed(id) = Exec(id)
<1> DEFINE P(it) == it = [u \in SUBSET FillsOf(id) |->
               IF u = {} THEN 0 ELSE tape[Pick(u)].quantity + it[u \ {Pick(u)}]]
<1>1. Executed(id) = (CHOOSE it : P(it))[FillsOf(id)]
  BY Zenon DEF Executed, FillsOf, MapThenSumSet, MapThenFoldSet, Pick
<1>2. Summable(Traded, FillsOf(id))
  BY TradedSummable
<1>3. ASSUME NEW it PROVE P(it) <=> SumsOver(it, Traded, SUBSET FillsOf(id))
  <2>1. \A u \in SUBSET FillsOf(id) : u # {} => tape[Pick(u)].quantity = Traded[Pick(u)]
    BY PickIn, TradedSummable DEF Traded
  <2> QED
    BY <2>1 DEF SumsOver
<1> HIDE DEF P
<1>4. P(CHOOSE it : P(it))
  <2>1. \E it : P(it)
    BY <1>2, <1>3, SumsExist
  <2> QED
    BY <2>1
<1> QED
  BY <1>1, <1>2, <1>3, <1>4, IsTotal DEF Exec

\* What rests of an order: nothing, or the remainder of the one that has its id.
LEMMA RestingTotal ==
  ASSUME Inv, OnePlace, NEW id
  PROVE  /\ (\A m \in book : m.id # id) => RestingQty(id) = 0
         /\ \A m \in book : m.id = id => RestingQty(id) = m.remaining
<1> DEFINE S == {m \in book : m.id = id}
           f == [m \in book |-> m.remaining]
           P(it) == it = [u \in SUBSET S |->
               IF u = {} THEN 0 ELSE Pick(u).remaining + it[u \ {Pick(u)}]]
<1>0. \A m \in book : f[m] = m.remaining /\ f[m] \in Int
  BY DEF Inv, TypeOK, Orders
<1>1. RestingQty(id) = (CHOOSE it : P(it))[S]
  BY Zenon DEF RestingQty, MapThenSumSet, MapThenFoldSet, Pick
<1>2. S = {} \/ \E m \in book : S = {m}
  BY DEF OnePlace
<1>3. IsFiniteSet(S)
  BY <1>2, FS_EmptySet, FS_Singleton
<1>4. Summable(f, S)
  BY <1>0, <1>3 DEF Summable
<1>5. ASSUME NEW it PROVE P(it) <=> SumsOver(it, f, SUBSET S)
  <2>1. \A u \in SUBSET S : u # {} => Pick(u).remaining = f[Pick(u)]
    BY PickIn
  <2> QED
    BY <2>1 DEF SumsOver
<1> HIDE DEF P
<1>6. P(CHOOSE it : P(it))
  <2>1. \E it : P(it)
    BY <1>4, <1>5, SumsExist
  <2> QED
    BY <2>1
<1> HIDE DEF f
<1>7. RestingQty(id) = Total(f, S)
  BY <1>1, <1>4, <1>5, <1>6, IsTotal
<1>8. CASE \A m \in book : m.id # id
  <2>1. S = {}
    BY <1>8
  <2> QED
    BY <1>7, <1>8, <2>1, TotalEmpty
<1>9. ASSUME NEW m \in book, m.id = id PROVE RestingQty(id) = m.remaining
  <2>1. S = {m}
    BY <1>2, <1>9
  <2>2. Total(f, {m}) = f[m]
    BY <1>0, TotalOne
  <2> QED
    BY <1>0, <1>7, <2>1, <2>2
<1> QED
  BY <1>8, <1>9

\* An accounting of every order is what AnswersStayTrue asks for.
LEMMA AnswersAccounted == Inv /\ Histories /\ OnePlace /\ Accounted => AnswersStayTrue
<1> SUFFICES ASSUME Inv, Histories, OnePlace, Accounted, NEW id \in DOMAIN history
             PROVE  LET h == history[id] IN
                    /\ h.status = "FILLED" => Executed(id) = h.quantity
                    /\ h.status = "REJECTED" => Executed(id) = 0 /\ RestingQty(id) = 0
                    /\ h.status \in {"ACCEPTED", "PARTIALLY_FILLED"} =>
                         IF GivesUp(h) THEN Executed(id) = h.filled /\ RestingQty(id) = 0
                         ELSE Executed(id) + RestingQty(id) + h.cancelled = h.quantity
  BY DEF AnswersStayTrue, GivesUp
<1>1. id \in 1..orderID /\ history[id] \in Entries
  BY DEF Histories
<1>2. history[id].cancelled \in Int /\ history[id].quantity \in Int /\ Exec(id) \in Int
  BY <1>1, TradedSummable DEF Entries
<1>3. Executed(id) = Exec(id)
  BY ExecutedTotal
<1>4. CASE \A m \in book : m.id # id
  <2>1. RestingQty(id) = 0 /\ Final(id)
    BY <1>1, <1>4, RestingTotal DEF Accounted
  <2> QED
    BY <1>2, <1>3, <2>1 DEF Final
<1>5. ASSUME NEW m \in book, m.id = id
      PROVE  LET h == history[id] IN
             /\ h.status \notin {"FILLED", "REJECTED"} /\ ~ GivesUp(h)
             /\ Executed(id) + RestingQty(id) + h.cancelled = h.quantity
  <2>1. RestingQty(id) = m.remaining /\ Resting(m)
    BY <1>5, RestingTotal DEF Accounted
  <2> QED
    BY <1>3, <1>5, <2>1 DEF Resting, GivesUp
<1> QED
  BY <1>4, <1>5

\* The seeds rest in full.
LEMMA InitAccounted == Init => OnePlace /\ Accounted
<1> SUFFICES ASSUME Init PROVE OnePlace /\ Accounted
  OBVIOUS
<1>1. /\ book = Seeds /\ orderID = SeedCount /\ tape = <<>> /\ \A t \in Threads : call[t] = None
  BY DEF Init
<1>2. OnePlace
  BY <1>1, SeedHistory DEF OnePlace
<1>3. ASSUME NEW m \in book PROVE Resting(m)
  <2>1. history[m.id] = SeedEntry(m) /\ m \in Orders
    BY <1>1, InitHistory, SeedsTyped
  <2>2. FillsOf(m.id) = {}
    BY <1>1 DEF FillsOf
  <2>3. Exec(m.id) = 0
    BY <2>2, TotalEmpty DEF Exec
  <2> QED
    BY <2>1, <2>3 DEF Resting, SeedEntry, Entry, Orders
<1>4. \A id \in 1..orderID : \E m \in book : m.id = id
  BY <1>1, SeedHistory
<1> QED
  BY <1>1, <1>2, <1>3, <1>4 DEF Accounted

\* What will be executed of an order after a step.
TradedNext == [i \in DOMAIN tape' |-> tape'[i].quantity]
FillsNext(id) == {i \in DOMAIN tape' : id \in {tape'[i].buyOrder, tape'[i].sellOrder}}
ExecNext(id) == Total(TradedNext, FillsNext(id))

\* No new trade, nothing more executed.
LEMMA ExecSame ==
  ASSUME tape' = tape, NEW id
  PROVE  ExecNext(id) = Exec(id)
BY DEF Exec, Traded, FillsOf, ExecNext, TradedNext, FillsNext

\* A trade executes its quantity of the two orders it names.
LEMMA ExecGrows ==
  ASSUME Inv, NEW x \in Trades, tape' = Append(tape, x), NEW id
  PROVE  ExecNext(id) = Exec(id) + (IF id \in {x.buyOrder, x.sellOrder} THEN x.quantity ELSE 0)
<1>0. PICK n \in Nat : n = Len(tape) /\ DOMAIN tape = 1..n
  BY DEF Inv, TypeOK
<1>1. Summable(Traded, FillsOf(id)) /\ FillsOf(id) \in SUBSET (1..n) /\ Exec(id) \in Int
  BY <1>0, TradedSummable
<1>2. /\ DOMAIN tape' = 1..(n + 1) /\ tape'[n + 1] = x
      /\ \A i \in 1..n : tape'[i] = tape[i]
  <2>1. tape \in Seq(Trades)
    BY DEF Inv, TypeOK
  <2> QED
    BY <1>0, <2>1
<1>3. /\ \A i \in FillsOf(id) : TradedNext[i] = Traded[i]
      /\ TradedNext[n + 1] = x.quantity /\ n + 1 \notin FillsOf(id)
  BY <1>0, <1>1, <1>2 DEF Traded, TradedNext
<1>4. x.quantity \in Int
  BY DEF Trades
<1>5. CASE id \in {x.buyOrder, x.sellOrder}
  <2>1. FillsNext(id) = FillsOf(id) \cup {n + 1}
    BY <1>0, <1>2, <1>5 DEF FillsOf, FillsNext
  <2>2. /\ TradedNext[n + 1] \in Int /\ n + 1 \notin FillsOf(id)
        /\ \A i \in FillsOf(id) : TradedNext[i] = Traded[i]
    BY <1>3, <1>4
  <2>3. Total(TradedNext, FillsOf(id) \cup {n + 1}) = Total(Traded, FillsOf(id)) + TradedNext[n + 1]
    BY <1>1, <2>2, TotalGrows
  <2> QED
    BY <1>3, <1>5, <2>1, <2>3 DEF Exec, ExecNext
<1>6. CASE id \notin {x.buyOrder, x.sellOrder}
  <2>1. FillsNext(id) = FillsOf(id)
    BY <1>0, <1>2, <1>6 DEF FillsOf, FillsNext
  <2>2. Total(TradedNext, FillsOf(id)) = Total(Traded, FillsOf(id))
    BY <1>1, <1>3, TotalEqual
  <2> QED
    BY <1>1, <1>6, <2>1, <2>2 DEF Exec, ExecNext
<1> QED
  BY <1>5, <1>6

\* An order handed out by this step has no trade yet.
LEMMA ExecNew ==
  ASSUME Inv, Histories
  PROVE  Exec(orderID + 1) = 0
<1>0. orderID \in Nat /\ DOMAIN tape = 1..Len(tape)
  BY DEF Inv, TypeOK
<1>1. \A i \in DOMAIN tape : tape[i].buyOrder # orderID + 1 /\ tape[i].sellOrder # orderID + 1
  BY <1>0 DEF Histories
<1>2. FillsOf(orderID + 1) = {}
  BY <1>1 DEF FillsOf
<1> QED
  BY <1>2, TotalEmpty DEF Exec

\* The state after a step, in the terms of the state before it.
CarriedNext(t) ==
  LET o == call'[t]
      h == history'[o.id]
  IN /\ h.status = "PENDING" /\ h.type = o.type /\ h.quantity = o.quantity /\ h.cancelled = 0
     /\ ExecNext(o.id) = o.quantity - o.remaining
RestingNext(m) ==
  LET h == history'[m.id] IN
  /\ h.status \in {"ACCEPTED", "PARTIALLY_FILLED"} /\ h.type = "LIMIT"
  /\ ExecNext(m.id) + m.remaining + h.cancelled = h.quantity
FinalNext(id) ==
  LET h == history'[id] IN
  /\ h.status = "FILLED" => ExecNext(id) = h.quantity
  /\ h.status = "REJECTED" => ExecNext(id) = 0
  /\ GivesUp(h) => ExecNext(id) = h.filled
  /\ h.status \in {"ACCEPTED", "PARTIALLY_FILLED"} /\ ~ GivesUp(h) =>
       ExecNext(id) + h.cancelled = h.quantity

\* A new id is the id of nothing yet.
LEMMA NewIdIsNew ==
  ASSUME Inv, Histories
  PROVE  /\ \A m \in book : m.id # orderID + 1
         /\ \A t \in Threads : call[t] # None => call[t].id # orderID + 1
<1>1. orderID \in Nat
  BY DEF Inv, TypeOK
<1> QED
  BY <1>1 DEF Histories, Known

\* The order an iteration leaves of the maker, if any.
LEMMA MakerLeft ==
  ASSUME NEW m \in Orders, NEW fill \in Nat \ {0}, fill <= m.remaining
  PROVE  /\ m.remaining = fill => AfterFill(m, fill) = {}
         /\ m.remaining # fill =>
              \E r \in Orders : /\ AfterFill(m, fill) = {r} /\ r.id = m.id
                                /\ r.remaining = m.remaining - fill
<1> DEFINE r == [m EXCEPT !.remaining = @ - fill]
<1>1. CASE m.remaining # fill
  <2>1. m.remaining - fill \in Nat \ {0}
    BY <1>1 DEF Orders
  <2>2. r \in Orders /\ r.id = m.id /\ r.remaining = m.remaining - fill
    BY <2>1 DEF Orders
  <2>3. AfterFill(m, fill) = {r}
    BY <1>1 DEF AfterFill
  <2> QED
    BY <1>1, <2>2, <2>3
<1> QED
  BY <1>1 DEF AfterFill

\* A submission hands its caller a new order, or rejects it.
LEMMA SubmitCalls ==
  ASSUME Inv, NEW t \in Threads, NEW o \in NewOrder, SubmitOrder(t, o)
  PROVE  /\ book' = book /\ tape' = tape /\ orderID' = orderID + 1 /\ call[t] = None
         /\ \A u \in Threads \ {t} : call'[u] = call[u]
         /\ \/ /\ call'[t] = None
               /\ history' = Append(history, Entry(o, "REJECTED"))
            \/ /\ call'[t] # None /\ call'[t].id = orderID + 1 /\ call'[t].type = o.type
               /\ call'[t].quantity = o.quantity /\ call'[t].remaining = o.quantity
               /\ o.quantity \in Nat
               /\ history' = Append(history, Entry(o, "PENDING"))
<1>1. call \in [Threads -> Takers \cup {None}]
  BY DEF Inv, TypeOK
<1>2. /\ book' = book /\ tape' = tape /\ orderID' = orderID + 1 /\ call[t] = None
  BY DEF SubmitOrder
<1>3. CASE ~ Valid(o)
  BY <1>1, <1>2, <1>3 DEF SubmitOrder
<1>4. CASE Valid(o)
  <2> DEFINE c == [id |-> orderID', account |-> o.account, symbol |-> o.symbol,
                   side |-> o.side, type |-> o.type, price |-> o.price,
                   quantity |-> o.quantity, remaining |-> o.quantity]
  <2>1. call' = [call EXCEPT ![t] = c] /\ history' = Append(history, Entry(o, "PENDING"))
    BY <1>4 DEF SubmitOrder
  <2>2. o.quantity \in Nat \ {0} /\ o.account \in Accounts /\ o.price \in Prices
    <3>1. o.quantity \in Quantities /\ o.account \in Traders /\ o.price \in Prices
      BY DEF NewOrder
    <3>2. o.quantity \in Int /\ o.account \in Accounts
      BY <3>1, LocalEngineAssumption
    <3> QED
      BY <1>4, <3>1, <3>2 DEF Valid
  <2>3. orderID' \in Nat
    BY <1>2 DEF Inv, TypeOK
  <2>4. c \in Takers
    BY <2>2, <2>3 DEF Takers, NewOrder
  <2>5. c # None
    BY <2>4, NoneIsNoCall
  <2> QED
    BY <1>1, <1>2, <2>1, <2>2, <2>5
<1> QED
  BY <1>3, <1>4

\* An iteration carries the same orders on.
LEMMA MatchCalls ==
  ASSUME Inv, NEW t \in Threads, NEW fill,
         call' = [call EXCEPT ![t].remaining = @ - fill], call[t] \in Takers
  PROVE  /\ \A u \in Threads \ {t} : call'[u] = call[u]
         /\ call[t] # None
         /\ call'[t].id = call[t].id /\ call'[t].type = call[t].type
         /\ call'[t].quantity = call[t].quantity /\ call'[t].remaining = call[t].remaining - fill
<1>1. call \in [Threads -> Takers \cup {None}]
  BY DEF Inv, TypeOK
<1> QED
  BY <1>1, NoneIsNoCall DEF Takers

\* An order goes from its caller to the book and off it, never back.
LEMMA StepOnePlace == Inv /\ Histories /\ OnePlace /\ [Next]_vars => OnePlace'
<1> SUFFICES ASSUME Inv, Histories, OnePlace, [Next]_vars PROVE OnePlace'
  OBVIOUS
<1>0. call \in [Threads -> Takers \cup {None}]
  BY DEF Inv, TypeOK
<1>1. ASSUME NEW t \in Threads, NEW o \in NewOrder, SubmitOrder(t, o) PROVE OnePlace'
  BY <1>1, SubmitCalls, NewIdIsNew DEF OnePlace
<1>2. ASSUME NEW t \in Threads, Match(t) PROVE OnePlace'
  <2>1. PICK m \in book, fill \in Nat \ {0} :
          /\ m \in Orders /\ call[t] \in Takers /\ fill <= m.remaining
          /\ call' = [call EXCEPT ![t].remaining = @ - fill]
          /\ book' = (book \ {m}) \cup AfterFill(m, fill)
    BY <1>2, MatchStep DEF Inv
  <2>2. \A u \in Threads : call'[u] # None => call[u] # None /\ call'[u].id = call[u].id
    BY <2>1, MatchCalls
  <2>3. \A r \in AfterFill(m, fill) : r.id = m.id /\ AfterFill(m, fill) = {r}
    BY <2>1, MakerLeft
  <2>4. \A r \in book' : r \in book \ {m} \/ (AfterFill(m, fill) = {r} /\ r.id = m.id)
    BY <2>1, <2>3
  <2>5. \A r \in book' : \E n \in book : n.id = r.id
    BY <2>4
  <2>6. \A r, n \in book' : r.id = n.id => r = n
    BY <2>4 DEF OnePlace
  <2> QED
    BY <2>2, <2>5, <2>6 DEF OnePlace
<1>3. ASSUME NEW t \in Threads, Finish(t) PROVE OnePlace'
  <2>1. /\ call[t] # None /\ call' = [call EXCEPT ![t] = None]
        /\ book' \subseteq book \cup {RestingOrder(call[t])}
    BY <1>3, TakerTyped DEF Inv, Finish
  <2>2. RestingOrder(call[t]).id = call[t].id
    BY DEF RestingOrder
  <2>3. \A u \in Threads : call'[u] # None => u # t /\ call'[u] = call[u]
    BY <1>0, <2>1
  <2> QED
    BY <2>1, <2>2, <2>3 DEF OnePlace
<1>4. CASE book' \subseteq book /\ call' = call
  BY <1>4 DEF OnePlace
<1>5. ASSUME NEW id \in 1..MaxOrders, NEW who \in Cancellers, CancelOrder(id, who)
      PROVE  book' \subseteq book /\ call' = call
  BY <1>5 DEF CancelOrder, vars
<1> QED
  BY <1>1, <1>2, <1>3, <1>4, <1>5 DEF Next, Lock, vars

\* Together these make the accounting of the next state.
LEMMA NextAccounted ==
  ASSUME \A t \in Threads : call'[t] # None => CarriedNext(t),
         \A m \in book' : RestingNext(m),
         \A id \in 1..orderID' : (\A m \in book' : m.id # id) => FinalNext(id)
  PROVE  Accounted'
BY DEF Accounted, Carried, Resting, Final, CarriedNext, RestingNext, FinalNext, GivesUp,
       Exec, Traded, FillsOf, ExecNext, TradedNext, FillsNext

\* A new order has nothing executed.
LEMMA SubmitAccounted ==
  ASSUME Inv, Histories, OnePlace, Accounted, NEW t \in Threads, NEW o \in NewOrder,
         SubmitOrder(t, o)
  PROVE  Accounted'
<1>1. /\ book' = book /\ tape' = tape /\ orderID' = orderID + 1 /\ call[t] = None
      /\ \A u \in Threads \ {t} : call'[u] = call[u]
      /\ \/ /\ call'[t] = None
            /\ history' = Append(history, Entry(o, "REJECTED"))
         \/ /\ call'[t] # None /\ call'[t].id = orderID + 1 /\ call'[t].type = o.type
            /\ call'[t].quantity = o.quantity /\ call'[t].remaining = o.quantity
            /\ o.quantity \in Nat
            /\ history' = Append(history, Entry(o, "PENDING"))
  BY SubmitCalls
<1>2. \A id \in 1..orderID : history'[id] = history[id]
  BY SubmitHistory
<1>3. orderID \in Nat /\ history \in Seq(Entries) /\ Len(history) = orderID
  BY DEF Inv, TypeOK, Histories
<1>4. \A id : ExecNext(id) = Exec(id)
  BY <1>1, ExecSame
<1>5. ASSUME NEW u \in Threads, call'[u] # None PROVE CarriedNext(u)
  <2>1. CASE u # t
    <3>1. call'[u] = call[u] /\ call[u].id \in 1..orderID /\ Carried(u)
      BY <1>1, <1>5, <2>1 DEF Accounted, Histories, Known
    <3> QED
      BY <1>2, <1>4, <3>1 DEF Carried, CarriedNext
  <2>2. CASE u = t
    <3>1. history'[orderID + 1] = Entry(o, "PENDING") /\ Exec(orderID + 1) = 0
      BY <1>1, <1>3, <1>5, <2>2, ExecNew
    <3>2. /\ call'[t].id = orderID + 1 /\ call'[t].type = o.type
          /\ call'[t].quantity = o.quantity /\ call'[t].remaining = o.quantity
          /\ o.quantity \in Nat
      BY <1>1, <1>5, <2>2
    <3> QED
      BY <1>4, <2>2, <3>1, <3>2 DEF CarriedNext, Entry
  <2> QED
    BY <2>1, <2>2
<1>6. ASSUME NEW m \in book' PROVE RestingNext(m)
  <2>1. m.id \in 1..orderID /\ Resting(m)
    BY <1>1 DEF Histories, Known, Accounted
  <2> QED
    BY <1>2, <1>4, <2>1 DEF Resting, RestingNext
<1>7. ASSUME NEW id \in 1..orderID', \A m \in book' : m.id # id PROVE FinalNext(id)
  <2>1. CASE id \in 1..orderID
    <3>1. Final(id)
      BY <1>1, <1>7, <2>1 DEF Accounted
    <3> QED
      BY <1>2, <1>4, <2>1, <3>1 DEF Final, FinalNext, GivesUp
  <2>2. CASE id = orderID + 1
    <3>1. Exec(id) = 0
      BY <2>2, ExecNew
    <3>2. history'[id].status \in {"PENDING", "REJECTED"}
      BY <1>1, <1>3, <2>2 DEF Entry
    <3> QED
      BY <1>4, <3>1, <3>2 DEF FinalNext, GivesUp
  <2> QED
    BY <1>1, <1>3, <2>1, <2>2
<1> QED
  BY <1>5, <1>6, <1>7, NextAccounted

\* A fill moves its quantity from remaining to executed, for taker and maker.
LEMMA MatchAccounted ==
  ASSUME Inv, Histories, OnePlace, Accounted, NEW t \in Threads, Match(t)
  PROVE  Accounted'
<1>1. PICK m \in book, fill \in Nat \ {0} :
        /\ m \in Orders /\ call[t] \in Takers /\ fill <= m.remaining
        /\ m.symbol = call[t].symbol
        /\ call' = [call EXCEPT ![t].remaining = @ - fill]
        /\ book' = (book \ {m}) \cup AfterFill(m, fill)
        /\ tape' = Append(tape, TradeOf(call[t], m, fill))
  BY MatchStep DEF Inv
<1>2. history' = history /\ orderID' = orderID
  BY DEF Match
<1>3. PICK o \in Takers : o = call[t] /\ o # None
  BY <1>1, NoneIsNoCall
<1>4. PICK x \in Trades :
        /\ tape' = Append(tape, x) /\ x.quantity = fill
        /\ {x.buyOrder, x.sellOrder} = {o.id, m.id}
  <2>1. TradeOf(o, m, fill) \in Trades
    BY <1>1, <1>3 DEF TradeOf, Trades, Takers, Orders
  <2>2. /\ TradeOf(o, m, fill).quantity = fill
        /\ {TradeOf(o, m, fill).buyOrder, TradeOf(o, m, fill).sellOrder} = {o.id, m.id}
    BY DEF TradeOf
  <2> QED
    BY <1>1, <1>3, <2>1, <2>2
<1>5. /\ \A u \in Threads \ {t} : call'[u] = call[u]
      /\ call'[t].id = o.id /\ call'[t].type = o.type
      /\ call'[t].quantity = o.quantity /\ call'[t].remaining = o.remaining - fill
  <2>1. /\ \A u \in Threads \ {t} : call'[u] = call[u]
        /\ call'[t].id = call[t].id /\ call'[t].type = call[t].type
        /\ call'[t].quantity = call[t].quantity /\ call'[t].remaining = call[t].remaining - fill
    BY <1>1, MatchCalls
  <2> QED
    BY <1>3, <2>1
<1>6. ASSUME NEW id, id \in {o.id, m.id} PROVE ExecNext(id) = Exec(id) + fill
  BY <1>4, <1>6, ExecGrows
<1>7. ASSUME NEW id, id \notin {o.id, m.id} PROVE ExecNext(id) = Exec(id)
  <2>1. Exec(id) \in Int
    BY TradedSummable
  <2> QED
    BY <1>4, <1>7, <2>1, ExecGrows
<1>8. /\ \A n \in book : n.id # o.id
      /\ \A n \in book \ {m} : n.id # m.id
      /\ \A u \in Threads \ {t} : call[u] # None => call[u].id \notin {o.id, m.id}
  BY <1>1, <1>3 DEF OnePlace
<1>9. ASSUME NEW u \in Threads, call'[u] # None PROVE CarriedNext(u)
  <2>1. CASE u # t
    <3>1. call'[u] = call[u] /\ Carried(u) /\ ExecNext(call[u].id) = Exec(call[u].id)
      BY <1>5, <1>7, <1>8, <1>9, <2>1 DEF Accounted
    <3> QED
      BY <1>2, <3>1 DEF Carried, CarriedNext
  <2>2. CASE u = t
    <3>1. Carried(t) /\ ExecNext(o.id) = Exec(o.id) + fill
      BY <1>3, <1>6 DEF Accounted
    <3>2. Exec(o.id) = o.quantity - o.remaining
      BY <1>3, <3>1 DEF Carried
    <3>3. ExecNext(o.id) = o.quantity - (o.remaining - fill)
      BY <3>1, <3>2 DEF Takers
    <3> QED
      BY <1>2, <1>3, <1>5, <2>2, <3>1, <3>3 DEF Carried, CarriedNext
  <2> QED
    BY <2>1, <2>2
<1>10. /\ Resting(m) /\ ExecNext(m.id) = Exec(m.id) + fill /\ Exec(m.id) \in Int
       /\ m.remaining \in Int /\ history[m.id].cancelled \in Int
  <2>1. history[m.id] \in Entries
    BY DEF Histories, Known
  <2> QED
    BY <1>1, <1>6, <2>1, TradedSummable DEF Accounted, Orders, Entries
<1>11. ASSUME NEW r \in book' PROVE RestingNext(r)
  <2>1. CASE r \in book \ {m}
    <3>1. Resting(r) /\ ExecNext(r.id) = Exec(r.id)
      BY <1>7, <1>8, <2>1 DEF Accounted
    <3> QED
      BY <1>2, <3>1 DEF Resting, RestingNext
  <2>2. CASE r \in AfterFill(m, fill)
    <3>1. r.id = m.id /\ r.remaining = m.remaining - fill
      BY <1>1, <2>2, MakerLeft
    <3>2. ExecNext(m.id) + r.remaining + history[m.id].cancelled = history[m.id].quantity
      BY <1>10, <3>1 DEF Resting
    <3> QED
      BY <1>2, <1>10, <3>1, <3>2 DEF Resting, RestingNext
  <2> QED
    BY <1>1, <2>1, <2>2
<1>12. ASSUME NEW id \in 1..orderID', \A r \in book' : r.id # id PROVE FinalNext(id)
  <2>1. CASE id = o.id
    <3>1. history[id].status = "PENDING"
      BY <1>3, <2>1 DEF Accounted, Carried
    <3> QED
      BY <1>2, <3>1 DEF FinalNext, GivesUp
  <2>2. CASE id = m.id
    <3>1. m.remaining = fill
      BY <1>1, <1>12, <2>2, MakerLeft
    <3>2. ExecNext(m.id) + history[m.id].cancelled = history[m.id].quantity
      BY <1>10, <3>1 DEF Resting
    <3> QED
      BY <1>2, <1>10, <2>2, <3>2 DEF Resting, FinalNext, GivesUp
  <2>3. CASE id \notin {o.id, m.id}
    <3>1. \A n \in book : n.id # id
      BY <1>1, <1>12, <2>3
    <3>2. Final(id) /\ ExecNext(id) = Exec(id)
      BY <1>2, <1>7, <2>3, <3>1 DEF Accounted
    <3> QED
      BY <1>2, <3>2 DEF Final, FinalNext, GivesUp
  <2> QED
    BY <2>1, <2>2, <2>3
<1> QED
  BY <1>9, <1>11, <1>12, NextAccounted

\* The answer SubmitOrder gives says what was executed and what rests.
LEMMA FinishAccounted ==
  ASSUME Inv, Histories, OnePlace, Accounted, TypeInputs \subseteq {"LIMIT", "MARKET"},
         NEW t \in Threads, Finish(t)
  PROVE  Accounted'
<1>1. PICK o \in Takers : o = call[t] /\ o # None /\ Valid(o)
  BY TakerTyped DEF Inv, Finish
<1> DEFINE rests == o.remaining > 0 /\ o.type = "LIMIT"
<1>2. /\ SameRequests
      /\ o.id \in 1..orderID
      /\ history'[o.id].status = StatusFor(o.type, o.quantity - o.remaining, o.remaining)
      /\ history'[o.id].filled = o.quantity - o.remaining
      /\ history'[o.id].cancelled = history[o.id].cancelled
      /\ \A id \in 1..orderID \ {o.id} : history'[id] = history[id]
  BY <1>1, FinishHistory
<1>3. /\ tape' = tape /\ orderID' = orderID
      /\ call' = [call EXCEPT ![t] = None]
      /\ book' = IF rests THEN book \cup {RestingOrder(o)} ELSE book
  BY <1>1 DEF Finish, Rests
<1>4. \A id : ExecNext(id) = Exec(id)
  BY <1>3, ExecSame
<1>5. /\ \A n \in book : n.id # o.id
      /\ \A u \in Threads : call'[u] # None =>
           call'[u] = call[u] /\ call[u] # None /\ call[u].id # o.id
  <2>1. call \in [Threads -> Takers \cup {None}]
    BY DEF Inv, TypeOK
  <2> QED
    BY <1>1, <1>3, <2>1 DEF OnePlace
<1>6. /\ Exec(o.id) = o.quantity - o.remaining
      /\ history'[o.id].type = o.type /\ history'[o.id].quantity = o.quantity
      /\ history'[o.id].cancelled = 0
  BY <1>1, <1>2 DEF Accounted, Carried, SameRequests
<1>7. /\ o.quantity \in Nat \ {0} /\ o.remaining \in Nat /\ o.type \in {"LIMIT", "MARKET"}
  BY DEF Takers
<1>8. ASSUME NEW u \in Threads, call'[u] # None PROVE CarriedNext(u)
  <2>1. call'[u] = call[u] /\ call[u].id # o.id /\ Carried(u) /\ call[u].id \in 1..orderID
    BY <1>5, <1>8 DEF Accounted, Histories, Known
  <2> QED
    BY <1>2, <1>4, <2>1 DEF Carried, CarriedNext
<1>9. ASSUME NEW r \in book' PROVE RestingNext(r)
  <2>1. CASE r \in book
    <3>1. Resting(r) /\ r.id # o.id /\ r.id \in 1..orderID
      BY <1>5, <2>1 DEF Accounted, Histories, Known
    <3> QED
      BY <1>2, <1>4, <3>1 DEF Resting, RestingNext
  <2>2. CASE rests /\ r = RestingOrder(o)
    <3>1. r.id = o.id /\ r.remaining = o.remaining
      BY <2>2 DEF RestingOrder
    <3>2. history'[o.id].status \in {"ACCEPTED", "PARTIALLY_FILLED"}
      BY <1>2, <1>7, <2>2 DEF StatusFor
    <3>3. history'[o.id].cancelled = 0
      BY <1>6
    <3>4. ExecNext(o.id) + o.remaining + 0 = o.quantity
      BY <1>4, <1>6, <1>7
    <3> QED
      BY <1>6, <2>2, <3>1, <3>2, <3>3, <3>4 DEF RestingNext
  <2> QED
    BY <1>3, <2>1, <2>2
<1>10. ASSUME NEW id \in 1..orderID', \A r \in book' : r.id # id PROVE FinalNext(id)
  <2>1. CASE id = o.id
    <3>1. ~ rests
      <4>1. rests => RestingOrder(o) \in book'
        BY <1>3
      <4>2. RestingOrder(o).id = o.id
        BY DEF RestingOrder
      <4> QED
        BY <1>10, <2>1, <4>1, <4>2
    <3>2. o.remaining # 0 => o.type = "MARKET"
      BY <1>7, <3>1
    <3>3. CASE o.quantity - o.remaining = 0
      <4>1. o.type = "MARKET"
        BY <1>7, <3>1, <3>3
      <4>2. history'[o.id].status = "REJECTED"
        BY <1>2, <3>3, <4>1 DEF StatusFor
      <4> QED
        BY <1>4, <1>6, <2>1, <3>3, <4>2 DEF FinalNext, GivesUp
    <3>4. CASE o.quantity - o.remaining # 0
      <4>1. /\ o.remaining = 0 => history'[o.id].status = "FILLED"
            /\ o.remaining # 0 => history'[o.id].status = "PARTIALLY_FILLED"
        BY <1>2, <3>4 DEF StatusFor
      <4>2. CASE o.remaining = 0
        BY <1>4, <1>6, <1>7, <2>1, <4>1, <4>2 DEF FinalNext, GivesUp
      <4>3. CASE o.remaining # 0
        BY <1>2, <1>4, <1>6, <2>1, <3>2, <4>1, <4>3 DEF FinalNext, GivesUp
      <4> QED
        BY <4>2, <4>3
    <3> QED
      BY <3>3, <3>4
  <2>2. CASE id # o.id
    <3>1. id \in 1..orderID /\ \A r \in book : r.id # id
      BY <1>3, <1>10
    <3>2. Final(id) /\ history'[id] = history[id]
      BY <1>2, <2>2, <3>1 DEF Accounted
    <3> QED
      BY <1>4, <3>2 DEF Final, FinalNext, GivesUp
  <2> QED
    BY <2>1, <2>2
<1> QED
  BY <1>8, <1>9, <1>10, NextAccounted

\* A cancel moves what rests to what is cancelled.
LEMMA CancelAccounted ==
  ASSUME Inv, Histories, OnePlace, Accounted, NEW id, NEW who, CancelOrder(id, who),
         ~ UNCHANGED vars
  PROVE  Accounted'
<1>1. PICK m \in book :
        /\ m.id = id /\ book' = book \ {m} /\ tape' = tape /\ call' = call
        /\ SameRequests
        /\ id \in 1..orderID /\ orderID' = orderID
        /\ history'[id].status = history[id].status
        /\ history'[id].filled = history[id].filled
        /\ history'[id].cancelled = history[id].cancelled + m.remaining
        /\ \A j \in 1..orderID \ {id} : history'[j] = history[j]
  BY CancelHistory
<1>2. \A j : ExecNext(j) = Exec(j)
  BY <1>1, ExecSame
<1>3. /\ \A n \in book' : n \in book /\ n.id # id
      /\ \A u \in Threads : call[u] # None => call[u].id # id
  BY <1>1 DEF OnePlace
<1>4. ASSUME NEW u \in Threads, call'[u] # None PROVE CarriedNext(u)
  <2>1. call'[u] = call[u] /\ call[u].id # id /\ Carried(u) /\ call[u].id \in 1..orderID
    BY <1>1, <1>3, <1>4 DEF Accounted, Histories, Known
  <2> QED
    BY <1>1, <1>2, <2>1 DEF Carried, CarriedNext
<1>5. ASSUME NEW r \in book' PROVE RestingNext(r)
  <2>1. Resting(r) /\ r.id # id /\ r.id \in 1..orderID
    BY <1>3 DEF Accounted, Histories, Known
  <2> QED
    BY <1>1, <1>2, <2>1 DEF Resting, RestingNext
<1>6. ASSUME NEW j \in 1..orderID', \A r \in book' : r.id # j PROVE FinalNext(j)
  <2>1. CASE j = id
    <3>1. Resting(m) /\ history[id] \in Entries /\ m \in Orders
      BY <1>1 DEF Accounted, Histories, Inv, TypeOK
    <3>2. /\ Exec(id) \in Int /\ m.remaining \in Int /\ history[id].cancelled \in Int
          /\ Exec(id) + m.remaining + history[id].cancelled = history[id].quantity
          /\ history[id].status \in {"ACCEPTED", "PARTIALLY_FILLED"} /\ history[id].type = "LIMIT"
      BY <1>1, <3>1, TradedSummable DEF Resting, Entries, Orders
    <3>3. history'[id].type = history[id].type /\ history'[id].quantity = history[id].quantity
      BY <1>1 DEF SameRequests
    <3>4. ExecNext(id) + history'[id].cancelled = history'[id].quantity
      BY <1>1, <1>2, <3>2, <3>3
    <3> QED
      BY <1>1, <2>1, <3>2, <3>3, <3>4 DEF FinalNext, GivesUp
  <2>2. CASE j # id
    <3>1. j \in 1..orderID /\ \A r \in book : r.id # j
      BY <1>1, <1>6, <2>2
    <3>2. Final(j) /\ history'[j] = history[j]
      BY <1>1, <2>2, <3>1 DEF Accounted
    <3> QED
      BY <1>2, <3>2 DEF Final, FinalNext, GivesUp
  <2> QED
    BY <2>1, <2>2
<1> QED
  BY <1>4, <1>5, <1>6, NextAccounted

\* Every step keeps the accounts of every order.
LEMMA StepAccounted ==
  TypeInputs \subseteq {"LIMIT", "MARKET"} /\ Inv /\ Histories /\ OnePlace /\ Accounted
    /\ [Next]_vars => Accounted'
<1> SUFFICES ASSUME TypeInputs \subseteq {"LIMIT", "MARKET"}, Inv, Histories, OnePlace, Accounted,
                    [Next]_vars
             PROVE  Accounted'
  OBVIOUS
<1>1. ASSUME NEW t \in Threads, NEW o \in NewOrder, SubmitOrder(t, o) PROVE Accounted'
  BY <1>1, SubmitAccounted
<1>2. ASSUME NEW t \in Threads, Match(t) PROVE Accounted'
  BY <1>2, MatchAccounted
<1>3. ASSUME NEW t \in Threads, Finish(t) PROVE Accounted'
  BY <1>3, FinishAccounted
<1>4. CASE UNCHANGED <<orderID, book, call, tape, history>>
  BY <1>4 DEF Accounted, Carried, Resting, Final, GivesUp, Exec, Traded, FillsOf
<1>5. ASSUME NEW id \in 1..MaxOrders, NEW who \in Cancellers, CancelOrder(id, who)
      PROVE  Accounted'
  <2>1. CASE UNCHANGED vars
    BY <1>4, <2>1 DEF vars
  <2>2. CASE ~ UNCHANGED vars
    BY <1>5, <2>2, CancelAccounted
  <2> QED
    BY <2>1, <2>2
<1> QED
  BY <1>1, <1>2, <1>3, <1>4, <1>5 DEF Next, Lock, vars

\* Every answer stays true for ever, whatever trades and cancels follow: the
\* tape executes a FILLED order in full and a REJECTED one not at all, and of
\* every other order each unit is executed, resting or cancelled.  For the order
\* types the API documents: an order of any other type is answered ACCEPTED
\* although nothing of it rests (statusFor only tells MARKET apart).
THEOREM AnswersRemainTrue ==
  ASSUME TypeInputs \subseteq {"LIMIT", "MARKET"}
  PROVE  Spec => []AnswersStayTrue
<1>1. Inv /\ Histories /\ OnePlace /\ Accounted /\ [Next]_vars => Accounted'
  BY StepAccounted
<1> QED
  BY <1>1, InitAccounted, StepOnePlace, AnswersAccounted, Invariance, HistoriesKept, PTL DEF Spec
=============================================================================
