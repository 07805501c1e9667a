---------------------------- MODULE PriceTimeBook ----------------------------
(***************************************************************************)
(* What one symbol's limit order book promises, whoever implements it: the  *)
(* in-process engine of the gateway and the Java engine both claim "price-  *)
(* time priority" with self-match prevention by skipping (ADR 0002, 0008).  *)
(*                                                                          *)
(* One order at a time trades against the resting orders.  Each of its      *)
(* fills goes to the best-priced resting order of another account, the      *)
(* earliest-rested among equals; it leaves the book only when it is used up *)
(* or nothing it may trade with crosses it; what is left of a LIMIT order   *)
(* then rests behind every order already there.                             *)
(***************************************************************************)
EXTENDS Integers

CONSTANT NoTaker   \* no order is being matched

VARIABLES
  resting,         \* orders: [id, account, side, price, remaining, seq]
  taker            \* the order being matched, or NoTaker

bookVars == <<resting, taker>>

OtherSide(side) == IF side = "BUY" THEN "SELL" ELSE "BUY"

\* A MARKET order takes any price, a LIMIT order its own price or better.
Takes(t, price) ==
  \/ t.type = "MARKET"
  \/ IF t.side = "BUY" THEN price <= t.price ELSE price >= t.price

\* The resting orders the taker may trade with.
Eligible(t, orders) ==
  {m \in orders : /\ m.side = OtherSide(t.side)
                  /\ m.account # t.account
                  /\ Takes(t, m.price)}

\* m is served before n: better price, or the same price and rested earlier.
Precedes(m, n) ==
  \/ IF m.side = "SELL" THEN m.price < n.price ELSE m.price > n.price
  \/ m.price = n.price /\ m.seq < n.seq

FirstInLine(m, orders) == \A n \in orders \ {m} : Precedes(m, n)

\* A resting order with n of its quantity executed; an order used up is gone.
Reduced(m, n) == IF m.remaining = n THEN {} ELSE {[m EXCEPT !.remaining = @ - n]}

Arrive ==
  /\ taker = NoTaker
  /\ taker' # NoTaker
  /\ taker'.remaining > 0
  /\ UNCHANGED resting

Fill ==
  /\ taker # NoTaker
  /\ taker.remaining > 0
  /\ \E m \in Eligible(taker, resting) :
       /\ FirstInLine(m, Eligible(taker, resting))
       /\ LET n == IF m.remaining < taker.remaining THEN m.remaining
                   ELSE taker.remaining
          IN /\ taker' = [taker EXCEPT !.remaining = @ - n]
             /\ resting' = (resting \ {m}) \cup Reduced(m, n)

\* r is what rests of the taker t, behind every order of the book.
RestsBehind(r, t, orders) ==
  /\ r.id = t.id /\ r.account = t.account /\ r.side = t.side
  /\ r.price = t.price /\ r.remaining = t.remaining
  /\ \A m \in orders : m.seq < r.seq

Leave ==
  /\ taker # NoTaker
  /\ taker.remaining = 0 \/ Eligible(taker, resting) = {}
  /\ taker' = NoTaker
  /\ IF taker.remaining > 0 /\ taker.type = "LIMIT"
     THEN \E r \in resting' : /\ RestsBehind(r, taker, resting)
                              /\ resting' = resting \cup {r}
     ELSE UNCHANGED resting

Cancel ==
  /\ taker = NoTaker
  /\ \E m \in resting : resting' = resting \ {m}
  /\ UNCHANGED taker

\* A book starts with no order being matched and no crossing pair of orders of
\* different accounts.
Init ==
  /\ taker = NoTaker
  /\ \A b, a \in resting : b.side = "BUY" /\ a.side = "SELL" /\ b.account # a.account
                             => b.price < a.price

Next == Arrive \/ Fill \/ Leave \/ Cancel

Spec == Init /\ [][Next]_bookVars
=============================================================================
