--------------------------- MODULE OrderBookProofs ---------------------------
(***************************************************************************)
(* What is proved of the Java engine's book, for every set of accounts,      *)
(* prices, quantities and order ids.                                         *)
(*                                                                          *)
(* The writer holds orders aside while it works on a level, so neither the   *)
(* agreement of index and queues nor the order within a queue is inductive.  *)
(* What is: the LINE of a level, the orders held aside followed by those in  *)
(* the queue, is at every step the level's resting orders in the order in    *)
(* which they came to rest (QueuesLineUp).                                   *)
(*                                                                          *)
(* The lemmas about single steps take the step's preconditions as they are,  *)
(* so that they serve the book on its own and the book within the engine.    *)
(***************************************************************************)
EXTENDS OrderBook, SumTheorems, SequenceTheorems

-----------------------------------------------------------------------------
(* The inductive invariant of the book. *)

\* The level the writer is working on, the queue of a level, what is held aside
\* of it, and the line of orders the two make up.
AtWork(s, p) == writer # None /\ writer.open /\ s = Opp /\ p = writer.at
QueueIn(lv, s, p) == IF p \in DOMAIN lv[s] THEN lv[s][p] ELSE <<>>
LevelQueue(s, p) == QueueIn(levels, s, p)
HeldAside(s, p) == IF AtWork(s, p) THEN writer.held ELSE <<>>
Line(s, p) == HeldAside(s, p) \o LevelQueue(s, p)

\* The indexed orders of a level.
RestingAt(s, p) == {i \in index : order[i].side = s /\ order[i].price = p}

\* A line of exactly these orders, in the order in which they came to rest.
PositionIn(arrived, id) == CHOOSE n \in DOMAIN arrived : arrived[n] = id
LinesUp(arrived, line, ids) ==
  /\ line \in Seq(OrderIds)
  /\ \A i \in ids : \E n \in DOMAIN line : line[n] = i
  /\ \A n \in DOMAIN line : line[n] \in ids
  /\ \A m, n \in DOMAIN line :
       m < n => PositionIn(arrived, line[m]) < PositionIn(arrived, line[n])

\* Every level's line is its orders in the order of arrival, whatever the writer
\* holds aside, and a level is left empty only while it is being worked on.
QueuesLineUp ==
  /\ \A s \in Sides, p \in Prices : LinesUp(arrivals, Line(s, p), RestingAt(s, p))
  /\ \A s \in Sides : \A p \in DOMAIN levels[s] : levels[s][p] = <<>> => AtWork(s, p)

\* The orders that rested, each once; a resting one has something left.
Arrived ==
  /\ arrivals \in Seq(OrderIds) /\ IsInjective(arrivals)
  /\ \A i \in index : /\ \E n \in DOMAIN arrivals : arrivals[n] = i
                      /\ order[i].remaining > 0 /\ order[i].type = "LIMIT"
  /\ \A n \in DOMAIN arrivals : arrivals[n] \in DOMAIN order /\ future[arrivals[n]] # None

\* The order on the writer has no result yet, what is held aside is the taker's
\* own, and an order that waits has not traded.
OnWriter ==
  /\ writer # None =>
       /\ future[writer.id] = None
       /\ ~ writer.open => writer.held = <<>>
       /\ writer.open => writer.at \in DOMAIN levels[Opp]
       /\ writer.at # None => Crosses(Incoming, writer.at)
       /\ \A n \in DOMAIN writer.held : order[writer.held[n]].account = Incoming.account
  /\ writer = None => trades = <<>>
  /\ \A i \in DOMAIN order : future[i] = None /\ (writer = None \/ i # writer.id) =>
       order[i].remaining = order[i].quantity
  /\ \A i \in OrderIds : future[i] # None => i \in DOMAIN order

\* The levels the iterator has passed.
Passed(p) == writer.at # None /\ (Ahead(Opp, p, writer.at) \/ (p = writer.at /\ ~ writer.open))

\* A taker that still wants to trade has left only its own orders behind.
PassedAreOwn ==
  writer # None /\ Incoming.remaining > 0 =>
    \A i \in index : order[i].side = Opp /\ Passed(order[i].price) =>
      order[i].account = Incoming.account

\* The prices of the book are bounded, so each side has a best level.
PricesBounded == \E b \in Nat : \A s \in Sides : \A p \in DOMAIN levels[s] : p <= b

BookInv ==
  BookTypeOK /\ QueuesLineUp /\ Arrived /\ OnWriter /\ PassedAreOwn /\ PricesBounded

\* What the trades say an order traded, and what a list of trades adds up to.
QtyOf == [t \in Trade |-> t.quantity]
TradesOf(i) == {t \in AllTrades : i \in {t.buyOrder, t.sellOrder}}
ListQty(list) == Total([n \in DOMAIN list |-> list[n].quantity], DOMAIN list)

\* The reported trades, each with its own id, account for every fill.
Reported ==
  /\ IsFiniteSet(AllTrades)
  /\ \A t \in AllTrades : /\ t \in Trade /\ t.tradeId <= tradeSeq
                          /\ t.buyOrder \in DOMAIN order /\ t.sellOrder \in DOMAIN order
  /\ \A i \in DOMAIN order : order[i].quantity - order[i].remaining = Total(QtyOf, TradesOf(i))
  /\ \A i \in OrderIds : future[i] # None => future[i].filled = ListQty(future[i].trades)
  /\ writer # None => Incoming.quantity - Incoming.remaining = ListQty(trades)

-----------------------------------------------------------------------------
(* Lines of orders. *)

\* A list of arrivals, each id once, that has all of these ids.
Lists(arrived, ids) ==
  /\ arrived \in Seq(OrderIds) /\ IsInjective(arrived)
  /\ \A i \in ids : \E n \in DOMAIN arrived : arrived[n] = i

\* An id arrived where it stands in the list, and stays there as others arrive.
LEMMA PositionThere ==
  ASSUME NEW arrived \in Seq(OrderIds), IsInjective(arrived), NEW n \in DOMAIN arrived
  PROVE  PositionIn(arrived, arrived[n]) = n
BY DEF PositionIn, IsInjective

\* A newcomer is last in the list, and the others stay where they were.
LEMMA PositionStays ==
  ASSUME NEW arrived \in Seq(OrderIds), IsInjective(arrived), NEW id \in OrderIds,
         \A n \in DOMAIN arrived : arrived[n] # id
  PROVE  LET more == Append(arrived, id) IN
         /\ more \in Seq(OrderIds) /\ IsInjective(more)
         /\ PositionIn(more, id) = Len(arrived) + 1
         /\ \A n \in DOMAIN arrived : more[n] = arrived[n] /\ PositionIn(more, arrived[n]) = n
<1>1. PICK more : more = Append(arrived, id)
  OBVIOUS
<1>2. /\ more \in Seq(OrderIds) /\ Len(more) = Len(arrived) + 1 /\ more[Len(arrived) + 1] = id
      /\ \A n \in DOMAIN arrived : more[n] = arrived[n]
      /\ DOMAIN arrived = 1..Len(arrived) /\ DOMAIN more = 1..(Len(arrived) + 1)
      /\ Len(arrived) \in Nat
  BY <1>1
<1>3. IsInjective(more)
  <2> SUFFICES ASSUME NEW a \in DOMAIN more, NEW b \in DOMAIN more, more[a] = more[b] PROVE a = b
    BY DEF IsInjective
  <2> QED
    BY <1>2 DEF IsInjective
<1>4. PositionIn(more, id) = Len(arrived) + 1
  BY <1>2, <1>3, PositionThere
<1>5. ASSUME NEW n \in DOMAIN arrived PROVE PositionIn(more, arrived[n]) = n
  BY <1>2, <1>3, PositionThere
<1> QED
  BY <1>1, <1>2, <1>3, <1>4, <1>5

\* An order leaves its line from whatever place; the others keep their order.
LEMMA LineShorter ==
  ASSUME NEW arrived, NEW ids, Lists(arrived, ids), NEW line, LinesUp(arrived, line, ids),
         NEW k \in DOMAIN line, NEW rest \in Seq(OrderIds), Len(rest) = Len(line) - 1,
         \A n \in 1..Len(rest) : rest[n] = IF n < k THEN line[n] ELSE line[n + 1]
  PROVE  LinesUp(arrived, rest, ids \ {line[k]})
<1>1. /\ line \in Seq(OrderIds) /\ DOMAIN line = 1..Len(line) /\ DOMAIN rest = 1..Len(rest)
      /\ Len(line) \in Nat
  BY DEF LinesUp
<1>2. \A n \in DOMAIN line : PositionIn(arrived, line[n]) \in Int
  <2>1. ASSUME NEW n \in DOMAIN line PROVE PositionIn(arrived, line[n]) \in Int
    <3>1. PICK m \in DOMAIN arrived : arrived[m] = line[n]
      BY DEF LinesUp, Lists
    <3>2. PositionIn(arrived, line[n]) = m
      BY <3>1, PositionThere DEF Lists
    <3> QED
      BY <3>2 DEF Lists
  <2> QED
    BY <2>1
<1>3. ASSUME NEW m \in DOMAIN line, NEW n \in DOMAIN line, m # n PROVE line[m] # line[n]
  <2>1. CASE m < n
    BY <1>2, <2>1 DEF LinesUp
  <2>2. CASE n < m
    BY <1>2, <2>2 DEF LinesUp
  <2> QED
    BY <1>1, <1>3, <2>1, <2>2
<1>4. ASSUME NEW i \in ids \ {line[k]} PROVE \E n \in DOMAIN rest : rest[n] = i
  <2>1. PICK n \in DOMAIN line : line[n] = i /\ n # k
    BY DEF LinesUp
  <2>2. CASE n < k
    BY <1>1, <2>1, <2>2
  <2>3. CASE n > k
    <3>1. n - 1 \in 1..Len(rest) /\ ~ (n - 1 < k) /\ (n - 1) + 1 = n
      BY <1>1, <2>3
    <3> QED
      BY <1>1, <2>1, <3>1
  <2> QED
    BY <1>1, <2>1, <2>2, <2>3
<1>5. ASSUME NEW n \in DOMAIN rest PROVE rest[n] \in ids \ {line[k]}
  <2>1. PICK m \in DOMAIN line : rest[n] = line[m] /\ m # k
    <3>1. n \in DOMAIN line /\ n + 1 \in DOMAIN line
      BY <1>1
    <3> QED
      BY <1>1, <3>1
  <2> QED
    BY <1>3, <2>1 DEF LinesUp
<1>6. ASSUME NEW m \in DOMAIN rest, NEW n \in DOMAIN rest, m < n
      PROVE  PositionIn(arrived, rest[m]) < PositionIn(arrived, rest[n])
  <2>1. PICK a \in DOMAIN line, b \in DOMAIN line :
          rest[m] = line[a] /\ rest[n] = line[b] /\ a < b
    <3>1. /\ m \in DOMAIN line /\ m + 1 \in DOMAIN line
          /\ n \in DOMAIN line /\ n + 1 \in DOMAIN line
      BY <1>1
    <3>2. /\ rest[m] = IF m < k THEN line[m] ELSE line[m + 1]
          /\ rest[n] = IF n < k THEN line[n] ELSE line[n + 1]
      BY <1>1
    <3>3. CASE n < k
      BY <1>1, <1>6, <3>1, <3>2, <3>3
    <3>4. CASE ~ (n < k) /\ m < k
      BY <1>1, <1>6, <3>1, <3>2, <3>4
    <3>5. CASE ~ (m < k)
      BY <1>1, <1>6, <3>1, <3>2, <3>5
    <3> QED
      BY <1>1, <1>6, <3>3, <3>4, <3>5
  <2> QED
    BY <2>1 DEF LinesUp
<1> QED
  BY <1>4, <1>5, <1>6 DEF LinesUp

\* A new arrival goes behind every line.
LEMMA LineLonger ==
  ASSUME NEW arrived, NEW ids, Lists(arrived, ids), NEW line, LinesUp(arrived, line, ids),
         NEW id \in OrderIds, \A n \in DOMAIN arrived : arrived[n] # id
  PROVE  /\ LinesUp(Append(arrived, id), line, ids)
         /\ LinesUp(Append(arrived, id), Append(line, id), ids \cup {id})
<1>1. PICK more : more = Append(arrived, id)
  OBVIOUS
<1>2. /\ arrived \in Seq(OrderIds) /\ PositionIn(more, id) = Len(arrived) + 1
      /\ \A n \in DOMAIN arrived : PositionIn(more, arrived[n]) = n
      /\ \A n \in DOMAIN arrived : PositionIn(arrived, arrived[n]) = n
  BY <1>1, PositionStays, PositionThere DEF Lists
<1>3. ASSUME NEW i \in ids
      PROVE  /\ PositionIn(more, i) = PositionIn(arrived, i)
             /\ PositionIn(more, i) \in Int /\ PositionIn(more, i) < PositionIn(more, id)
  <2>1. PICK n \in DOMAIN arrived : arrived[n] = i
    BY DEF Lists
  <2> QED
    BY <1>2, <2>1
<1>4. LinesUp(more, line, ids)
  BY <1>3 DEF LinesUp
<1>5. PICK longer : longer = Append(line, id)
  OBVIOUS
<1>6. /\ longer \in Seq(OrderIds) /\ DOMAIN longer = 1..(Len(line) + 1) /\ Len(line) \in Nat
      /\ DOMAIN line = 1..Len(line)
      /\ longer[Len(line) + 1] = id /\ \A n \in DOMAIN line : longer[n] = line[n]
  BY <1>5 DEF LinesUp
<1>7. ASSUME NEW i \in ids \cup {id} PROVE \E n \in DOMAIN longer : longer[n] = i
  <2>1. CASE i = id
    BY <1>6, <2>1
  <2>2. CASE i \in ids
    <3>1. PICK n \in DOMAIN line : line[n] = i
      BY <2>2 DEF LinesUp
    <3> QED
      BY <1>6, <3>1
  <2> QED
    BY <2>1, <2>2
<1>8. ASSUME NEW n \in DOMAIN longer PROVE longer[n] \in ids \cup {id}
  BY <1>6 DEF LinesUp
<1>9. ASSUME NEW m \in DOMAIN longer, NEW n \in DOMAIN longer, m < n
      PROVE  PositionIn(more, longer[m]) < PositionIn(more, longer[n])
  <2>1. m \in DOMAIN line /\ longer[m] = line[m] /\ line[m] \in ids
    BY <1>6, <1>9 DEF LinesUp
  <2>2. CASE n \in DOMAIN line
    BY <1>4, <1>6, <1>9, <2>1, <2>2 DEF LinesUp
  <2>3. CASE n = Len(line) + 1
    BY <1>3, <1>6, <2>1, <2>3
  <2> QED
    BY <1>6, <2>2, <2>3
<1>10. LinesUp(more, longer, ids \cup {id})
  BY <1>6, <1>7, <1>8, <1>9 DEF LinesUp
<1> QED
  BY <1>1, <1>4, <1>5, <1>10

\* What removing an order does to a queue that has it.
LEMMA WithoutThere ==
  ASSUME NEW queue \in Seq(OrderIds), NEW k \in DOMAIN queue,
         \A n \in DOMAIN queue : queue[n] = queue[k] => n = k
  PROVE  LET rest == Without(queue, queue[k]) IN
         /\ rest \in Seq(OrderIds) /\ Len(rest) = Len(queue) - 1
         /\ \A n \in 1..Len(rest) : rest[n] = IF n < k THEN queue[n] ELSE queue[n + 1]
<1>1. DOMAIN queue = 1..Len(queue) /\ Len(queue) \in Nat
  OBVIOUS
<1>2. {i \in 1..Len(queue) : queue[i] = queue[k]} = {k}
  BY <1>1
<1>3. Min({k}) = k
  BY <1>1 DEF Min
<1>4. SelectInSeq(queue, LAMBDA v : v = queue[k]) = k
  BY <1>2, <1>3 DEF SelectInSeq
<1>5. \E i \in 1..Len(queue) : queue[i] = queue[k]
  BY <1>1
<1>6. Without(queue, queue[k]) = SubSeq(queue, 1, k - 1) \o SubSeq(queue, k + 1, Len(queue))
  BY <1>4, <1>5 DEF Without, RemoveFirst, RemoveAt
<1>7. PICK a, b : a = SubSeq(queue, 1, k - 1) /\ b = SubSeq(queue, k + 1, Len(queue))
  OBVIOUS
<1>8. /\ a \in Seq(OrderIds) /\ Len(a) = k - 1
      /\ \A n \in 1..(k - 1) : a[n] = queue[n]
  <2>1. a = [n \in 1..(k - 1) |-> queue[n]]
    BY <1>1, <1>7
  <2> QED
    BY <1>1, <2>1
<1>9. /\ b \in Seq(OrderIds) /\ Len(b) = Len(queue) - k
      /\ \A n \in 1..(Len(queue) - k) : b[n] = queue[n + k]
  <2>1. k + 1 \in Int /\ Len(queue) \in Int /\ \A i \in (k + 1)..Len(queue) : queue[i] \in OrderIds
    BY <1>1
  <2>2. /\ b \in Seq(OrderIds)
        /\ Len(b) = IF k + 1 <= Len(queue) THEN Len(queue) - (k + 1) + 1 ELSE 0
        /\ \A n \in 1..(Len(queue) - (k + 1) + 1) : b[n] = queue[(k + 1) + n - 1]
    BY <1>7, <2>1, SubSeqProperties
  <2>3. Len(b) = Len(queue) - k
    BY <1>1, <2>2
  <2>4. ASSUME NEW n \in 1..(Len(queue) - k) PROVE b[n] = queue[n + k]
    <3>1. n \in 1..(Len(queue) - (k + 1) + 1) /\ (k + 1) + n - 1 = n + k
      BY <1>1
    <3>2. b[n] = queue[(k + 1) + n - 1]
      BY <2>2, <3>1
    <3> QED
      BY <3>1, <3>2
  <2> QED
    BY <2>2, <2>3, <2>4
<1>10. /\ a \o b \in Seq(OrderIds) /\ Len(a \o b) = Len(a) + Len(b)
       /\ \A n \in 1..(Len(a) + Len(b)) :
            (a \o b)[n] = IF n <= Len(a) THEN a[n] ELSE b[n - Len(a)]
  BY <1>8, <1>9, ConcatProperties
<1>11. Len(a) + Len(b) = Len(queue) - 1
  BY <1>1, <1>8, <1>9
<1>12. ASSUME NEW n \in 1..(Len(queue) - 1)
       PROVE  (a \o b)[n] = IF n < k THEN queue[n] ELSE queue[n + 1]
  <2>1. (a \o b)[n] = IF n <= Len(a) THEN a[n] ELSE b[n - Len(a)]
    BY <1>10, <1>11
  <2>2. CASE n < k
    <3>1. n <= Len(a) /\ n \in 1..(k - 1)
      BY <1>1, <1>8, <2>2
    <3> QED
      BY <1>8, <2>1, <2>2, <3>1
  <2>3. CASE ~ (n < k)
    <3>1. /\ ~ (n <= Len(a)) /\ n - Len(a) \in 1..(Len(queue) - k)
          /\ (n - Len(a)) + k = n + 1
      BY <1>1, <1>8, <2>3
    <3>2. b[n - Len(a)] = queue[(n - Len(a)) + k]
      BY <1>9, <3>1
    <3> QED
      BY <2>1, <2>3, <3>1, <3>2
  <2> QED
    BY <2>2, <2>3
<1> QED
  BY <1>6, <1>7, <1>10, <1>11, <1>12

-----------------------------------------------------------------------------
(* Levels and the queues in them. *)

\* Levels of queues of order ids.
LevelsOK(lv) ==
  /\ DOMAIN lv = Sides
  /\ \A s \in Sides : /\ DOMAIN lv[s] \subseteq Prices
                      /\ \A p \in DOMAIN lv[s] : lv[s][p] \in Seq(OrderIds)

\* The levels after one queue was replaced.
Replaced(new, old, side, p, q) ==
  /\ LevelsOK(new)
  /\ \A s \in Sides, r \in Prices :
       QueueIn(new, s, r) = IF s = side /\ r = p THEN q ELSE QueueIn(old, s, r)
  /\ \A s \in Sides : \A r \in DOMAIN new[s] :
       s # side \/ r # p => r \in DOMAIN old[s] /\ new[s][r] = old[s][r]

\* WithLevel replaces one queue and leaves no empty one there.
LEMMA WithLevelReplaces ==
  ASSUME LevelsOK(levels), NEW side \in Sides, NEW p \in Prices, NEW q \in Seq(OrderIds)
  PROVE  /\ Replaced(WithLevel(side, p, q), levels, side, p, q)
         /\ \A r \in Prices : r \in DOMAIN WithLevel(side, p, q)[side] <=>
              IF r = p THEN q # <<>> ELSE r \in DOMAIN levels[side]
         /\ \A s \in Sides \ {side} : WithLevel(side, p, q)[s] = levels[s]
<1>1. PICK new : new = WithLevel(side, p, q)
  OBVIOUS
<1>2. DOMAIN new = Sides /\ \A s \in Sides \ {side} : new[s] = levels[s]
  BY <1>1 DEF WithLevel, LevelsOK
<1>3. CASE q = <<>>
  <2>1. new[side] = [r \in DOMAIN levels[side] \ {p} |-> levels[side][r]]
    BY <1>1, <1>3 DEF WithLevel, LevelsOK
  <2>2. /\ DOMAIN new[side] = DOMAIN levels[side] \ {p}
        /\ \A r \in DOMAIN new[side] : new[side][r] = levels[side][r]
    BY <2>1
  <2>3. Replaced(new, levels, side, p, q)
    BY <1>2, <1>3, <2>2 DEF Replaced, LevelsOK, QueueIn
  <2> QED
    BY <1>1, <1>2, <1>3, <2>2, <2>3 DEF LevelsOK
<1>4. CASE q # <<>>
  <2>1. new[side] = Put(levels[side], p, q)
    BY <1>1, <1>4 DEF WithLevel, LevelsOK
  <2>2. /\ DOMAIN new[side] = DOMAIN levels[side] \cup {p}
        /\ new[side][p] = q
        /\ \A r \in DOMAIN new[side] \ {p} : new[side][r] = levels[side][r]
    BY <2>1 DEF Put
  <2>3. Replaced(new, levels, side, p, q)
    BY <1>2, <1>4, <2>2 DEF Replaced, LevelsOK, QueueIn
  <2> QED
    BY <1>1, <1>2, <1>4, <2>2, <2>3 DEF LevelsOK
<1> QED
  BY <1>3, <1>4

\* The front of a queue is taken off.
LEMMA FrontReplaces ==
  ASSUME LevelsOK(levels), NEW side \in Sides, NEW p \in DOMAIN levels[side],
         levels[side][p] # <<>>, NEW new, new = [levels EXCEPT ![side][p] = Tail(@)]
  PROVE  /\ Replaced(new, levels, side, p, Tail(levels[side][p]))
         /\ \A s \in Sides : DOMAIN new[s] = DOMAIN levels[s]
<1>2. PICK q : q = Tail(levels[side][p])
  OBVIOUS
<1>3. q \in Seq(OrderIds)
  BY <1>2 DEF LevelsOK
<1>4. /\ DOMAIN new = Sides /\ \A s \in Sides : DOMAIN new[s] = DOMAIN levels[s]
      /\ \A s \in Sides : \A r \in DOMAIN levels[s] :
           new[s][r] = IF s = side /\ r = p THEN q ELSE levels[s][r]
  BY <1>2 DEF LevelsOK
<1>5. Replaced(new, levels, side, p, q)
  BY <1>3, <1>4 DEF Replaced, LevelsOK, QueueIn
<1> QED
  BY <1>2, <1>4, <1>5

\* Moving the front of a queue to the end of what stands before it.
LEMMA HoldKeepsLine ==
  ASSUME NEW h \in Seq(OrderIds), NEW q \in Seq(OrderIds), q # <<>>
  PROVE  Append(h, Head(q)) \o Tail(q) = h \o q
<1>1. PICK a, t : a = Append(h, Head(q)) /\ t = Tail(q)
  OBVIOUS
<1>2. /\ Len(h) \in Nat /\ Len(q) \in Nat \ {0}
      /\ a \in Seq(OrderIds) /\ Len(a) = Len(h) + 1 /\ a[Len(h) + 1] = q[1]
      /\ \A n \in 1..Len(h) : a[n] = h[n]
  BY <1>1
<1>3. /\ t \in Seq(OrderIds) /\ Len(t) = Len(q) - 1
      /\ \A n \in 1..(Len(q) - 1) : t[n] = q[n + 1]
  BY <1>1
<1>4. /\ a \o t \in Seq(OrderIds) /\ Len(a \o t) = Len(a) + Len(t)
      /\ \A n \in 1..(Len(a) + Len(t)) :
           (a \o t)[n] = IF n <= Len(a) THEN a[n] ELSE t[n - Len(a)]
  BY <1>2, <1>3, ConcatProperties
<1>5. /\ h \o q \in Seq(OrderIds) /\ Len(h \o q) = Len(h) + Len(q)
      /\ \A n \in 1..(Len(h) + Len(q)) :
           (h \o q)[n] = IF n <= Len(h) THEN h[n] ELSE q[n - Len(h)]
  BY ConcatProperties
<1>6. Len(a \o t) = Len(h \o q)
  BY <1>2, <1>3, <1>4, <1>5
<1>7. ASSUME NEW n \in 1..Len(a \o t) PROVE (a \o t)[n] = (h \o q)[n]
  <2>0. n \in 1..(Len(a) + Len(t)) /\ n \in 1..(Len(h) + Len(q))
    BY <1>4, <1>5, <1>6
  <2>1. CASE n <= Len(h)
    BY <1>2, <1>4, <1>5, <2>0, <2>1
  <2>2. CASE n = Len(h) + 1
    <3>1. n <= Len(a) /\ ~ (n <= Len(h)) /\ n - Len(h) = 1
      BY <1>2, <2>2
    <3>2. (a \o t)[n] = a[n] /\ (h \o q)[n] = q[1]
      BY <1>4, <1>5, <2>0, <3>1
    <3> QED
      BY <1>2, <2>2, <3>2
  <2>3. CASE n > Len(h) + 1
    <3>1. /\ ~ (n <= Len(a)) /\ ~ (n <= Len(h)) /\ n - Len(a) \in 1..(Len(q) - 1)
          /\ (n - Len(a)) + 1 = n - Len(h)
      BY <1>2, <1>3, <2>0, <2>3
    <3>2. (a \o t)[n] = t[n - Len(a)] /\ (h \o q)[n] = q[n - Len(h)]
      BY <1>4, <1>5, <2>0, <3>1
    <3>3. t[n - Len(a)] = q[(n - Len(a)) + 1]
      BY <1>3, <3>1
    <3> QED
      BY <3>1, <3>2, <3>3
  <2> QED
    BY <1>2, <2>0, <2>1, <2>2, <2>3
<1>8. a \o t = h \o q
  BY <1>4, <1>5, <1>6, <1>7, SeqEqual
<1> QED
  BY <1>1, <1>8

\* Taking the front off a queue takes one order out of the line.
LEMMA FrontLeavesLine ==
  ASSUME NEW h \in Seq(OrderIds), NEW q \in Seq(OrderIds), q # <<>>
  PROVE  LET line == h \o q  rest == h \o Tail(q)  k == Len(h) + 1 IN
         /\ line \in Seq(OrderIds) /\ k \in DOMAIN line /\ line[k] = Head(q)
         /\ rest \in Seq(OrderIds) /\ Len(rest) = Len(line) - 1
         /\ \A n \in 1..Len(rest) : rest[n] = IF n < k THEN line[n] ELSE line[n + 1]
<1>1. PICK t, k : t = Tail(q) /\ k = Len(h) + 1
  OBVIOUS
<1>2. /\ Len(h) \in Nat /\ Len(q) \in Nat \ {0} /\ Head(q) = q[1]
      /\ t \in Seq(OrderIds) /\ Len(t) = Len(q) - 1
      /\ \A n \in 1..(Len(q) - 1) : t[n] = q[n + 1]
  BY <1>1
<1>3. PICK line, rest : line = h \o q /\ rest = h \o t
  OBVIOUS
<1>4. /\ line \in Seq(OrderIds) /\ Len(line) = Len(h) + Len(q) /\ DOMAIN line = 1..Len(line)
      /\ \A n \in 1..(Len(h) + Len(q)) : line[n] = IF n <= Len(h) THEN h[n] ELSE q[n - Len(h)]
  BY <1>3, ConcatProperties
<1>5. /\ rest \in Seq(OrderIds) /\ Len(rest) = Len(h) + Len(t)
      /\ \A n \in 1..(Len(h) + Len(t)) : rest[n] = IF n <= Len(h) THEN h[n] ELSE t[n - Len(h)]
  BY <1>2, <1>3, ConcatProperties
<1>6. k \in DOMAIN line /\ line[k] = q[1]
  <2>1. k \in 1..(Len(h) + Len(q)) /\ ~ (k <= Len(h)) /\ k - Len(h) = 1
    BY <1>1, <1>2
  <2> QED
    BY <1>4, <2>1
<1>7. ASSUME NEW n \in 1..Len(rest) PROVE rest[n] = IF n < k THEN line[n] ELSE line[n + 1]
  <2>0. n \in 1..(Len(h) + Len(t)) /\ n + 1 \in 1..(Len(h) + Len(q)) /\ n \in 1..(Len(h) + Len(q))
    BY <1>2, <1>5
  <2>1. CASE n < k
    <3>1. n <= Len(h)
      BY <1>1, <1>2, <2>1
    <3> QED
      BY <1>4, <1>5, <2>0, <2>1, <3>1
  <2>2. CASE ~ (n < k)
    <3>1. /\ ~ (n <= Len(h)) /\ ~ (n + 1 <= Len(h)) /\ n - Len(h) \in 1..(Len(q) - 1)
          /\ (n - Len(h)) + 1 = (n + 1) - Len(h)
      BY <1>1, <1>2, <2>0, <2>2
    <3>2. rest[n] = t[n - Len(h)] /\ line[n + 1] = q[(n + 1) - Len(h)]
      BY <1>4, <1>5, <2>0, <3>1
    <3>3. t[n - Len(h)] = q[(n - Len(h)) + 1]
      BY <1>2, <3>1
    <3> QED
      BY <2>2, <3>1, <3>2, <3>3
  <2> QED
    BY <2>1, <2>2
<1>8. Len(rest) = Len(line) - 1
  BY <1>2, <1>4, <1>5
<1> QED
  BY <1>1, <1>2, <1>3, <1>4, <1>5, <1>6, <1>7, <1>8

\* A queue grows at its end; before what is held aside, nothing stands.
LEMMA LineEnds ==
  ASSUME NEW h \in Seq(OrderIds), NEW q \in Seq(OrderIds)
  PROVE  h \o q \in Seq(OrderIds) /\ <<>> \o q = q
BY ConcatProperties

-----------------------------------------------------------------------------
(* The writer and its taker. *)

\* What the invariant says of the order being matched and of its iterator.
WriterOK ==
  /\ writer \in Writers /\ writer.id \in DOMAIN order /\ writer.id \in OrderIds
  /\ Incoming \in Order /\ Opp \in Sides /\ Opp # Incoming.side
  /\ writer.held \in Seq(OrderIds) /\ writer.at \in Prices \cup {None}
  /\ writer.open \in BOOLEAN
  /\ ~ writer.open => writer.held = <<>>
  /\ writer.open => /\ writer.at \in DOMAIN levels[Opp] /\ writer.at \in Prices
                    /\ Queue \in Seq(OrderIds) /\ LevelQueue(Opp, writer.at) = Queue

\* What a submit() in progress looks at is there.
LEMMA WriterFacts ==
  ASSUME BookTypeOK, OnWriter, writer # None
  PROVE  WriterOK
<1>1. writer \in Writers /\ writer.id \in DOMAIN order
  BY DEF BookTypeOK
<1>2. Incoming \in Order /\ writer.id \in OrderIds
  BY <1>1 DEF BookTypeOK, Incoming
<1>3. Incoming.side \in Sides /\ Opp = OtherSide(Incoming.side)
  BY <1>2 DEF Order, Opp
<1>4. Opp \in Sides /\ Opp # Incoming.side
  BY <1>3 DEF Sides, OtherSide
<1>5. /\ writer.held \in Seq(OrderIds) /\ writer.at \in Prices \cup {None}
      /\ writer.open \in BOOLEAN
  BY <1>1 DEF Writers
<1>6. /\ ~ writer.open => writer.held = <<>>
      /\ writer.open => writer.at \in DOMAIN levels[Opp]
  BY DEF OnWriter
<1>7. writer.open => /\ writer.at \in Prices /\ Queue \in Seq(OrderIds)
                     /\ LevelQueue(Opp, writer.at) = Queue
  BY <1>4, <1>6 DEF BookTypeOK, LevelQueue, QueueIn, Queue
<1> QED
  BY <1>1, <1>2, <1>4, <1>5, <1>6, <1>7 DEF WriterOK

\* The levels have queues of ids; so have the lines.
LEMMA LevelsTyped ==
  ASSUME BookTypeOK
  PROVE  /\ LevelsOK(levels)
         /\ \A s \in Sides, p \in Prices : LevelQueue(s, p) \in Seq(OrderIds)
<1>1. LevelsOK(levels)
  BY DEF BookTypeOK, LevelsOK
<1> QED
  BY <1>1 DEF LevelsOK, LevelQueue, QueueIn

\* What is held aside of a level is a list of ids.
LEMMA HeldTyped ==
  ASSUME BookTypeOK, OnWriter, NEW s \in Sides, NEW p \in Prices
  PROVE  /\ HeldAside(s, p) \in Seq(OrderIds) /\ LevelQueue(s, p) \in Seq(OrderIds)
         /\ Line(s, p) \in Seq(OrderIds)
<1>1. HeldAside(s, p) \in Seq(OrderIds)
  BY WriterFacts DEF HeldAside, AtWork, WriterOK
<1>2. LevelQueue(s, p) \in Seq(OrderIds)
  BY LevelsTyped
<1> QED
  BY <1>1, <1>2, ConcatProperties DEF Line

-----------------------------------------------------------------------------
(* What each step does to the lines. *)

\* Starting an order, or constructing one, leaves every line as it is.
LEMMA StartKeepsLines ==
  ASSUME BookTypeOK, OnWriter, NEW id \in DOMAIN order, StartSubmit(id),
         NEW s \in Sides, NEW p \in Prices
  PROVE  Line(s, p)' = Line(s, p)
<1>1. HeldAside(s, p) = <<>> /\ HeldAside(s, p)' = <<>>
  BY DEF StartSubmit, HeldAside, AtWork
<1>2. LevelQueue(s, p)' = LevelQueue(s, p)
  BY DEF StartSubmit, LevelQueue, QueueIn
<1> QED
  BY <1>1, <1>2 DEF Line

\* Handing out the next level moves no order.
LEMMA NextLevelKeepsLines ==
  ASSUME BookTypeOK, OnWriter, NextLevel, NEW s \in Sides, NEW p \in Prices
  PROVE  Line(s, p)' = Line(s, p)
<1>1. writer # None /\ ~ writer.open /\ writer'.held = writer.held /\ writer.held = <<>>
  BY WriterFacts DEF NextLevel, WriterOK, Writers
<1>2. HeldAside(s, p) = <<>> /\ HeldAside(s, p)' = <<>>
  BY <1>1 DEF HeldAside, AtWork
<1>3. LevelQueue(s, p)' = LevelQueue(s, p)
  BY DEF NextLevel, LevelQueue, QueueIn
<1> QED
  BY <1>2, <1>3 DEF Line

\* The front of the queue at work is taken off.
LEMMA FrontTaken ==
  ASSUME BookTypeOK, OnWriter, Matching, levels' = [levels EXCEPT ![Opp][writer.at] = Tail(@)]
  PROVE  /\ Replaced(levels', levels, Opp, writer.at, Tail(Queue))
         /\ LevelsOK(levels') /\ \A s \in Sides : DOMAIN levels'[s] = DOMAIN levels[s]
<1>1. PICK o, a : o = Opp /\ a = writer.at
  OBVIOUS
<1>2. WriterOK /\ writer.open /\ Queue # <<>>
  BY WriterFacts DEF Matching
<1>3. LevelsOK(levels) /\ o \in Sides /\ a \in DOMAIN levels[o] /\ Queue = levels[o][a]
  BY <1>1, <1>2, LevelsTyped DEF WriterOK, Queue
<1>4. PICK new : new = levels' /\ new = [levels EXCEPT ![o][a] = Tail(@)]
  BY <1>1
<1>5. levels[o][a] # <<>>
  BY <1>2, <1>3
<1>6. Replaced(new, levels, o, a, Tail(levels[o][a]))
  BY <1>3, <1>4, <1>5, FrontReplaces
<1>7. LevelsOK(new)
  BY <1>6 DEF Replaced
<1>8. \A s \in Sides : DOMAIN new[s] = DOMAIN levels[s]
  BY <1>3, <1>4 DEF LevelsOK
<1>9. Replaced(levels', levels, Opp, writer.at, Tail(Queue))
  BY <1>1, <1>3, <1>4, <1>6
<1> QED
  BY <1>4, <1>7, <1>8, <1>9

\* HoldOwn adds the front order to what is held aside.
LEMMA HoldOwnWriter ==
  ASSUME BookTypeOK, OnWriter, HoldOwn
  PROVE  /\ writer' \in Writers /\ writer' # None
         /\ writer'.held = Append(writer.held, Head(Queue)) /\ writer'.at = writer.at
         /\ writer'.open = writer.open /\ writer'.id = writer.id
<1>1. WriterOK /\ writer.open /\ Queue # <<>>
  BY WriterFacts DEF HoldOwn, Matching
<1>2. PICK x : x = Append(writer.held, Head(Queue))
  OBVIOUS
<1>3. Head(Queue) \in OrderIds
  BY <1>1 DEF WriterOK
<1>4. x \in Seq(OrderIds)
  BY <1>1, <1>2, <1>3 DEF WriterOK
<1>5. writer' = [writer EXCEPT !.held = x] /\ writer \in Writers
  BY <1>1, <1>2 DEF HoldOwn, WriterOK
<1>6. /\ writer' \in Writers /\ writer'.held = x /\ writer'.at = writer.at
      /\ writer'.open = writer.open /\ writer'.id = writer.id
  BY <1>4, <1>5 DEF Writers
<1> QED
  BY <1>2, <1>6, NoneIsAbsent

\* Holding an order aside takes it out of the queue, not out of the line.
LEMMA HoldOwnKeepsLines ==
  ASSUME BookTypeOK, OnWriter, HoldOwn, NEW s \in Sides, NEW p \in Prices
  PROVE  Line(s, p)' = Line(s, p)
<1>1. WriterOK /\ writer # None /\ writer.open /\ Queue # <<>>
  BY WriterFacts DEF HoldOwn, Matching
<1>2. Replaced(levels', levels, Opp, writer.at, Tail(Queue))
  BY FrontTaken DEF HoldOwn
<1>3. /\ writer'.held = Append(writer.held, Head(Queue)) /\ writer'.at = writer.at
      /\ writer'.open = writer.open /\ writer'.id = writer.id /\ writer' # None
  BY <1>1, HoldOwnWriter
<1>4. Opp' = Opp /\ (AtWork(s, p)' <=> AtWork(s, p))
  BY <1>1, <1>3 DEF HoldOwn, Opp, Incoming, AtWork
<1>5. CASE AtWork(s, p)
  <2>1. s = Opp /\ p = writer.at
    BY <1>5 DEF AtWork
  <2>2. LevelQueue(s, p)' = Tail(Queue) /\ LevelQueue(s, p) = Queue
    BY <1>1, <1>2, <2>1 DEF Replaced, LevelQueue, WriterOK
  <2>3. HeldAside(s, p)' = Append(writer.held, Head(Queue)) /\ HeldAside(s, p) = writer.held
    BY <1>3, <1>4, <1>5 DEF HeldAside
  <2>4. Append(writer.held, Head(Queue)) \o Tail(Queue) = writer.held \o Queue
    BY <1>1, HoldKeepsLine DEF WriterOK
  <2> QED
    BY <2>2, <2>3, <2>4 DEF Line
<1>6. CASE ~ AtWork(s, p)
  <2>1. ~ (s = Opp /\ p = writer.at)
    BY <1>1, <1>6 DEF AtWork
  <2>2. LevelQueue(s, p)' = LevelQueue(s, p)
    BY <1>2, <2>1 DEF Replaced, LevelQueue
  <2>3. HeldAside(s, p)' = <<>> /\ HeldAside(s, p) = <<>>
    BY <1>4, <1>6 DEF HeldAside
  <2> QED
    BY <2>2, <2>3 DEF Line
<1> QED
  BY <1>5, <1>6

\* CloseLevel changes the queue of the writer's level only.
LEMMA CloseLevelReplaces ==
  ASSUME BookTypeOK, OnWriter, CloseLevel
  PROVE  /\ Replaced(levels', levels, Opp, writer.at, writer.held \o Queue)
         /\ \A r \in Prices : r \in DOMAIN levels'[Opp] <=>
              IF r = writer.at THEN writer.held \o Queue # <<>> ELSE r \in DOMAIN levels[Opp]
         /\ \A s \in Sides \ {Opp} : levels'[s] = levels[s]
<1>1. WriterOK /\ writer.open
  BY WriterFacts DEF CloseLevel
<1>2. PICK o, a, q : o = Opp /\ a = writer.at /\ q = writer.held \o Queue
  OBVIOUS
<1>3. levels' = WithLevel(o, a, q)
  BY <1>2 DEF CloseLevel, Restored
<1>4. o \in Sides /\ a \in Prices /\ q \in Seq(OrderIds) /\ LevelsOK(levels)
  BY <1>1, <1>2, LevelsTyped, ConcatProperties DEF WriterOK
<1>5. /\ Replaced(levels', levels, o, a, q)
      /\ \A r \in Prices : r \in DOMAIN levels'[o] <=>
           IF r = a THEN q # <<>> ELSE r \in DOMAIN levels[o]
      /\ \A s \in Sides \ {o} : levels'[s] = levels[s]
  BY <1>3, <1>4, WithLevelReplaces
<1> QED
  BY <1>2, <1>5

\* Putting the held orders back in front leaves every line as it was.
LEMMA CloseLevelKeepsLines ==
  ASSUME BookTypeOK, OnWriter, CloseLevel, NEW s \in Sides, NEW p \in Prices
  PROVE  Line(s, p)' = Line(s, p)
<1>1. WriterOK /\ writer # None /\ writer.open
  BY WriterFacts DEF CloseLevel
<1>2. ~ writer'.open
  BY <1>1 DEF CloseLevel, WriterOK, Writers
<1>3. HeldAside(s, p)' = <<>>
  BY <1>2 DEF HeldAside, AtWork
<1>4. LevelQueue(s, p)' = IF s = Opp /\ p = writer.at THEN writer.held \o Queue
                          ELSE LevelQueue(s, p)
  BY CloseLevelReplaces DEF Replaced, LevelQueue
<1>5. LevelQueue(s, p) \in Seq(OrderIds) /\ writer.held \o Queue \in Seq(OrderIds)
  BY <1>1, LevelsTyped, ConcatProperties DEF WriterOK
<1>6. CASE s = Opp /\ p = writer.at
  <2>1. HeldAside(s, p) = writer.held /\ LevelQueue(s, p) = Queue
    BY <1>1, <1>6 DEF HeldAside, AtWork, WriterOK
  <2> QED
    BY <1>3, <1>4, <1>5, <1>6, <2>1, ConcatProperties DEF Line
<1>7. CASE ~ (s = Opp /\ p = writer.at)
  <2>1. HeldAside(s, p) = <<>>
    BY <1>7 DEF HeldAside, AtWork
  <2> QED
    BY <1>3, <1>4, <1>7, <2>1 DEF Line
<1> QED
  BY <1>6, <1>7

-----------------------------------------------------------------------------
(* The steps that change an order or a line. *)

\* The orders after a step that only changes what some have left.
SameTerms(new, old) ==
  /\ DOMAIN new = DOMAIN old
  /\ \A i \in DOMAIN old :
       /\ new[i].account = old[i].account /\ new[i].side = old[i].side
       /\ new[i].type = old[i].type /\ new[i].price = old[i].price
       /\ new[i].quantity = old[i].quantity /\ new[i].client = old[i].client

\* Two orders of the heap lose the traded quantity.
BothLose(a, b, n) ==
  /\ SameTerms(order', order)
  /\ order' \in [DOMAIN order -> Order]
  /\ \A i \in DOMAIN order :
       order'[i].remaining = order[i].remaining - (IF i \in {a, b} THEN n ELSE 0)

\* The order at the front of the queue rests at the level the taker is working
\* on, and is not the taker.
LEMMA FrontRests ==
  ASSUME BookTypeOK, OnWriter, QueuesLineUp, Arrived, Matching
  PROVE  /\ Head(Queue) \in index /\ Head(Queue) \in DOMAIN order /\ Head(Queue) # writer.id
         /\ order[Head(Queue)].side = Opp /\ order[Head(Queue)].price = writer.at
         /\ order[Head(Queue)].remaining > 0
<1>1. WriterOK /\ writer.open /\ Queue # <<>>
  BY WriterFacts DEF Matching
<1>2. PICK h, q, a : h = writer.held /\ q = Queue /\ a = writer.at
  OBVIOUS
<1>3. h \in Seq(OrderIds) /\ q \in Seq(OrderIds) /\ q # <<>> /\ a \in Prices /\ Opp \in Sides
  BY <1>1, <1>2 DEF WriterOK
<1>4. AtWork(Opp, a)
  BY <1>1, <1>2 DEF AtWork, Matching
<1>5. Line(Opp, a) = h \o q
  BY <1>1, <1>2, <1>4 DEF Line, HeldAside, WriterOK
<1>6. Len(h) + 1 \in DOMAIN Line(Opp, a) /\ Line(Opp, a)[Len(h) + 1] = Head(q)
  BY <1>3, <1>5, FrontLeavesLine
<1>7. Head(q) \in RestingAt(Opp, a)
  BY <1>3, <1>6 DEF QueuesLineUp, LinesUp
<1>8. Head(q) \in index /\ order[Head(q)].side = Opp /\ order[Head(q)].price = a
  BY <1>7 DEF RestingAt
<1>9. Head(q) \in DOMAIN order /\ order[Head(q)].remaining > 0
  BY <1>8 DEF BookTypeOK, Arrived
<1>10. Head(q) # writer.id
  BY <1>1, <1>8 DEF WriterOK, Incoming
<1> QED
  BY <1>2, <1>8, <1>9, <1>10

\* What is traded is positive and at most what either order has left.
LEMMA FillBounds ==
  ASSUME NEW o, NEW m, o.remaining \in Nat \ {0}, m.remaining \in Nat \ {0}
  PROVE  /\ FillQty(o, m) \in Nat \ {0}
         /\ FillQty(o, m) <= o.remaining /\ FillQty(o, m) <= m.remaining
         /\ FillQty(o, m) = IF m.remaining < o.remaining THEN m.remaining ELSE o.remaining
<1>1. PICK x \in {o.remaining, m.remaining} :
        \A y \in {o.remaining, m.remaining} : x <= y
  <2>1. CASE o.remaining <= m.remaining
    BY <2>1
  <2>2. CASE ~ (o.remaining <= m.remaining)
    BY <2>2
  <2> QED
    BY <2>1, <2>2
<1>2. Min({o.remaining, m.remaining}) = x
  BY <1>1 DEF Min
<1> QED
  BY <1>1, <1>2 DEF FillQty

\* The pieces of a trade step.
TradeOf(r, n) ==
  /\ r \in index /\ r \in DOMAIN order /\ r # writer.id
  /\ order[r].side = Opp /\ order[r].price = writer.at
  /\ order[r].account # Incoming.account
  /\ n \in Nat \ {0} /\ n <= order[r].remaining /\ n <= Incoming.remaining
  /\ n = IF order[r].remaining < Incoming.remaining THEN order[r].remaining ELSE Incoming.remaining
  /\ BothLose(writer.id, r, n)
  /\ trades' = Append(trades, MakeTrade(r, n)) /\ tradeSeq' = tradeSeq + 1
  /\ index' = IF order[r].remaining = n THEN index \ {r} ELSE index
  /\ UNCHANGED <<writer, future, arrivals>>

\* What TradeFront reports, whose orders it fills and by how much.
LEMMA TradeFrontIsTrade ==
  ASSUME BookTypeOK, OnWriter, QueuesLineUp, Arrived, TradeFront
  PROVE  TradeOf(Head(Queue), FillQty(Incoming, order[Head(Queue)]))
<1>1. Matching /\ WriterOK /\ Incoming.remaining > 0
  BY WriterFacts DEF TradeFront, Matching
<1>2. PICK r : r = Head(Queue)
  OBVIOUS
<1>3. /\ r \in index /\ r \in DOMAIN order /\ r # writer.id
      /\ order[r].side = Opp /\ order[r].price = writer.at /\ order[r].remaining > 0
  BY <1>1, <1>2, FrontRests
<1>4. order[r] \in Order /\ Incoming \in Order
  BY <1>1, <1>3 DEF BookTypeOK, WriterOK
<1>5. order[r].remaining \in Nat \ {0} /\ Incoming.remaining \in Nat \ {0}
  BY <1>1, <1>3, <1>4 DEF Order
<1>6. PICK n : n = FillQty(Incoming, order[r])
  OBVIOUS
<1>7. /\ n \in Nat \ {0} /\ n <= order[r].remaining /\ n <= Incoming.remaining
      /\ n = IF order[r].remaining < Incoming.remaining THEN order[r].remaining
             ELSE Incoming.remaining
  BY <1>5, <1>6, FillBounds
<1>8. /\ order[r].account # Incoming.account
      /\ order' = [order EXCEPT ![writer.id].remaining = @ - n, ![r].remaining = @ - n]
      /\ trades' = Append(trades, MakeTrade(r, n)) /\ tradeSeq' = tradeSeq + 1
      /\ index' = IF order[r].remaining = n THEN index \ {r} ELSE index
      /\ UNCHANGED <<writer, future, arrivals>>
  BY <1>2, <1>6 DEF TradeFront
<1>9. BothLose(writer.id, r, n)
  <2>1. PICK w : w = writer.id /\ w \in DOMAIN order /\ order[w] = Incoming
    BY <1>1 DEF WriterOK, Incoming
  <2>2. \A i \in DOMAIN order : order[i] \in Order
    BY DEF BookTypeOK
  <2>3. PICK new : new = [order EXCEPT ![w].remaining = @ - n, ![r].remaining = @ - n]
    OBVIOUS
  <2>4. /\ DOMAIN new = DOMAIN order
        /\ new[w] = [order[w] EXCEPT !.remaining = @ - n]
        /\ new[r] = [order[r] EXCEPT !.remaining = @ - n]
        /\ \A i \in DOMAIN order \ {w, r} : new[i] = order[i]
        /\ new = [i \in DOMAIN order |-> new[i]]
    BY <1>3, <2>1, <2>3
  <2>5. ASSUME NEW i \in DOMAIN order
        PROVE  /\ new[i] \in Order
               /\ new[i].account = order[i].account /\ new[i].side = order[i].side
               /\ new[i].type = order[i].type /\ new[i].price = order[i].price
               /\ new[i].quantity = order[i].quantity /\ new[i].client = order[i].client
               /\ new[i].remaining = order[i].remaining - (IF i \in {w, r} THEN n ELSE 0)
    <3>1. CASE i = w
      <4>1. order[w] \in Order /\ order[w].remaining - n \in Nat
        BY <1>4, <1>7, <2>1 DEF Order
      <4> QED
        BY <2>4, <3>1, <4>1 DEF Order
    <3>2. CASE i = r
      <4>1. order[r] \in Order /\ order[r].remaining - n \in Nat
        BY <1>4, <1>7 DEF Order
      <4> QED
        BY <2>4, <3>2, <4>1 DEF Order
    <3>3. CASE i \notin {w, r}
      <4>1. order[i] \in Order /\ order[i].remaining \in Nat
        BY <2>2 DEF Order
      <4> QED
        BY <2>4, <3>3, <4>1 DEF Order
    <3> QED
      BY <3>1, <3>2, <3>3
  <2>6. new \in [DOMAIN order -> Order]
    BY <2>4, <2>5
  <2>7. order' = new
    BY <1>8, <2>1, <2>3
  <2> QED
    BY <2>1, <2>4, <2>5, <2>6, <2>7 DEF BothLose, SameTerms
<1>10. TradeOf(r, n)
  BY <1>3, <1>7, <1>8, <1>9 DEF TradeOf
<1> QED
  BY <1>2, <1>6, <1>10

\* A fill shortens the line of the maker's level when it used the maker up.
LEMMA TradeFrontLines ==
  ASSUME BookTypeOK, OnWriter, QueuesLineUp, Arrived, TradeFront, NEW s \in Sides, NEW p \in Prices
  PROVE  Line(s, p)' = IF index' # index /\ s = Opp /\ p = writer.at
                       THEN writer.held \o Tail(Queue) ELSE Line(s, p)
<1>1. WriterOK /\ writer # None /\ writer.open /\ Queue # <<>>
  BY WriterFacts DEF TradeFront, Matching
<1>2. PICK r, n : r = Head(Queue) /\ n = FillQty(Incoming, order[Head(Queue)])
  OBVIOUS
<1>3. TradeOf(r, n)
  BY <1>2, TradeFrontIsTrade
<1>4. index' # index <=> order[r].remaining = n
  BY <1>3 DEF TradeOf
<1>5. writer' = writer /\ Opp' = Opp
  BY <1>1, <1>3 DEF TradeOf, BothLose, SameTerms, Opp, Incoming, WriterOK
<1>6. (AtWork(s, p)' <=> AtWork(s, p)) /\ HeldAside(s, p)' = HeldAside(s, p)
  BY <1>5 DEF AtWork, HeldAside
<1>7. s = Opp /\ p = writer.at => HeldAside(s, p) = writer.held
  BY <1>1 DEF AtWork, HeldAside
<1>8. CASE order[r].remaining = n
  <2>1. levels' = [levels EXCEPT ![Opp][writer.at] = Tail(@)]
    BY <1>2, <1>8 DEF TradeFront
  <2>3. Replaced(levels', levels, Opp, writer.at, Tail(Queue))
    BY <2>1, FrontTaken DEF TradeFront
  <2>4. LevelQueue(s, p)' = IF s = Opp /\ p = writer.at THEN Tail(Queue) ELSE LevelQueue(s, p)
    BY <2>3 DEF Replaced, LevelQueue
  <2> QED
    BY <1>4, <1>6, <1>7, <1>8, <2>4 DEF Line
<1>9. CASE order[r].remaining # n
  <2>1. levels' = levels
    BY <1>2, <1>9 DEF TradeFront
  <2>2. LevelQueue(s, p)' = LevelQueue(s, p)
    BY <2>1 DEF LevelQueue
  <2> QED
    BY <1>4, <1>6, <1>9, <2>2 DEF Line
<1> QED
  BY <1>8, <1>9

-----------------------------------------------------------------------------
(* The lines after each step. *)

\* What has arrived is a list that has the orders of every level.
LEMMA ArrivedLists ==
  ASSUME Arrived, NEW s, NEW p
  PROVE  Lists(arrivals, RestingAt(s, p))
BY DEF Arrived, Lists, RestingAt

\* Lines and arrivals that stay as they are still line up.
LEMMA SameLinesLineUp ==
  ASSUME QueuesLineUp, UNCHANGED arrivals,
         \A s \in Sides, p \in Prices : Line(s, p)' = Line(s, p),
         \A s \in Sides, p \in Prices : RestingAt(s, p)' = RestingAt(s, p)
  PROVE  \A s \in Sides, p \in Prices : LinesUp(arrivals', Line(s, p)', RestingAt(s, p)')
BY DEF QueuesLineUp

\* No step but the one that works on a level leaves it empty.
LEMMA StartLinesUp ==
  ASSUME BookTypeOK, OnWriter, QueuesLineUp, NEW id \in DOMAIN order, StartSubmit(id)
  PROVE  QueuesLineUp'
<1>1. \A s \in Sides, p \in Prices : Line(s, p)' = Line(s, p)
  BY StartKeepsLines
<1>2. UNCHANGED <<levels, index, order, arrivals>> /\ writer = None
  BY DEF StartSubmit
<1>3. \A s \in Sides, p \in Prices : RestingAt(s, p)' = RestingAt(s, p)
  BY <1>2 DEF RestingAt
<1>4. \A s \in Sides, p \in Prices : LinesUp(arrivals', Line(s, p)', RestingAt(s, p)')
  BY <1>1, <1>2, <1>3, SameLinesLineUp
<1>5. \A s \in Sides : \A p \in DOMAIN levels'[s] : levels'[s][p] = <<>> => AtWork(s, p)'
  BY <1>2 DEF QueuesLineUp, AtWork
<1> QED
  BY <1>4, <1>5 DEF QueuesLineUp

\* QueuesLineUp, step by step: the next level.
LEMMA NextLevelLinesUp ==
  ASSUME BookTypeOK, OnWriter, QueuesLineUp, NextLevel
  PROVE  QueuesLineUp'
<1>1. \A s \in Sides, p \in Prices : Line(s, p)' = Line(s, p)
  BY NextLevelKeepsLines
<1>2. UNCHANGED <<levels, index, order, arrivals>> /\ ~ writer.open
  BY DEF NextLevel
<1>3. \A s \in Sides, p \in Prices : RestingAt(s, p)' = RestingAt(s, p)
  BY <1>2 DEF RestingAt
<1>4. \A s \in Sides, p \in Prices : LinesUp(arrivals', Line(s, p)', RestingAt(s, p)')
  BY <1>1, <1>2, <1>3, SameLinesLineUp
<1>5. \A s \in Sides : \A p \in DOMAIN levels'[s] : levels'[s][p] = <<>> => AtWork(s, p)'
  BY <1>2 DEF QueuesLineUp, AtWork
<1> QED
  BY <1>4, <1>5 DEF QueuesLineUp

\* An own order held aside is still in its place.
LEMMA HoldOwnLinesUp ==
  ASSUME BookTypeOK, OnWriter, QueuesLineUp, HoldOwn
  PROVE  QueuesLineUp'
<1>1. \A s \in Sides, p \in Prices : Line(s, p)' = Line(s, p)
  BY HoldOwnKeepsLines
<1>2. UNCHANGED <<index, order, arrivals>> /\ WriterOK /\ writer.open /\ writer # None
  BY WriterFacts DEF HoldOwn, Matching
<1>3. \A s \in Sides, p \in Prices : RestingAt(s, p)' = RestingAt(s, p)
  BY <1>2 DEF RestingAt
<1>4. \A s \in Sides, p \in Prices : LinesUp(arrivals', Line(s, p)', RestingAt(s, p)')
  BY <1>1, <1>2, <1>3, SameLinesLineUp
<1>5. /\ writer' # None /\ writer'.id = writer.id /\ writer'.open /\ writer'.at = writer.at
  BY <1>2, HoldOwnWriter
<1>6. Opp' = Opp
  BY <1>2, <1>5 DEF Opp, Incoming
<1>7. ASSUME NEW s \in Sides, NEW p \in DOMAIN levels'[s], levels'[s][p] = <<>>
      PROVE  AtWork(s, p)'
  <2>1. CASE s = Opp /\ p = writer.at
    BY <1>5, <1>6, <2>1 DEF AtWork
  <2>2. CASE ~ (s = Opp /\ p = writer.at)
    <3>3. Replaced(levels', levels, Opp, writer.at, Tail(Queue))
      BY FrontTaken DEF HoldOwn
    <3>4. p \in DOMAIN levels[s] /\ levels'[s][p] = levels[s][p]
      BY <2>2, <3>3 DEF Replaced
    <3>5. AtWork(s, p)
      BY <1>7, <3>4 DEF QueuesLineUp
    <3> QED
      BY <2>2, <3>5 DEF AtWork
  <2> QED
    BY <2>1, <2>2
<1> QED
  BY <1>4, <1>7 DEF QueuesLineUp

\* The held orders return to their places.
LEMMA CloseLevelLinesUp ==
  ASSUME BookTypeOK, OnWriter, QueuesLineUp, CloseLevel
  PROVE  QueuesLineUp'
<1>1. \A s \in Sides, p \in Prices : Line(s, p)' = Line(s, p)
  BY CloseLevelKeepsLines
<1>2. UNCHANGED <<index, order, arrivals>> /\ WriterOK
  BY WriterFacts DEF CloseLevel
<1>3. \A s \in Sides, p \in Prices : RestingAt(s, p)' = RestingAt(s, p)
  BY <1>2 DEF RestingAt
<1>4. \A s \in Sides, p \in Prices : LinesUp(arrivals', Line(s, p)', RestingAt(s, p)')
  BY <1>1, <1>2, <1>3, SameLinesLineUp
<1>5. PICK o, a, q : o = Opp /\ a = writer.at /\ q = writer.held \o Queue
  OBVIOUS
<1>6. /\ Replaced(levels', levels, o, a, q)
      /\ \A r \in Prices : r \in DOMAIN levels'[o] <=>
           IF r = a THEN q # <<>> ELSE r \in DOMAIN levels[o]
  BY <1>5, CloseLevelReplaces
<1>7. ASSUME NEW s \in Sides, NEW p \in DOMAIN levels'[s], levels'[s][p] = <<>>
      PROVE  FALSE
  <2>0. p \in Prices
    BY <1>6 DEF Replaced, LevelsOK
  <2>1. CASE s = o /\ p = a
    <3>1. q # <<>> /\ levels'[s][p] = q
      BY <1>6, <2>0, <2>1 DEF Replaced, QueueIn
    <3> QED
      BY <1>7, <3>1
  <2>2. CASE ~ (s = o /\ p = a)
    <3>1. p \in DOMAIN levels[s] /\ levels[s][p] = <<>>
      BY <1>6, <1>7, <2>2 DEF Replaced
    <3>2. AtWork(s, p)
      BY <3>1 DEF QueuesLineUp
    <3> QED
      BY <1>5, <2>2, <3>2 DEF AtWork
  <2> QED
    BY <2>1, <2>2
<1> QED
  BY <1>4, <1>7 DEF QueuesLineUp

\* An order that is used up leaves the line and the index together.
LEMMA TradeFrontLinesUp ==
  ASSUME BookTypeOK, OnWriter, QueuesLineUp, Arrived, TradeFront
  PROVE  QueuesLineUp'
<1>1. WriterOK /\ writer # None /\ writer.open /\ Queue # <<>>
  BY WriterFacts DEF TradeFront, Matching
<1>2. PICK r, n : /\ r = Head(Queue) /\ n = FillQty(Incoming, order[Head(Queue)])
                  /\ TradeOf(r, n)
  BY TradeFrontIsTrade
<1>3. /\ arrivals' = arrivals /\ writer' = writer /\ Opp' = Opp
      /\ \A i \in index : order'[i].side = order[i].side /\ order'[i].price = order[i].price
      /\ index' = IF order[r].remaining = n THEN index \ {r} ELSE index
      /\ r \in index /\ order[r].side = Opp /\ order[r].price = writer.at
  BY <1>1, <1>2 DEF TradeOf, BothLose, SameTerms, Opp, Incoming, WriterOK, BookTypeOK
<1>4. ASSUME NEW s \in Sides, NEW p \in Prices
      PROVE  LinesUp(arrivals', Line(s, p)', RestingAt(s, p)')
  <2>1. CASE order[r].remaining = n /\ s = Opp /\ p = writer.at
    <3>0. PICK h, q : h = writer.held /\ q = Queue
      OBVIOUS
    <3>2. h \in Seq(OrderIds) /\ q \in Seq(OrderIds) /\ q # <<>> /\ r = Head(q)
      BY <1>1, <1>2, <3>0 DEF WriterOK
    <3>1. PICK line, rest, k : line = h \o q /\ rest = h \o Tail(q) /\ k = Len(h) + 1
      OBVIOUS
    <3>3. /\ k \in DOMAIN line /\ line[k] = r /\ rest \in Seq(OrderIds)
          /\ Len(rest) = Len(line) - 1
          /\ \A i \in 1..Len(rest) : rest[i] = IF i < k THEN line[i] ELSE line[i + 1]
      BY <3>1, <3>2, FrontLeavesLine
    <3>4. Line(s, p) = line
      BY <1>1, <2>1, <3>0, <3>1 DEF Line, HeldAside, AtWork, WriterOK
    <3>5. Line(s, p)' = rest
      BY <1>3, <2>1, <3>0, <3>1, TradeFrontLines
    <3>6. LinesUp(arrivals, line, RestingAt(s, p)) /\ Lists(arrivals, RestingAt(s, p))
      BY <3>4, ArrivedLists DEF QueuesLineUp
    <3>7. LinesUp(arrivals, rest, RestingAt(s, p) \ {r})
      BY <3>3, <3>6, LineShorter
    <3>8. RestingAt(s, p)' = RestingAt(s, p) \ {r}
      BY <1>3, <2>1 DEF RestingAt
    <3> QED
      BY <1>3, <3>5, <3>7, <3>8
  <2>2. CASE ~ (order[r].remaining = n /\ s = Opp /\ p = writer.at)
    <3>1. Line(s, p)' = Line(s, p)
      BY <1>3, <2>2, TradeFrontLines
    <3>2. RestingAt(s, p)' = RestingAt(s, p)
      BY <1>3, <2>2 DEF RestingAt
    <3> QED
      BY <1>3, <3>1, <3>2 DEF QueuesLineUp
  <2> QED
    BY <2>1, <2>2
<1>5. ASSUME NEW s \in Sides, NEW p \in DOMAIN levels'[s], levels'[s][p] = <<>>
      PROVE  AtWork(s, p)'
  <2>1. CASE s = Opp /\ p = writer.at
    BY <1>1, <1>3, <2>1 DEF AtWork
  <2>2. CASE ~ (s = Opp /\ p = writer.at)
    <3>1. p \in DOMAIN levels[s] /\ levels'[s][p] = levels[s][p]
      <4>1. CASE levels' = levels
        BY <4>1
      <4>2. CASE levels' # levels
        <5>1. levels' = [levels EXCEPT ![Opp][writer.at] = Tail(@)]
          BY <4>2 DEF TradeFront
        <5>3. Replaced(levels', levels, Opp, writer.at, Tail(Queue))
          BY <5>1, FrontTaken DEF TradeFront
        <5> QED
          BY <2>2, <5>3 DEF Replaced
      <4> QED
        BY <4>1, <4>2
    <3>2. AtWork(s, p)
      BY <1>5, <3>1 DEF QueuesLineUp
    <3> QED
      BY <2>2, <3>2 DEF AtWork
  <2> QED
    BY <2>1, <2>2
<1> QED
  BY <1>4, <1>5 DEF QueuesLineUp

\* No two places of a line hold the same order.
LEMMA LineApart ==
  ASSUME NEW arrived, NEW ids, Lists(arrived, ids), NEW line, LinesUp(arrived, line, ids),
         NEW m \in DOMAIN line, NEW n \in DOMAIN line, line[m] = line[n]
  PROVE  m = n
<1>1. line \in Seq(OrderIds) /\ DOMAIN line = 1..Len(line) /\ Len(line) \in Nat
  BY DEF LinesUp
<1>2. PICK a \in DOMAIN arrived : arrived[a] = line[n]
  BY DEF LinesUp, Lists
<1>3. PositionIn(arrived, line[n]) = a
  BY <1>2, PositionThere DEF Lists
<1>4. PositionIn(arrived, line[n]) \in Int
  BY <1>3 DEF Lists
<1>5. ~ (m < n) /\ ~ (n < m)
  BY <1>4 DEF LinesUp
<1> QED
  BY <1>1, <1>5

\* What finalize() does when the rest of the order goes to the book.
RestStep(id, o) ==
  /\ id \in OrderIds /\ o \in Order /\ o = order[id] /\ id \in DOMAIN order
  /\ id \notin index /\ \A n \in DOMAIN arrivals : arrivals[n] # id
  /\ o.remaining > 0 /\ o.type = "LIMIT" /\ o.side \in Sides /\ o.price \in Prices
  /\ levels' = WithLevel(o.side, o.price, Append(LevelQueue(o.side, o.price), id))
  /\ index' = index \cup {id} /\ arrivals' = Append(arrivals, id)
  /\ writer # None /\ ~ writer.open /\ writer' = None /\ order' = order

\* What finalize() does when nothing rests.
NoRestStep ==
  /\ writer # None /\ ~ writer.open /\ writer' = None
  /\ UNCHANGED <<levels, index, arrivals, order>>

\* finalize() of a LIMIT remainder rests it behind its level.
LEMMA FinalizeRests ==
  ASSUME BookTypeOK, OnWriter, Arrived, Finalize
  PROVE  IF Incoming.remaining > 0 /\ Incoming.type = "LIMIT"
         THEN RestStep(writer.id, Incoming) ELSE NoRestStep
<1>1. WriterOK /\ writer # None /\ ~ writer.open
  BY WriterFacts DEF Finalize, MatchingDone
<1>2. PICK id, o : id = writer.id /\ o = Incoming
  OBVIOUS
<1>3. PICK queue : queue = LevelQueue(o.side, o.price)
  OBVIOUS
<1>4. LET rests == o.remaining > 0 /\ o.type = "LIMIT" IN
      /\ levels' = IF rests THEN WithLevel(o.side, o.price, Append(queue, id)) ELSE levels
      /\ index' = IF rests THEN index \cup {id} ELSE index
      /\ arrivals' = IF rests THEN Append(arrivals, id) ELSE arrivals
      /\ writer' = None /\ order' = order
  BY <1>2, <1>3 DEF Finalize, LevelQueue, QueueIn
<1>5. CASE o.remaining > 0 /\ o.type = "LIMIT"
  <2>1. o \in Order /\ o = order[id] /\ id \in DOMAIN order /\ id \in OrderIds
    BY <1>1, <1>2 DEF WriterOK, Incoming
  <2>2. o.side \in Sides /\ o.price \in Prices
    BY <1>5, <2>1 DEF BookTypeOK, Order
  <2>3. future[id] = None
    BY <1>1, <1>2 DEF OnWriter
  <2>4. \A n \in DOMAIN arrivals : arrivals[n] # id
    BY <2>3 DEF Arrived
  <2>5. id \notin index
    BY <2>4 DEF Arrived
  <2>6. RestStep(id, o)
    BY <1>1, <1>3, <1>4, <1>5, <2>1, <2>2, <2>4, <2>5 DEF RestStep
  <2> QED
    BY <1>2, <1>5, <2>6
<1>6. CASE ~ (o.remaining > 0 /\ o.type = "LIMIT")
  BY <1>1, <1>2, <1>4, <1>6 DEF NoRestStep
<1> QED
  BY <1>5, <1>6

\* Without a level at work nothing is held aside, and no level is empty.
LEMMA NoWorkNoHeld ==
  ASSUME QueuesLineUp, writer = None \/ ~ writer.open
  PROVE  /\ \A s, p : HeldAside(s, p) = <<>>
         /\ \A s \in Sides : \A p \in DOMAIN levels[s] : levels[s][p] # <<>>
BY DEF HeldAside, AtWork, QueuesLineUp

\* Between two submissions a line is a queue.
LEMMA IdleLines ==
  ASSUME BookTypeOK, writer = None \/ ~ writer.open, NEW s \in Sides, NEW p \in Prices
  PROVE  Line(s, p) = LevelQueue(s, p)
<1>1. HeldAside(s, p) = <<>>
  BY DEF HeldAside, AtWork
<1> QED
  BY <1>1, LevelsTyped, LineEnds DEF Line

\* The rested order is the last to arrive, and last in its line.
LEMMA FinalizeLinesUp ==
  ASSUME BookTypeOK, OnWriter, QueuesLineUp, Arrived, Finalize
  PROVE  QueuesLineUp'
<1>1. CASE Incoming.remaining > 0 /\ Incoming.type = "LIMIT"
  <2>1. PICK id, o : RestStep(id, o)
    BY <1>1, FinalizeRests
  <2>2. PICK side, price, q : side = o.side /\ price = o.price /\ q = LevelQueue(side, price)
    OBVIOUS
  <2>3. /\ side \in Sides /\ price \in Prices /\ q \in Seq(OrderIds) /\ id \in OrderIds
        /\ LevelsOK(levels)
    BY <2>1, <2>2, LevelsTyped DEF RestStep
  <2>4. PICK more : more = Append(q, id)
    OBVIOUS
  <2>5. more \in Seq(OrderIds) /\ more # <<>>
    BY <2>3, <2>4
  <2>6. levels' = WithLevel(side, price, more)
    BY <2>1, <2>2, <2>4 DEF RestStep
  <2>7. /\ Replaced(levels', levels, side, price, more)
        /\ \A r \in Prices : r \in DOMAIN levels'[side] <=>
             IF r = price THEN more # <<>> ELSE r \in DOMAIN levels[side]
    BY <2>3, <2>5, <2>6, WithLevelReplaces
  <2>8. ASSUME NEW s \in Sides, NEW p \in Prices
        PROVE  LinesUp(arrivals', Line(s, p)', RestingAt(s, p)')
    <3>1. Line(s, p) = LevelQueue(s, p)
      BY <2>1, IdleLines DEF RestStep
    <3>2. LevelQueue(s, p)' = IF s = side /\ p = price THEN more ELSE LevelQueue(s, p)
      BY <2>7 DEF Replaced, LevelQueue
    <3>3. HeldAside(s, p)' = <<>> /\ LevelQueue(s, p)' \in Seq(OrderIds)
      BY <2>1, <2>5, <3>2, LevelsTyped DEF HeldAside, AtWork, RestStep
    <3>4. Line(s, p)' = LevelQueue(s, p)'
      BY <3>3, LineEnds DEF Line
    <3>5. LinesUp(arrivals, Line(s, p), RestingAt(s, p)) /\ Lists(arrivals, RestingAt(s, p))
      BY ArrivedLists DEF QueuesLineUp
    <3>6. \A n \in DOMAIN arrivals : arrivals[n] # id
      BY <2>1 DEF RestStep
    <3>7. /\ LinesUp(Append(arrivals, id), Line(s, p), RestingAt(s, p))
          /\ LinesUp(Append(arrivals, id), Append(Line(s, p), id), RestingAt(s, p) \cup {id})
      BY <2>3, <3>5, <3>6, LineLonger
    <3>8. RestingAt(s, p)' = IF s = side /\ p = price THEN RestingAt(s, p) \cup {id}
                             ELSE RestingAt(s, p)
      BY <2>1, <2>2 DEF RestingAt, RestStep
    <3> QED
      BY <2>1, <2>2, <2>4, <3>1, <3>2, <3>4, <3>7, <3>8 DEF RestStep
  <2>9. ASSUME NEW s \in Sides, NEW p \in DOMAIN levels'[s]
        PROVE  levels'[s][p] # <<>>
    <3>0. p \in Prices
      BY <2>7 DEF Replaced, LevelsOK
    <3>1. CASE s = side /\ p = price
      BY <2>5, <2>7, <3>0, <3>1 DEF Replaced, QueueIn
    <3>2. CASE ~ (s = side /\ p = price)
      <4>1. p \in DOMAIN levels[s] /\ levels'[s][p] = levels[s][p]
        BY <2>7, <3>2 DEF Replaced
      <4> QED
        BY <2>1, <4>1, NoWorkNoHeld DEF RestStep
    <3> QED
      BY <3>1, <3>2
  <2> QED
    BY <2>8, <2>9 DEF QueuesLineUp
<1>2. CASE ~ (Incoming.remaining > 0 /\ Incoming.type = "LIMIT")
  <2>1. NoRestStep
    BY <1>2, FinalizeRests
  <2>2. ASSUME NEW s \in Sides, NEW p \in Prices
        PROVE  Line(s, p)' = Line(s, p) /\ RestingAt(s, p)' = RestingAt(s, p)
    BY <2>1 DEF NoRestStep, Line, HeldAside, AtWork, LevelQueue, RestingAt
  <2>3. \A s \in Sides, p \in Prices : LinesUp(arrivals', Line(s, p)', RestingAt(s, p)')
    BY <2>1, <2>2 DEF NoRestStep, QueuesLineUp
  <2>4. \A s \in Sides : \A p \in DOMAIN levels'[s] : levels'[s][p] # <<>>
    BY <2>1, NoWorkNoHeld DEF NoRestStep
  <2> QED
    BY <2>3, <2>4 DEF QueuesLineUp
<1> QED
  BY <1>1, <1>2

\* A cancel takes exactly the cancelled order out of its line.
LEMMA CancelLinesUp ==
  ASSUME BookTypeOK, QueuesLineUp, Arrived, NEW id, CancelById(id)
  PROVE  QueuesLineUp'
<1>1. writer = None /\ UNCHANGED <<order, writer, arrivals>>
  BY DEF CancelById
<1>2. CASE id \in index
  <2>1. PICK side, price : side = order[id].side /\ price = order[id].price
    OBVIOUS
  <2>2. id \in DOMAIN order /\ order[id] \in Order /\ order[id].type = "LIMIT"
    BY <1>2 DEF BookTypeOK, Arrived
  <2>3. side \in Sides /\ price \in Prices
    BY <2>1, <2>2 DEF BookTypeOK, Order
  <2>4. PICK line : line = LevelQueue(side, price)
    OBVIOUS
  <2>5. /\ LinesUp(arrivals, line, RestingAt(side, price))
        /\ Lists(arrivals, RestingAt(side, price)) /\ line \in Seq(OrderIds)
    BY <1>1, <2>3, <2>4, IdleLines, ArrivedLists, LevelsTyped DEF QueuesLineUp
  <2>6. id \in RestingAt(side, price)
    BY <1>2, <2>1 DEF RestingAt
  <2>7. PICK k \in DOMAIN line : line[k] = id
    BY <2>5, <2>6 DEF LinesUp
  <2>8. levels[side][price] = line
    BY <2>4, <2>7 DEF LevelQueue, QueueIn
  <2>9. PICK rest : rest = Without(line, id)
    OBVIOUS
  <2>10. /\ rest \in Seq(OrderIds) /\ Len(rest) = Len(line) - 1
         /\ \A n \in 1..Len(rest) : rest[n] = IF n < k THEN line[n] ELSE line[n + 1]
    <3>1. \A n \in DOMAIN line : line[n] = line[k] => n = k
      BY <2>5, LineApart
    <3> QED
      BY <2>5, <2>7, <2>9, <3>1, WithoutThere
  <2>11. LinesUp(arrivals, rest, RestingAt(side, price) \ {id})
    BY <2>5, <2>7, <2>10, LineShorter
  <2>12. index' = index \ {id} /\ levels' = WithLevel(side, price, rest)
    BY <1>2, <2>1, <2>8, <2>9 DEF CancelById
  <2>13. /\ Replaced(levels', levels, side, price, rest)
         /\ \A r \in Prices : r \in DOMAIN levels'[side] <=>
              IF r = price THEN rest # <<>> ELSE r \in DOMAIN levels[side]
    BY <2>3, <2>10, <2>12, LevelsTyped, WithLevelReplaces
  <2>14. ASSUME NEW s \in Sides, NEW p \in Prices
         PROVE  LinesUp(arrivals', Line(s, p)', RestingAt(s, p)')
    <3>1. Line(s, p) = LevelQueue(s, p)
      BY <1>1, IdleLines
    <3>2. LevelQueue(s, p)' = IF s = side /\ p = price THEN rest ELSE LevelQueue(s, p)
      BY <2>13 DEF Replaced, LevelQueue
    <3>3. HeldAside(s, p)' = <<>> /\ LevelQueue(s, p)' \in Seq(OrderIds)
      BY <1>1, <2>10, <3>2, LevelsTyped DEF HeldAside, AtWork
    <3>4. Line(s, p)' = LevelQueue(s, p)'
      BY <3>3, LineEnds DEF Line
    <3>5. RestingAt(s, p)' = IF s = side /\ p = price THEN RestingAt(s, p) \ {id}
                             ELSE RestingAt(s, p)
      BY <1>1, <2>1, <2>12 DEF RestingAt
    <3>6. LinesUp(arrivals, Line(s, p), RestingAt(s, p))
      BY DEF QueuesLineUp
    <3> QED
      BY <1>1, <2>11, <3>1, <3>2, <3>4, <3>5, <3>6
  <2>15. ASSUME NEW s \in Sides, NEW p \in DOMAIN levels'[s]
         PROVE  levels'[s][p] # <<>>
    <3>0. p \in Prices
      BY <2>13 DEF Replaced, LevelsOK
    <3>1. CASE s = side /\ p = price
      BY <2>13, <3>0, <3>1 DEF Replaced, QueueIn
    <3>2. CASE ~ (s = side /\ p = price)
      <4>1. p \in DOMAIN levels[s] /\ levels'[s][p] = levels[s][p]
        BY <2>13, <3>2 DEF Replaced
      <4> QED
        BY <1>1, <4>1, NoWorkNoHeld
    <3> QED
      BY <3>1, <3>2
  <2> QED
    BY <2>14, <2>15 DEF QueuesLineUp
<1>3. CASE id \notin index
  <2>1. UNCHANGED <<index, levels>>
    BY <1>3 DEF CancelById
  <2>2. \A s \in Sides, p \in Prices :
          Line(s, p)' = Line(s, p) /\ RestingAt(s, p)' = RestingAt(s, p)
    BY <1>1, <2>1 DEF Line, HeldAside, AtWork, LevelQueue, RestingAt
  <2> QED
    BY <1>1, <2>1, <2>2 DEF QueuesLineUp, AtWork
<1> QED
  BY <1>2, <1>3

-----------------------------------------------------------------------------
(* A new order. *)

\* A new order joins the heap; the ones there stay as they are.
NewOrder(id, client, o) ==
  /\ id \in OrderIds \ DOMAIN order /\ client \in Nat /\ o \in NewOrders
  /\ Construct(id, client, o)
  /\ UNCHANGED <<levels, index, tradeSeq, writer, trades, future, arrivals>>

\* A new Order leaves the others on the heap as they are.
LEMMA NewOrderHeap ==
  ASSUME NEW id, NEW client, NEW o, NewOrder(id, client, o)
  PROVE  /\ DOMAIN order' = DOMAIN order \cup {id}
         /\ \A i \in DOMAIN order : i # id /\ order'[i] = order[i]
         /\ order'[id] \in Order /\ order'[id].remaining = order'[id].quantity
         /\ (order'[id].type = "MARKET" <=> order'[id].price = 0)
<1>1. PICK x : x = [client |-> client, account |-> o.account, side |-> o.side, type |-> o.type,
                    price |-> o.price, quantity |-> o.quantity, remaining |-> o.quantity]
  OBVIOUS
<1>2. order' = Put(order, id, x)
  BY <1>1 DEF NewOrder, Construct
<1>3. x \in Order /\ x.remaining = x.quantity /\ (x.type = "MARKET" <=> x.price = 0)
  <2>1. /\ o \in [account : Accounts, side : Sides, type : Types, price : Prices \cup {0},
                  quantity : Quantities]
        /\ (o.type = "MARKET" <=> o.price = 0)
    BY DEF NewOrder, NewOrders
  <2>2. o.quantity \in Nat
    BY <2>1, OrderBookAssumption
  <2> QED
    BY <1>1, <2>1, <2>2 DEF NewOrder, Order
<1> QED
  BY <1>2, <1>3 DEF Put, NewOrder

\* A new Order that has not reached the writer is in no line.
LEMMA NewOrderLinesUp ==
  ASSUME BookTypeOK, QueuesLineUp, NEW id, NEW client, NEW o, NewOrder(id, client, o)
  PROVE  QueuesLineUp'
<1>1. UNCHANGED <<levels, index, writer, arrivals>>
  BY DEF NewOrder
<1>2. \A i \in DOMAIN order : order'[i] = order[i]
  BY NewOrderHeap
<1>3. \A s, p : AtWork(s, p)' <=> AtWork(s, p)
  BY <1>1, <1>2 DEF BookTypeOK, AtWork, Opp, Incoming
<1>4. \A s, p : HeldAside(s, p)' = HeldAside(s, p)
  BY <1>1, <1>3 DEF HeldAside
<1>5. \A s, p : LevelQueue(s, p)' = LevelQueue(s, p)
  BY <1>1 DEF LevelQueue
<1>6. \A s \in Sides, p \in Prices : Line(s, p)' = Line(s, p)
  BY <1>4, <1>5 DEF Line
<1>7. \A s \in Sides, p \in Prices : RestingAt(s, p)' = RestingAt(s, p)
  BY <1>1, <1>2 DEF RestingAt, BookTypeOK
<1>8. \A s \in Sides, p \in Prices : LinesUp(arrivals', Line(s, p)', RestingAt(s, p)')
  BY <1>1, <1>6, <1>7, SameLinesLineUp
<1> QED
  BY <1>1, <1>3, <1>8 DEF QueuesLineUp

-----------------------------------------------------------------------------
(* The types after each step. *)

\* BookTypeOK, step by step: submit() starts.
LEMMA StartTypeOK ==
  ASSUME BookTypeOK, NEW id \in DOMAIN order, StartSubmit(id)
  PROVE  BookTypeOK' /\ writer' # None
<1>1. /\ writer' = [id |-> id, at |-> None, open |-> FALSE, held |-> <<>>]
      /\ trades' = <<>> /\ UNCHANGED <<levels, index, order, tradeSeq, future, arrivals>>
  BY DEF StartSubmit
<1>2. id \in OrderIds
  BY DEF BookTypeOK
<1>3. writer' \in Writers /\ writer'.id = id
  BY <1>1, <1>2 DEF Writers
<1>4. trades' \in Seq(Trade)
  BY <1>1
<1>5. writer' # None
  BY <1>3, NoneIsAbsent
<1> QED
  BY <1>1, <1>3, <1>4, <1>5 DEF BookTypeOK

\* NextLevel changes where the writer is.
LEMMA NextLevelWriter ==
  ASSUME BookTypeOK, OnWriter, NextLevel
  PROVE  \E p \in DOMAIN levels[Opp] :
           /\ p \in Prices /\ IsNextLevel(p, Opp, writer.at) /\ Crosses(Incoming, p)
           /\ writer' \in Writers /\ writer' # None /\ writer'.id = writer.id
           /\ writer'.at = p /\ writer'.open /\ writer'.held = <<>>
<1>1. WriterOK /\ ~ writer.open /\ writer # None
  BY WriterFacts DEF NextLevel
<1>2. PICK p \in DOMAIN levels[Opp] :
        /\ IsNextLevel(p, Opp, writer.at) /\ Crosses(Incoming, p)
        /\ writer' = [writer EXCEPT !.at = p, !.open = TRUE]
  BY DEF NextLevel
<1>3. p \in Prices
  BY <1>1, <1>2 DEF BookTypeOK, WriterOK
<1>4. writer \in Writers /\ writer.held = <<>>
  BY <1>1 DEF WriterOK
<1>5. /\ writer' \in Writers /\ writer'.id = writer.id
      /\ writer'.at = p /\ writer'.open /\ writer'.held = <<>>
  BY <1>2, <1>3, <1>4 DEF Writers
<1> QED
  BY <1>2, <1>3, <1>5, NoneIsAbsent

\* The next level is one of the book's.
LEMMA NextLevelTypeOK ==
  ASSUME BookTypeOK, OnWriter, NextLevel
  PROVE  BookTypeOK'
<1>1. writer' \in Writers /\ writer'.id = writer.id /\ writer # None
  BY NextLevelWriter DEF NextLevel
<1>2. UNCHANGED <<levels, index, order, tradeSeq, trades, future, arrivals>>
  BY DEF NextLevel
<1> QED
  BY <1>1, <1>2 DEF BookTypeOK

\* HoldOwn takes the front of the queue off.
LEMMA HoldOwnLevels ==
  ASSUME BookTypeOK, OnWriter, HoldOwn
  PROVE  LevelsOK(levels') /\ \A s \in Sides : DOMAIN levels'[s] = DOMAIN levels[s]
BY FrontTaken DEF HoldOwn

\* What is held aside are order ids.
LEMMA HoldOwnTypeOK ==
  ASSUME BookTypeOK, OnWriter, HoldOwn
  PROVE  BookTypeOK'
<1>1. writer' \in Writers /\ writer'.id = writer.id /\ writer # None
  BY HoldOwnWriter DEF HoldOwn, Matching
<1>2. UNCHANGED <<index, order, tradeSeq, trades, future, arrivals>>
  BY DEF HoldOwn
<1>3. LevelsOK(levels')
  BY HoldOwnLevels
<1> QED
  BY <1>1, <1>2, <1>3 DEF BookTypeOK, LevelsOK

\* CloseLevel leaves the writer between two levels.
LEMMA CloseLevelWriter ==
  ASSUME BookTypeOK, OnWriter, CloseLevel
  PROVE  /\ writer' \in Writers /\ writer' # None /\ writer'.id = writer.id
         /\ writer'.at = writer.at /\ ~ writer'.open /\ writer'.held = <<>>
<1>1. writer \in Writers
  BY DEF BookTypeOK, CloseLevel
<1>2a. <<>> \in Seq(OrderIds)
  OBVIOUS
<1>2. PICK none : none = <<>> /\ none \in Seq(OrderIds)
  BY <1>2a
<1>3. /\ writer' \in Writers /\ writer'.id = writer.id
      /\ writer'.at = writer.at /\ ~ writer'.open /\ writer'.held = <<>>
  <2>1. writer' = [writer EXCEPT !.open = FALSE, !.held = none]
    BY <1>2 DEF CloseLevel
  <2> QED
    BY <1>1, <1>2, <2>1 DEF Writers
<1> QED
  BY <1>3, NoneIsAbsent

\* The restored queue holds order ids.
LEMMA CloseLevelTypeOK ==
  ASSUME BookTypeOK, OnWriter, CloseLevel
  PROVE  BookTypeOK'
<1>1. writer' \in Writers /\ writer'.id = writer.id /\ writer # None
  BY CloseLevelWriter DEF CloseLevel
<1>2. UNCHANGED <<index, order, tradeSeq, trades, future, arrivals>>
  BY DEF CloseLevel
<1>3. LevelsOK(levels')
  BY CloseLevelReplaces DEF Replaced
<1> QED
  BY <1>1, <1>2, <1>3 DEF BookTypeOK, LevelsOK

\* The trade of a step, and the levels after it.
LEMMA TradeIsTyped ==
  ASSUME BookTypeOK, OnWriter, writer # None, writer.open, NEW r, NEW n, TradeOf(r, n)
  PROVE  /\ MakeTrade(r, n) \in Trade
         /\ MakeTrade(r, n).tradeId = tradeSeq + 1 /\ MakeTrade(r, n).quantity = n
         /\ MakeTrade(r, n).price = writer.at
         /\ {MakeTrade(r, n).buyOrder, MakeTrade(r, n).sellOrder} = {writer.id, r}
<1>1. WriterOK
  BY WriterFacts
<1>2. PICK buyId, sellId :
        /\ buyId = IF Incoming.side = "BUY" THEN writer.id ELSE r
        /\ sellId = IF Incoming.side = "BUY" THEN r ELSE writer.id
  OBVIOUS
<1>3. MakeTrade(r, n) =
        [tradeId |-> tradeSeq + 1, price |-> writer.at, quantity |-> n,
         buyOrder |-> buyId, sellOrder |-> sellId,
         buyAccount |-> order[buyId].account, sellAccount |-> order[sellId].account]
  BY <1>2 DEF MakeTrade
<1>4. /\ {buyId, sellId} = {writer.id, r} /\ buyId \in DOMAIN order /\ sellId \in DOMAIN order
  BY <1>1, <1>2 DEF WriterOK, TradeOf
<1>5. /\ buyId \in OrderIds /\ sellId \in OrderIds
      /\ order[buyId].account \in Accounts /\ order[sellId].account \in Accounts
  BY <1>4 DEF BookTypeOK, Order
<1>6. tradeSeq + 1 \in Nat /\ writer.at \in Prices /\ n \in Nat \ {0}
  BY <1>1 DEF BookTypeOK, WriterOK, TradeOf
<1> QED
  BY <1>3, <1>4, <1>5, <1>6 DEF Trade

\* TradeFront changes the queue it works on, if any.
LEMMA TradeFrontLevels ==
  ASSUME BookTypeOK, OnWriter, TradeFront
  PROVE  LevelsOK(levels') /\ \A s \in Sides : DOMAIN levels'[s] = DOMAIN levels[s]
<1>1. levels' = levels \/ levels' = [levels EXCEPT ![Opp][writer.at] = Tail(@)]
  BY DEF TradeFront
<1>2. Matching
  BY DEF TradeFront
<1>3. CASE levels' = levels
  BY <1>3, LevelsTyped
<1>4. CASE levels' = [levels EXCEPT ![Opp][writer.at] = Tail(@)]
  BY <1>2, <1>4, FrontTaken
<1> QED
  BY <1>1, <1>3, <1>4

\* A fill reports a trade and leaves both orders well formed.
LEMMA TradeFrontTypeOK ==
  ASSUME BookTypeOK, OnWriter, QueuesLineUp, Arrived, TradeFront
  PROVE  BookTypeOK'
<1>1. writer # None /\ writer.open
  BY DEF TradeFront, Matching
<1>2. PICK r, n : TradeOf(r, n)
  BY TradeFrontIsTrade
<1>3. MakeTrade(r, n) \in Trade
  BY <1>1, <1>2, TradeIsTyped
<1>4. trades' \in Seq(Trade)
  BY <1>2, <1>3 DEF TradeOf, BookTypeOK
<1>5. LevelsOK(levels')
  BY TradeFrontLevels
<1>6. tradeSeq' \in Nat /\ index' \subseteq index /\ UNCHANGED <<writer, future, arrivals>>
  BY <1>2 DEF TradeOf, BookTypeOK
<1>7. /\ DOMAIN order' = DOMAIN order
      /\ \A i \in DOMAIN order :
           /\ order'[i] \in Order
           /\ order'[i].type = order[i].type /\ order'[i].price = order[i].price
           /\ order'[i].quantity = order[i].quantity
           /\ order'[i].remaining = order[i].remaining - (IF i \in {writer.id, r} THEN n ELSE 0)
  BY <1>2 DEF TradeOf, BothLose, SameTerms
<1>8. ASSUME NEW i \in DOMAIN order'
      PROVE  /\ order'[i] \in Order /\ order'[i].remaining <= order'[i].quantity
             /\ (order'[i].type = "MARKET" <=> order'[i].price = 0)
  <2>1. /\ order[i] \in Order /\ order[i].remaining <= order[i].quantity
        /\ (order[i].type = "MARKET" <=> order[i].price = 0)
    BY <1>7 DEF BookTypeOK
  <2>2. order[i].remaining \in Nat /\ order[i].quantity \in Nat /\ n \in Nat
    BY <1>2, <2>1, OrderBookAssumption DEF Order, TradeOf
  <2> QED
    BY <1>7, <2>1, <2>2
<1> QED
  BY <1>4, <1>5, <1>6, <1>7, <1>8 DEF BookTypeOK, LevelsOK

\* The answer of a submission.
LEMMA FinalizeResult ==
  ASSUME BookTypeOK, OnWriter, Finalize
  PROVE  LET res == [status |-> ResultStatus(Incoming),
                     filled |-> Incoming.quantity - Incoming.remaining, trades |-> trades] IN
         /\ res \in Results /\ res # None /\ future' = [future EXCEPT ![writer.id] = res]
<1>1. WriterOK /\ writer # None
  BY WriterFacts DEF Finalize, MatchingDone
<1>2. PICK res : res = [status |-> ResultStatus(Incoming),
                        filled |-> Incoming.quantity - Incoming.remaining, trades |-> trades]
  OBVIOUS
<1>3. Incoming.quantity - Incoming.remaining \in Nat
  <2>1. Incoming.remaining <= Incoming.quantity
    BY <1>1 DEF BookTypeOK, WriterOK, Incoming
  <2>2. Incoming.remaining \in Nat /\ Incoming.quantity \in Nat
    BY <1>1, OrderBookAssumption DEF Order, WriterOK
  <2> QED
    BY <2>1, <2>2
<1>4. ResultStatus(Incoming) \in {"FILLED", "PARTIALLY_FILLED", "REJECTED", "ACCEPTED"}
  BY DEF ResultStatus
<1>5. trades \in Seq(Trade)
  BY DEF BookTypeOK
<1>6. res \in Results
  BY <1>2, <1>3, <1>4, <1>5 DEF Results
<1>7. future' = [future EXCEPT ![writer.id] = res]
  BY <1>2 DEF Finalize
<1> QED
  BY <1>2, <1>6, <1>7, NoneIsAbsent

\* The result is a MatchResult, whatever rests.
LEMMA FinalizeTypeOK ==
  ASSUME BookTypeOK, OnWriter, Arrived, Finalize
  PROVE  BookTypeOK'
<1>1. WriterOK
  BY WriterFacts DEF Finalize, MatchingDone
<1>2. future' \in [OrderIds -> Results \cup {None}]
  BY <1>1, FinalizeResult DEF BookTypeOK, WriterOK
<1>3. writer' = None /\ trades' = <<>> /\ order' = order /\ tradeSeq' = tradeSeq
  BY DEF Finalize
<1>4. LevelsOK(levels') /\ index' \subseteq DOMAIN order
  <2>1. CASE Incoming.remaining > 0 /\ Incoming.type = "LIMIT"
    <3>1. PICK id, o : RestStep(id, o)
      BY <2>1, FinalizeRests
    <3>2. PICK side, price, more :
            side = o.side /\ price = o.price /\ more = Append(LevelQueue(side, price), id)
      OBVIOUS
    <3>3. side \in Sides /\ price \in Prices /\ id \in OrderIds
      BY <3>1, <3>2 DEF RestStep
    <3>4. more \in Seq(OrderIds) /\ LevelsOK(levels)
      BY <3>2, <3>3, LevelsTyped
    <3>5. levels' = WithLevel(side, price, more)
      BY <3>1, <3>2 DEF RestStep
    <3>6. LevelsOK(levels')
      BY <3>3, <3>4, <3>5, WithLevelReplaces DEF Replaced
    <3> QED
      BY <3>1, <3>6 DEF RestStep, BookTypeOK
  <2>2. CASE ~ (Incoming.remaining > 0 /\ Incoming.type = "LIMIT")
    BY <2>2, FinalizeRests, LevelsTyped DEF NoRestStep, BookTypeOK
  <2> QED
    BY <2>1, <2>2
<1> QED
  BY <1>2, <1>3, <1>4 DEF BookTypeOK, LevelsOK

\* A cancel replaces one queue by one that is shorter, or does nothing.
LEMMA CancelLevels ==
  ASSUME BookTypeOK, QueuesLineUp, Arrived, NEW id, CancelById(id)
  PROVE  /\ LevelsOK(levels') /\ index' \subseteq index
         /\ \A s \in Sides : DOMAIN levels'[s] \subseteq DOMAIN levels[s]
<1>1. CASE id \in index
  <2>1. PICK side, price : side = order[id].side /\ price = order[id].price
    OBVIOUS
  <2>2. id \in DOMAIN order /\ order[id] \in Order /\ order[id].type = "LIMIT"
    BY <1>1 DEF BookTypeOK, Arrived
  <2>3. side \in Sides /\ price \in Prices
    BY <2>1, <2>2 DEF BookTypeOK, Order
  <2>4. PICK line : line = LevelQueue(side, price)
    OBVIOUS
  <2>5. /\ LinesUp(arrivals, line, RestingAt(side, price))
        /\ Lists(arrivals, RestingAt(side, price)) /\ line \in Seq(OrderIds)
    BY <2>3, <2>4, IdleLines, ArrivedLists, LevelsTyped DEF QueuesLineUp, CancelById
  <2>6. id \in RestingAt(side, price)
    BY <1>1, <2>1 DEF RestingAt
  <2>7. PICK k \in DOMAIN line : line[k] = id
    BY <2>5, <2>6 DEF LinesUp
  <2>8. levels[side][price] = line /\ price \in DOMAIN levels[side]
    BY <2>4, <2>7 DEF LevelQueue, QueueIn
  <2>9. PICK rest : rest = Without(line, id)
    OBVIOUS
  <2>10. rest \in Seq(OrderIds)
    <3>1. \A n \in DOMAIN line : line[n] = line[k] => n = k
      BY <2>5, LineApart
    <3> QED
      BY <2>5, <2>7, <2>9, <3>1, WithoutThere
  <2>11. index' = index \ {id} /\ levels' = WithLevel(side, price, rest)
    BY <1>1, <2>1, <2>8, <2>9 DEF CancelById
  <2>12. /\ Replaced(levels', levels, side, price, rest)
         /\ \A r \in Prices : r \in DOMAIN levels'[side] <=>
              IF r = price THEN rest # <<>> ELSE r \in DOMAIN levels[side]
    BY <2>3, <2>10, <2>11, LevelsTyped, WithLevelReplaces
  <2>13. ASSUME NEW s \in Sides, NEW p \in DOMAIN levels'[s] PROVE p \in DOMAIN levels[s]
    <3>1. CASE s = side /\ p = price
      BY <2>8, <3>1
    <3>2. CASE ~ (s = side /\ p = price)
      BY <2>12, <3>2 DEF Replaced
    <3> QED
      BY <3>1, <3>2
  <2> QED
    BY <2>11, <2>12, <2>13 DEF Replaced
<1>2. CASE id \notin index
  BY <1>2, LevelsTyped DEF CancelById
<1> QED
  BY <1>1, <1>2

\* A cancel takes out of the book only.
LEMMA CancelTypeOK ==
  ASSUME BookTypeOK, QueuesLineUp, Arrived, NEW id, CancelById(id)
  PROVE  BookTypeOK'
<1>1. LevelsOK(levels') /\ index' \subseteq index
  BY CancelLevels
<1>2. UNCHANGED <<order, tradeSeq, writer, trades, future, arrivals>>
  BY DEF CancelById
<1> QED
  BY <1>1, <1>2 DEF BookTypeOK, LevelsOK

\* A new Order is well formed.
LEMMA NewOrderTypeOK ==
  ASSUME BookTypeOK, NEW id, NEW client, NEW o, NewOrder(id, client, o)
  PROVE  BookTypeOK'
<1>1. UNCHANGED <<levels, index, tradeSeq, writer, trades, future, arrivals>> /\ id \in OrderIds
  BY DEF NewOrder
<1>2. /\ DOMAIN order' = DOMAIN order \cup {id}
      /\ \A i \in DOMAIN order : i # id /\ order'[i] = order[i]
      /\ order'[id] \in Order /\ order'[id].remaining = order'[id].quantity
      /\ (order'[id].type = "MARKET" <=> order'[id].price = 0)
  BY NewOrderHeap
<1>3. order'[id].remaining <= order'[id].quantity
  BY <1>2 DEF Order
<1>4. \A i \in DOMAIN order' : /\ order'[i] \in Order
                               /\ order'[i].remaining <= order'[i].quantity
                               /\ (order'[i].type = "MARKET" <=> order'[i].price = 0)
  BY <1>2, <1>3 DEF BookTypeOK
<1> QED
  BY <1>1, <1>2, <1>4 DEF BookTypeOK

-----------------------------------------------------------------------------
(* The orders that rested, after each step. *)

\* An order without a result is not resting, and has not rested.
LEMMA NotResting ==
  ASSUME Arrived, NEW id, future[id] = None
  PROVE  id \notin index /\ \A n \in DOMAIN arrivals : arrivals[n] # id
BY DEF Arrived

\* Arrived speaks of the index, the orders and what arrived.
LEMMA SameArrived ==
  ASSUME Arrived, BookTypeOK, UNCHANGED <<arrivals, future>>, index' \subseteq index,
         DOMAIN order \subseteq DOMAIN order',
         \A i \in index' : order'[i].remaining = order[i].remaining /\ order'[i].type = order[i].type
  PROVE  Arrived'
BY DEF Arrived

\* What still rests after a fill has something left.
LEMMA TradeFrontArrived ==
  ASSUME BookTypeOK, OnWriter, QueuesLineUp, Arrived, TradeFront
  PROVE  Arrived'
<1>1. WriterOK /\ writer # None
  BY WriterFacts DEF TradeFront, Matching
<1>2. PICK r, n : TradeOf(r, n)
  BY TradeFrontIsTrade
<1>3. UNCHANGED <<arrivals, future>>
  BY <1>2 DEF TradeOf
<1>4. writer.id \notin index
  BY <1>1, NotResting DEF OnWriter
<1>5. ASSUME NEW i \in index' PROVE order'[i].remaining > 0 /\ order'[i].type = "LIMIT" /\ i \in index
  <2>1. i \in index /\ i # writer.id /\ (i = r => order[r].remaining # n)
    BY <1>2, <1>4 DEF TradeOf
  <2>2. /\ i \in DOMAIN order /\ order[i].remaining > 0 /\ order[i].type = "LIMIT"
        /\ order[i].remaining \in Nat
    BY <2>1 DEF Arrived, BookTypeOK, Order
  <2>3. /\ order'[i].type = order[i].type
        /\ order'[i].remaining = order[i].remaining - (IF i \in {writer.id, r} THEN n ELSE 0)
    BY <1>2, <2>2 DEF TradeOf, BothLose, SameTerms
  <2>4. n \in Nat /\ n <= order[r].remaining
    BY <1>2 DEF TradeOf
  <2>5. CASE i = r
    BY <2>1, <2>2, <2>3, <2>4, <2>5
  <2>6. CASE i # r
    BY <2>1, <2>2, <2>3, <2>6
  <2> QED
    BY <2>1, <2>5, <2>6
<1>6. DOMAIN order' = DOMAIN order
  BY <1>2 DEF TradeOf, BothLose, SameTerms
<1> QED
  BY <1>3, <1>5, <1>6 DEF Arrived

\* The rested order is new to the list and now has its result.
LEMMA FinalizeArrived ==
  ASSUME BookTypeOK, OnWriter, Arrived, Finalize
  PROVE  Arrived'
<1>1. WriterOK /\ writer # None
  BY WriterFacts DEF Finalize, MatchingDone
<1>2. PICK res : /\ res \in Results /\ res # None
                 /\ future' = [future EXCEPT ![writer.id] = res]
  BY FinalizeResult
<1>3. future'[writer.id] # None /\ \A i \in OrderIds : i # writer.id => future'[i] = future[i]
  BY <1>1, <1>2 DEF BookTypeOK, WriterOK
<1>4. order' = order
  BY DEF Finalize
<1>5. CASE Incoming.remaining > 0 /\ Incoming.type = "LIMIT"
  <2>1. PICK id, o : id = writer.id /\ RestStep(id, o)
    BY <1>5, FinalizeRests
  <2>2. /\ id \in OrderIds /\ \A n \in DOMAIN arrivals : arrivals[n] # id
        /\ index' = index \cup {id} /\ arrivals' = Append(arrivals, id)
        /\ order[id].remaining > 0 /\ order[id].type = "LIMIT" /\ id \in DOMAIN order
    BY <2>1 DEF RestStep
  <2>3. arrivals \in Seq(OrderIds) /\ IsInjective(arrivals)
    BY DEF Arrived
  <2>4. /\ arrivals' \in Seq(OrderIds) /\ IsInjective(arrivals')
        /\ \A n \in DOMAIN arrivals : arrivals'[n] = arrivals[n]
    BY <2>2, <2>3, PositionStays
  <2>5. /\ DOMAIN arrivals' = 1..(Len(arrivals) + 1) /\ DOMAIN arrivals = 1..Len(arrivals)
        /\ Len(arrivals) \in Nat /\ arrivals'[Len(arrivals) + 1] = id
    BY <2>2, <2>3
  <2>6. ASSUME NEW i \in index' PROVE /\ \E n \in DOMAIN arrivals' : arrivals'[n] = i
                                      /\ order'[i].remaining > 0 /\ order'[i].type = "LIMIT"
    <3>1. CASE i = id
      BY <1>4, <2>2, <2>5, <3>1
    <3>2. CASE i \in index
      <4>1. PICK n \in DOMAIN arrivals : arrivals[n] = i
        BY <3>2 DEF Arrived
      <4>2. n \in DOMAIN arrivals' /\ arrivals'[n] = i
        BY <2>4, <2>5, <4>1
      <4> QED
        BY <1>4, <3>2, <4>2 DEF Arrived
    <3> QED
      BY <2>2, <3>1, <3>2
  <2>7. ASSUME NEW n \in DOMAIN arrivals'
        PROVE  arrivals'[n] \in DOMAIN order' /\ future'[arrivals'[n]] # None
    <3>1. CASE n = Len(arrivals) + 1
      BY <1>3, <1>4, <2>1, <2>2, <2>5, <3>1
    <3>2. CASE n \in DOMAIN arrivals
      <4>1. arrivals'[n] = arrivals[n] /\ arrivals[n] # writer.id /\ arrivals[n] \in OrderIds
        BY <2>1, <2>2, <2>3, <2>4, <3>2
      <4> QED
        BY <1>3, <1>4, <3>2, <4>1 DEF Arrived
    <3> QED
      BY <2>5, <3>1, <3>2
  <2> QED
    BY <2>4, <2>6, <2>7 DEF Arrived
<1>6. CASE ~ (Incoming.remaining > 0 /\ Incoming.type = "LIMIT")
  <2>1. UNCHANGED <<index, arrivals>>
    BY <1>6, FinalizeRests DEF NoRestStep
  <2>2. \A n \in DOMAIN arrivals : future'[arrivals[n]] # None
    <3>1. ASSUME NEW n \in DOMAIN arrivals PROVE future'[arrivals[n]] # None
      <4>1. arrivals[n] \in OrderIds /\ future[arrivals[n]] # None
        BY DEF Arrived
      <4> QED
        BY <1>3, <4>1
    <3> QED
      BY <3>1
  <2> QED
    BY <1>4, <2>1, <2>2 DEF Arrived
<1> QED
  BY <1>5, <1>6

-----------------------------------------------------------------------------
(* The order on the writer, after each step. *)

\* What is held aside rests in the book, at the level at work.
LEMMA HeldRests ==
  ASSUME BookTypeOK, OnWriter, QueuesLineUp, writer # None, NEW n \in DOMAIN writer.held
  PROVE  writer.held[n] \in index /\ writer.held[n] \in DOMAIN order
<1>1. WriterOK
  BY WriterFacts
<1>2. writer.open
  BY <1>1 DEF WriterOK
<1>3. PICK h, q, a : h = writer.held /\ q = Queue /\ a = writer.at
  OBVIOUS
<1>4. h \in Seq(OrderIds) /\ q \in Seq(OrderIds) /\ a \in Prices /\ Opp \in Sides
  BY <1>1, <1>2, <1>3 DEF WriterOK
<1>5. Line(Opp, a) = h \o q
  BY <1>1, <1>2, <1>3 DEF Line, HeldAside, AtWork, WriterOK
<1>6. n \in DOMAIN Line(Opp, a) /\ Line(Opp, a)[n] = h[n]
  <2>1. /\ h \o q \in Seq(OrderIds) /\ Len(h \o q) = Len(h) + Len(q)
        /\ \A i \in 1..(Len(h) + Len(q)) :
             (h \o q)[i] = IF i <= Len(h) THEN h[i] ELSE q[i - Len(h)]
    BY <1>4, ConcatProperties
  <2>2. n \in 1..Len(h) /\ Len(h) \in Nat /\ Len(q) \in Nat
    BY <1>3, <1>4
  <2> QED
    BY <1>5, <2>1, <2>2
<1>7. h[n] \in RestingAt(Opp, a)
  BY <1>4, <1>6 DEF QueuesLineUp, LinesUp
<1> QED
  BY <1>3, <1>7 DEF RestingAt, BookTypeOK

\* OnWriter, step by step: an order without a result gets on the writer.
LEMMA StartOnWriter ==
  ASSUME BookTypeOK, OnWriter, NEW id \in DOMAIN order, future[id] = None, StartSubmit(id)
  PROVE  OnWriter'
<1>1. /\ writer' = [id |-> id, at |-> None, open |-> FALSE, held |-> <<>>] /\ writer = None
      /\ UNCHANGED <<levels, index, order, tradeSeq, future, arrivals>>
  BY DEF StartSubmit
<1>2. /\ writer'.id = id /\ writer'.at = None /\ ~ writer'.open /\ writer'.held = <<>>
      /\ writer' # None
  BY <1>1, StartTypeOK
<1>3. \A i \in DOMAIN order' : future'[i] = None => order'[i].remaining = order'[i].quantity
  BY <1>1 DEF OnWriter
<1>4. \A i \in OrderIds : future'[i] # None => i \in DOMAIN order'
  BY <1>1 DEF OnWriter
<1>5. DOMAIN writer'.held = {}
  BY <1>2
<1> QED
  BY <1>1, <1>2, <1>3, <1>4, <1>5 DEF OnWriter

\* The level handed out crosses.
LEMMA NextLevelOnWriter ==
  ASSUME BookTypeOK, OnWriter, NextLevel
  PROVE  OnWriter'
<1>1. PICK p \in DOMAIN levels[Opp] :
        /\ p \in Prices /\ Crosses(Incoming, p)
        /\ writer' # None /\ writer'.id = writer.id
        /\ writer'.at = p /\ writer'.open /\ writer'.held = <<>>
  BY NextLevelWriter
<1>2. UNCHANGED <<levels, index, order, tradeSeq, trades, future, arrivals>> /\ writer # None
  BY DEF NextLevel
<1>3. Opp' = Opp /\ Incoming' = Incoming
  BY <1>1, <1>2 DEF Opp, Incoming
<1>4. DOMAIN writer'.held = {}
  BY <1>1
<1>5. Crosses(Incoming', p)
  BY <1>1, <1>3
<1> QED
  BY <1>1, <1>2, <1>3, <1>4, <1>5 DEF OnWriter, Crosses

\* What HoldOwn holds aside is the taker's own.
LEMMA HoldOwnOnWriter ==
  ASSUME BookTypeOK, OnWriter, HoldOwn
  PROVE  OnWriter'
<1>1. /\ writer' # None /\ writer'.held = Append(writer.held, Head(Queue))
      /\ writer'.at = writer.at /\ writer'.open = writer.open /\ writer'.id = writer.id
  BY HoldOwnWriter
<1>2. /\ UNCHANGED <<index, order, tradeSeq, trades, future, arrivals>> /\ writer # None
      /\ writer.open /\ order[Head(Queue)].account = Incoming.account /\ WriterOK
      /\ Queue # <<>>
  BY WriterFacts DEF HoldOwn, Matching
<1>3. Opp' = Opp /\ Incoming' = Incoming
  BY <1>1, <1>2 DEF Opp, Incoming
<1>4. writer'.at \in DOMAIN levels'[Opp']
  BY <1>1, <1>2, <1>3, HoldOwnLevels DEF WriterOK
<1>5. \A n \in DOMAIN writer'.held : order'[writer'.held[n]].account = Incoming'.account
  <2>1. PICK h, x : h = writer.held /\ x = Head(Queue)
    OBVIOUS
  <2>2. h \in Seq(OrderIds) /\ x \in OrderIds
    BY <1>2, <2>1 DEF WriterOK
  <2>3. ASSUME NEW n \in DOMAIN Append(h, x)
        PROVE  order[Append(h, x)[n]].account = Incoming.account
    <3>1. CASE n = Len(h) + 1
      BY <1>2, <2>1, <2>2, <3>1
    <3>2. CASE n \in DOMAIN h
      BY <1>2, <2>1, <2>2, <3>2 DEF OnWriter
    <3> QED
      BY <2>2, <3>1, <3>2
  <2> QED
    BY <1>1, <1>2, <1>3, <2>1, <2>3
<1>6. writer'.at # None => Crosses(Incoming, writer.at)
  BY <1>1, <1>2 DEF OnWriter
<1> QED
  BY <1>1, <1>2, <1>3, <1>4, <1>5, <1>6 DEF OnWriter, Crosses

\* Nothing is held aside between two levels.
LEMMA CloseLevelOnWriter ==
  ASSUME BookTypeOK, OnWriter, CloseLevel
  PROVE  OnWriter'
<1>1. /\ writer' # None /\ writer'.id = writer.id
      /\ writer'.at = writer.at /\ ~ writer'.open /\ writer'.held = <<>>
  BY CloseLevelWriter
<1>2. UNCHANGED <<index, order, tradeSeq, trades, future, arrivals>> /\ writer # None
  BY DEF CloseLevel
<1>3. Opp' = Opp /\ Incoming' = Incoming
  BY <1>1, <1>2 DEF Opp, Incoming
<1>4. DOMAIN writer'.held = {}
  BY <1>1
<1> QED
  BY <1>1, <1>2, <1>3, <1>4 DEF OnWriter, Crosses

\* A fill touches the taker and a resting order, not one that waits.
LEMMA TradeFrontOnWriter ==
  ASSUME BookTypeOK, OnWriter, QueuesLineUp, Arrived, TradeFront
  PROVE  OnWriter'
<1>1. WriterOK /\ writer # None /\ writer.open
  BY WriterFacts DEF TradeFront, Matching
<1>2. PICK r, n : TradeOf(r, n)
  BY TradeFrontIsTrade
<1>3. /\ UNCHANGED <<writer, future, arrivals>> /\ r \in index
      /\ SameTerms(order', order)
      /\ \A i \in DOMAIN order :
           order'[i].remaining = order[i].remaining - (IF i \in {writer.id, r} THEN n ELSE 0)
  BY <1>2 DEF TradeOf, BothLose
<1>4. /\ DOMAIN order' = DOMAIN order
      /\ \A i \in DOMAIN order :
           /\ order'[i].account = order[i].account /\ order'[i].quantity = order[i].quantity
           /\ order'[i].type = order[i].type /\ order'[i].side = order[i].side
           /\ order'[i].price = order[i].price
  BY <1>3 DEF SameTerms
<1>5. /\ Incoming'.account = Incoming.account /\ Incoming'.side = Incoming.side
      /\ Incoming'.type = Incoming.type /\ Incoming'.price = Incoming.price
  BY <1>1, <1>3, <1>4 DEF Incoming, WriterOK
<1>6. Opp' = Opp
  BY <1>5 DEF Opp
<1>7. writer.at \in DOMAIN levels'[Opp]
  BY <1>1, TradeFrontLevels DEF WriterOK
<1>8. writer.at # None => Crosses(Incoming', writer.at)
  BY <1>1, <1>5 DEF OnWriter, Crosses
<1>9. \A m \in DOMAIN writer.held : order'[writer.held[m]].account = Incoming'.account
  BY <1>1, <1>4, <1>5, HeldRests DEF OnWriter
<1>10. ASSUME NEW i \in DOMAIN order', future[i] = None, i # writer.id
       PROVE  order'[i].remaining = order'[i].quantity
  <2>1. i # r
    BY <1>3, <1>10, NotResting
  <2>2. order[i].remaining = order[i].quantity /\ order[i].remaining \in Nat
    BY <1>1, <1>4, <1>10 DEF OnWriter, BookTypeOK, Order
  <2> QED
    BY <1>3, <1>4, <1>10, <2>1, <2>2
<1>11. writer' # None /\ future'[writer'.id] = None
  BY <1>1, <1>3 DEF OnWriter
<1>12. \A i \in OrderIds : future'[i] # None => i \in DOMAIN order'
  BY <1>3, <1>4 DEF OnWriter
<1>13. ~ writer'.open => writer'.held = <<>>
  BY <1>1, <1>3
<1>14. \A i \in DOMAIN order' : future'[i] = None /\ (writer' = None \/ i # writer'.id) =>
         order'[i].remaining = order'[i].quantity
  BY <1>3, <1>10, <1>11
<1>15. /\ writer'.open => writer'.at \in DOMAIN levels'[Opp']
       /\ writer'.at # None => Crosses(Incoming', writer'.at)
       /\ \A m \in DOMAIN writer'.held : order'[writer'.held[m]].account = Incoming'.account
  BY <1>3, <1>6, <1>7, <1>8, <1>9
<1> QED
  BY <1>11, <1>12, <1>13, <1>14, <1>15 DEF OnWriter, Crosses

\* The order leaves the writer with its result.
LEMMA FinalizeOnWriter ==
  ASSUME BookTypeOK, OnWriter, Finalize
  PROVE  OnWriter'
<1>1. WriterOK /\ writer # None
  BY WriterFacts DEF Finalize, MatchingDone
<1>2. PICK res : /\ res \in Results /\ res # None
                 /\ future' = [future EXCEPT ![writer.id] = res]
  BY FinalizeResult
<1>3. future'[writer.id] # None /\ \A i \in OrderIds : i # writer.id => future'[i] = future[i]
  BY <1>1, <1>2 DEF BookTypeOK, WriterOK
<1>4. writer' = None /\ trades' = <<>> /\ order' = order
  BY DEF Finalize
<1>5. \A i \in DOMAIN order : future'[i] = None => order[i].remaining = order[i].quantity
  BY <1>1, <1>3 DEF OnWriter, BookTypeOK
<1>6. \A i \in OrderIds : future'[i] # None => i \in DOMAIN order
  BY <1>1, <1>3 DEF OnWriter, WriterOK
<1> QED
  BY <1>4, <1>5, <1>6 DEF OnWriter

\* A cancel runs while no order is on the writer.
LEMMA CancelOnWriter ==
  ASSUME OnWriter, NEW id, CancelById(id)
  PROVE  OnWriter'
<1>1. writer = None /\ UNCHANGED <<order, tradeSeq, writer, trades, future, arrivals>>
  BY DEF CancelById
<1> QED
  BY <1>1 DEF OnWriter

\* A new Order has not traded.
LEMMA NewOrderOnWriter ==
  ASSUME BookTypeOK, OnWriter, QueuesLineUp, NEW id, NEW client, NEW o, NewOrder(id, client, o)
  PROVE  OnWriter'
<1>1. UNCHANGED <<levels, index, tradeSeq, writer, trades, future, arrivals>>
  BY DEF NewOrder
<1>2. /\ DOMAIN order' = DOMAIN order \cup {id}
      /\ \A i \in DOMAIN order : i # id /\ order'[i] = order[i]
      /\ order'[id].remaining = order'[id].quantity
  BY NewOrderHeap
<1>3. \A i \in DOMAIN order' : future'[i] = None /\ (writer' = None \/ i # writer'.id) =>
        order'[i].remaining = order'[i].quantity
  BY <1>1, <1>2 DEF OnWriter
<1>4. \A i \in OrderIds : future'[i] # None => i \in DOMAIN order'
  BY <1>1, <1>2 DEF OnWriter
<1>5. CASE writer # None
  <2>1. WriterOK
    BY <1>5, WriterFacts
  <2>2. Incoming' = Incoming /\ Opp' = Opp
    BY <1>1, <1>2, <2>1 DEF WriterOK, Incoming, Opp
  <2>3. \A m \in DOMAIN writer.held : order'[writer.held[m]].account = Incoming.account
    BY <1>2, <1>5, HeldRests DEF OnWriter
  <2> QED
    BY <1>1, <1>3, <1>4, <1>5, <2>2, <2>3 DEF OnWriter, Crosses
<1>6. CASE writer = None
  BY <1>1, <1>3, <1>4, <1>6 DEF OnWriter
<1> QED
  BY <1>5, <1>6

-----------------------------------------------------------------------------
(* What the taker has passed, after each step. *)

\* A resting order of a level nobody works on is in the level's queue.
LEMMA RestingQueued ==
  ASSUME BookTypeOK, QueuesLineUp, Arrived, writer = None \/ ~ writer.open, NEW i \in index
  PROVE  /\ order[i].side \in Sides /\ order[i].price \in Prices
         /\ order[i].price \in DOMAIN levels[order[i].side]
<1>1. i \in DOMAIN order /\ order[i] \in Order /\ order[i].type = "LIMIT"
  BY DEF BookTypeOK, Arrived
<1>2. PICK s, p : s = order[i].side /\ p = order[i].price
  OBVIOUS
<1>3. s \in Sides /\ p \in Prices
  BY <1>1, <1>2 DEF BookTypeOK, Order
<1>4. i \in RestingAt(s, p)
  BY <1>2 DEF RestingAt
<1>5. \E n \in DOMAIN LevelQueue(s, p) : LevelQueue(s, p)[n] = i
  BY <1>3, <1>4, IdleLines DEF QueuesLineUp, LinesUp
<1>6. p \in DOMAIN levels[s]
  <2>1. CASE p \notin DOMAIN levels[s]
    <3>1. LevelQueue(s, p) = <<>>
      BY <2>1 DEF LevelQueue, QueueIn
    <3> QED
      BY <1>5, <3>1
  <2> QED
    BY <2>1
<1> QED
  BY <1>2, <1>3, <1>6

\* Of two prices one is ahead of the other.
LEMMA AheadTotal ==
  ASSUME NEW side, NEW p \in Prices, NEW q \in Prices
  PROVE  /\ p # q => Ahead(side, p, q) \/ Ahead(side, q, p)
         /\ ~ (Ahead(side, p, q) /\ Ahead(side, q, p))
<1>1. p \in Nat /\ q \in Nat
  BY OrderBookAssumption
<1> QED
  BY <1>1 DEF Ahead

\* PassedAreOwn, step by step: the iterator has passed nothing at the start.
LEMMA StartPassedOwn ==
  ASSUME BookTypeOK, NEW id \in DOMAIN order, StartSubmit(id)
  PROVE  PassedAreOwn'
<1>1. writer' = [id |-> id, at |-> None, open |-> FALSE, held |-> <<>>]
  BY DEF StartSubmit
<1>2. writer'.at = None
  BY <1>1
<1> QED
  BY <1>2 DEF PassedAreOwn, Passed

\* The iterator skips no level.
LEMMA NextLevelPassedOwn ==
  ASSUME BookTypeOK, QueuesLineUp, Arrived, OnWriter, PassedAreOwn, NextLevel
  PROVE  PassedAreOwn'
<1>1. WriterOK /\ writer # None /\ ~ writer.open /\ Incoming.remaining > 0
  BY WriterFacts DEF NextLevel
<1>2. PICK p \in DOMAIN levels[Opp] :
        /\ p \in Prices /\ IsNextLevel(p, Opp, writer.at)
        /\ writer'.id = writer.id /\ writer'.at = p /\ writer'.open
  BY NextLevelWriter
<1>3. UNCHANGED <<index, order>> /\ Opp' = Opp /\ Incoming' = Incoming
  BY <1>2 DEF NextLevel, Opp, Incoming
<1>4. ASSUME NEW i \in index, order[i].side = Opp, Passed(order[i].price)'
      PROVE  order[i].account = Incoming.account
  <2>1. PICK x : x = order[i].price
    OBVIOUS
  <2>2. x \in Prices /\ x \in DOMAIN levels[Opp]
    BY <1>1, <1>4, <2>1, RestingQueued
  <2>3. Ahead(Opp, x, p)
    BY <1>2, <1>3, <1>4, <2>1 DEF Passed
  <2>4. x # p /\ ~ Ahead(Opp, p, x)
    BY <1>2, <2>2, <2>3, AheadTotal, OrderBookAssumption DEF Ahead
  <2>5. x \notin Unvisited(Opp, writer.at)
    BY <1>2, <2>4 DEF IsNextLevel
  <2>6. writer.at # None /\ ~ Ahead(Opp, writer.at, x) /\ writer.at \in Prices
    BY <1>1, <2>2, <2>5 DEF Unvisited, WriterOK
  <2>7. x = writer.at \/ Ahead(Opp, x, writer.at)
    BY <2>2, <2>6, AheadTotal
  <2>8. Passed(x)
    BY <1>1, <2>6, <2>7 DEF Passed
  <2> QED
    BY <1>1, <1>4, <2>1, <2>8 DEF PassedAreOwn
<1> QED
  BY <1>3, <1>4 DEF PassedAreOwn

\* Holding aside passes nothing.
LEMMA HoldOwnPassedOwn ==
  ASSUME BookTypeOK, OnWriter, PassedAreOwn, HoldOwn
  PROVE  PassedAreOwn'
<1>1. /\ writer'.at = writer.at /\ writer'.open = writer.open /\ writer'.id = writer.id
      /\ UNCHANGED <<index, order>> /\ writer # None
  BY HoldOwnWriter DEF HoldOwn, Matching
<1>2. Opp' = Opp /\ Incoming' = Incoming
  BY <1>1 DEF Opp, Incoming
<1>3. \A x : Passed(x)' <=> Passed(x)
  BY <1>1, <1>2 DEF Passed
<1> QED
  BY <1>1, <1>2, <1>3 DEF PassedAreOwn

\* A fill passes nothing.
LEMMA TradeFrontPassedOwn ==
  ASSUME BookTypeOK, OnWriter, QueuesLineUp, Arrived, PassedAreOwn, TradeFront
  PROVE  PassedAreOwn'
<1>1. WriterOK /\ writer # None /\ Incoming.remaining > 0
  BY WriterFacts DEF TradeFront, Matching
<1>2. PICK r, n : TradeOf(r, n)
  BY TradeFrontIsTrade
<1>3. /\ writer' = writer /\ index' \subseteq index
      /\ \A i \in DOMAIN order :
           /\ order'[i].account = order[i].account
           /\ order'[i].side = order[i].side /\ order'[i].price = order[i].price
  BY <1>2 DEF TradeOf, BothLose, SameTerms
<1>4. Opp' = Opp /\ Incoming'.account = Incoming.account
  BY <1>1, <1>3 DEF Opp, Incoming, WriterOK
<1>5. \A x : Passed(x)' <=> Passed(x)
  BY <1>3, <1>4 DEF Passed
<1>6. index \subseteq DOMAIN order
  BY DEF BookTypeOK
<1> QED
  BY <1>1, <1>3, <1>4, <1>5, <1>6 DEF PassedAreOwn

\* A level is left with the taker used up, or with its own orders only.
LEMMA CloseLevelPassedOwn ==
  ASSUME BookTypeOK, QueuesLineUp, OnWriter, PassedAreOwn, CloseLevel
  PROVE  PassedAreOwn'
<1>1. WriterOK /\ writer # None /\ writer.open /\ ~ Matching
  BY WriterFacts DEF CloseLevel
<1>2. /\ writer'.at = writer.at /\ writer'.id = writer.id
      /\ UNCHANGED <<index, order>>
  BY CloseLevelWriter DEF CloseLevel
<1>3. Opp' = Opp /\ Incoming' = Incoming
  BY <1>2 DEF Opp, Incoming
<1>4. ASSUME Incoming.remaining > 0, NEW i \in index, order[i].side = Opp,
             order[i].price = writer.at
      PROVE  order[i].account = Incoming.account
  <2>1. Queue = <<>>
    BY <1>1, <1>4 DEF Matching
  <2>2. PICK h, a : h = writer.held /\ a = writer.at
    OBVIOUS
  <2>3. h \in Seq(OrderIds) /\ a \in Prices /\ Opp \in Sides
    BY <1>1, <2>2 DEF WriterOK
  <2>4. Line(Opp, a) = h \o <<>>
    BY <1>1, <2>1, <2>2 DEF Line, HeldAside, AtWork, WriterOK
  <2>5. Line(Opp, a) = h
    BY <2>3, <2>4, ConcatEmptySeq
  <2>6. i \in RestingAt(Opp, a)
    BY <1>4, <2>2 DEF RestingAt
  <2>7. PICK n \in DOMAIN h : h[n] = i
    BY <2>3, <2>5, <2>6 DEF QueuesLineUp, LinesUp
  <2> QED
    BY <1>1, <2>2, <2>7 DEF OnWriter
<1>5. \A x : Passed(x)' => Passed(x) \/ x = writer.at
  BY <1>2, <1>3 DEF Passed
<1> QED
  BY <1>1, <1>2, <1>3, <1>4, <1>5 DEF PassedAreOwn

\* A new Order is not in the book.
LEMMA NewOrderPassedOwn ==
  ASSUME BookTypeOK, OnWriter, PassedAreOwn, NEW id, NEW client, NEW o, NewOrder(id, client, o)
  PROVE  PassedAreOwn'
<1>1. UNCHANGED <<levels, index, tradeSeq, writer, trades, future, arrivals>>
  BY DEF NewOrder
<1>2. \A i \in DOMAIN order : order'[i] = order[i]
  BY NewOrderHeap
<1>3. CASE writer # None
  <2>1. Incoming' = Incoming /\ Opp' = Opp
    BY <1>1, <1>2, <1>3, WriterFacts DEF WriterOK, Incoming, Opp
  <2>2. \A x : Passed(x)' <=> Passed(x)
    BY <1>1, <2>1 DEF Passed
  <2>3. index \subseteq DOMAIN order
    BY DEF BookTypeOK
  <2> QED
    BY <1>1, <1>2, <2>1, <2>2, <2>3 DEF PassedAreOwn
<1>4. CASE writer = None
  BY <1>1, <1>4 DEF PassedAreOwn
<1> QED
  BY <1>3, <1>4

-----------------------------------------------------------------------------
(* The prices of the book, after each step. *)

\* PricesBounded, step by step: no level added.
LEMMA FewerPricesBounded ==
  ASSUME PricesBounded, \A s \in Sides : DOMAIN levels'[s] \subseteq DOMAIN levels[s]
  PROVE  PricesBounded'
BY DEF PricesBounded

\* The level put back was there.
LEMMA CloseLevelBounded ==
  ASSUME BookTypeOK, OnWriter, PricesBounded, CloseLevel
  PROVE  PricesBounded'
<1>1. WriterOK /\ writer.open
  BY WriterFacts DEF CloseLevel
<1>2. PICK o, a, q : o = Opp /\ a = writer.at /\ q = writer.held \o Queue
  OBVIOUS
<1>3. /\ Replaced(levels', levels, o, a, q)
      /\ \A s \in Sides \ {o} : levels'[s] = levels[s]
  BY <1>2, CloseLevelReplaces
<1>4. a \in DOMAIN levels[o] /\ o \in Sides
  BY <1>1, <1>2 DEF WriterOK
<1>5. \A s \in Sides : DOMAIN levels'[s] \subseteq DOMAIN levels[s]
  <2>1. ASSUME NEW s \in Sides, NEW p \in DOMAIN levels'[s] PROVE p \in DOMAIN levels[s]
    <3>1. CASE s = o /\ p = a
      BY <1>4, <3>1
    <3>2. CASE ~ (s = o /\ p = a)
      BY <1>3, <3>2 DEF Replaced
    <3> QED
      BY <3>1, <3>2
  <2> QED
    BY <2>1
<1> QED
  BY <1>5, FewerPricesBounded

\* At most one level is added.
LEMMA FinalizeBounded ==
  ASSUME BookTypeOK, OnWriter, Arrived, PricesBounded, Finalize
  PROVE  PricesBounded'
<1>1. CASE Incoming.remaining > 0 /\ Incoming.type = "LIMIT"
  <2>1. PICK id, o : RestStep(id, o)
    BY <1>1, FinalizeRests
  <2>2. PICK side, price, more :
          side = o.side /\ price = o.price /\ more = Append(LevelQueue(side, price), id)
    OBVIOUS
  <2>3. side \in Sides /\ price \in Prices /\ id \in OrderIds
    BY <2>1, <2>2 DEF RestStep
  <2>4. more \in Seq(OrderIds) /\ LevelsOK(levels)
    BY <2>2, <2>3, LevelsTyped
  <2>5. levels' = WithLevel(side, price, more)
    BY <2>1, <2>2 DEF RestStep
  <2>6. Replaced(levels', levels, side, price, more)
    BY <2>3, <2>4, <2>5, WithLevelReplaces
  <2>7. PICK b \in Nat : \A s \in Sides : \A p \in DOMAIN levels[s] : p <= b
    BY DEF PricesBounded
  <2>8. price \in Nat /\ \A s \in Sides : DOMAIN levels'[s] \subseteq Nat
    BY <2>3, <2>6, OrderBookAssumption DEF Replaced, LevelsOK
  <2>9. PICK c \in Nat : b <= c /\ price <= c
    BY <2>8
  <2>10. \A s \in Sides : \A p \in DOMAIN levels'[s] : p <= c
    <3>1. ASSUME NEW s \in Sides, NEW p \in DOMAIN levels'[s] PROVE p <= c
      <4>1. CASE p = price
        BY <2>9, <4>1
      <4>2. CASE p # price
        <5>1. p \in DOMAIN levels[s] /\ p \in Nat
          BY <2>6, <2>8, <4>2 DEF Replaced
        <5> QED
          BY <2>7, <2>9, <5>1
      <4> QED
        BY <4>1, <4>2
    <3> QED
      BY <3>1
  <2> QED
    BY <2>10 DEF PricesBounded
<1>2. CASE ~ (Incoming.remaining > 0 /\ Incoming.type = "LIMIT")
  BY <1>2, FinalizeRests DEF NoRestStep, PricesBounded
<1> QED
  BY <1>1, <1>2

-----------------------------------------------------------------------------
(* The invariant is inductive. *)

\* The empty book.
LEMMA InitBookInv ==
  ASSUME BookInit
  PROVE  BookInv
<1>1. BookTypeOK
  <2>1. <<>> \in Seq(Trade) /\ DOMAIN <<>> = {}
    OBVIOUS
  <2> QED
    BY <2>1 DEF BookInit, BookTypeOK
<1>2. QueuesLineUp
  <2>1. ASSUME NEW s \in Sides, NEW p \in Prices
        PROVE  LinesUp(arrivals, Line(s, p), RestingAt(s, p))
    <3>1. Line(s, p) = LevelQueue(s, p)
      BY <1>1, IdleLines DEF BookInit
    <3>2. LevelQueue(s, p) = <<>>
      BY DEF BookInit, LevelQueue, QueueIn
    <3>3. RestingAt(s, p) = {}
      BY DEF BookInit, RestingAt
    <3> QED
      BY <3>1, <3>2, <3>3 DEF LinesUp
  <2>2. \A s \in Sides : DOMAIN levels[s] = {}
    BY DEF BookInit
  <2> QED
    BY <2>1, <2>2 DEF QueuesLineUp
<1>3. Arrived
  BY DEF BookInit, Arrived, IsInjective
<1>4. OnWriter
  BY DEF BookInit, OnWriter
<1>5. PassedAreOwn
  BY DEF BookInit, PassedAreOwn
<1>6. PricesBounded
  BY DEF BookInit, PricesBounded
<1> QED
  BY <1>1, <1>2, <1>3, <1>4, <1>5, <1>6 DEF BookInv

\* The whole invariant, step by step: submit() of an order without a result.
LEMMA StartKeepsInv ==
  ASSUME BookInv, NEW id \in DOMAIN order, future[id] = None, StartSubmit(id)
  PROVE  BookInv'
<1>1. BookTypeOK /\ QueuesLineUp /\ Arrived /\ OnWriter /\ PassedAreOwn /\ PricesBounded
  BY DEF BookInv
<1>2. BookTypeOK' /\ QueuesLineUp' /\ OnWriter' /\ PassedAreOwn'
  BY <1>1, StartTypeOK, StartLinesUp, StartOnWriter, StartPassedOwn
<1>3. Arrived' /\ PricesBounded'
  BY <1>1 DEF StartSubmit, Arrived, PricesBounded
<1> QED
  BY <1>2, <1>3 DEF BookInv

\* levelIt.next().
LEMMA NextLevelKeepsInv ==
  ASSUME BookInv, NextLevel
  PROVE  BookInv'
<1>1. BookTypeOK /\ QueuesLineUp /\ Arrived /\ OnWriter /\ PassedAreOwn /\ PricesBounded
  BY DEF BookInv
<1>2. BookTypeOK' /\ QueuesLineUp' /\ OnWriter' /\ PassedAreOwn'
  BY <1>1, NextLevelTypeOK, NextLevelLinesUp, NextLevelOnWriter, NextLevelPassedOwn
<1>3. Arrived' /\ PricesBounded'
  BY <1>1 DEF NextLevel, Arrived, PricesBounded
<1> QED
  BY <1>2, <1>3 DEF BookInv

\* Self-match prevention.
LEMMA HoldOwnKeepsInv ==
  ASSUME BookInv, HoldOwn
  PROVE  BookInv'
<1>1. BookTypeOK /\ QueuesLineUp /\ Arrived /\ OnWriter /\ PassedAreOwn /\ PricesBounded
  BY DEF BookInv
<1>2. BookTypeOK' /\ QueuesLineUp' /\ OnWriter' /\ PassedAreOwn'
  BY <1>1, HoldOwnTypeOK, HoldOwnLinesUp, HoldOwnOnWriter, HoldOwnPassedOwn
<1>3. Arrived' /\ PricesBounded'
  BY <1>1, HoldOwnLevels DEF HoldOwn, Arrived, PricesBounded
<1> QED
  BY <1>2, <1>3 DEF BookInv

\* A fill.
LEMMA TradeFrontKeepsInv ==
  ASSUME BookInv, TradeFront
  PROVE  BookInv'
<1>1. BookTypeOK /\ QueuesLineUp /\ Arrived /\ OnWriter /\ PassedAreOwn /\ PricesBounded
  BY DEF BookInv
<1>2. BookTypeOK' /\ QueuesLineUp' /\ Arrived' /\ OnWriter' /\ PassedAreOwn'
  BY <1>1, TradeFrontTypeOK, TradeFrontLinesUp, TradeFrontArrived, TradeFrontOnWriter,
     TradeFrontPassedOwn
<1>3. PricesBounded'
  BY <1>1, TradeFrontLevels, FewerPricesBounded
<1> QED
  BY <1>2, <1>3 DEF BookInv

\* The end of a level.
LEMMA CloseLevelKeepsInv ==
  ASSUME BookInv, CloseLevel
  PROVE  BookInv'
<1>1. BookTypeOK /\ QueuesLineUp /\ Arrived /\ OnWriter /\ PassedAreOwn /\ PricesBounded
  BY DEF BookInv
<1>2. BookTypeOK' /\ QueuesLineUp' /\ OnWriter' /\ PassedAreOwn' /\ PricesBounded'
  BY <1>1, CloseLevelTypeOK, CloseLevelLinesUp, CloseLevelOnWriter, CloseLevelPassedOwn,
     CloseLevelBounded
<1>3. Arrived'
  BY <1>1 DEF CloseLevel, Arrived
<1> QED
  BY <1>2, <1>3 DEF BookInv

\* The end of submit().
LEMMA FinalizeKeepsInv ==
  ASSUME BookInv, Finalize
  PROVE  BookInv'
<1>1. BookTypeOK /\ QueuesLineUp /\ Arrived /\ OnWriter /\ PassedAreOwn /\ PricesBounded
  BY DEF BookInv
<1>2. BookTypeOK' /\ QueuesLineUp' /\ Arrived' /\ OnWriter' /\ PricesBounded'
  BY <1>1, FinalizeTypeOK, FinalizeLinesUp, FinalizeArrived, FinalizeOnWriter, FinalizeBounded
<1>3. PassedAreOwn'
  BY DEF Finalize, PassedAreOwn
<1> QED
  BY <1>2, <1>3 DEF BookInv

\* cancel(), of whatever id.
LEMMA CancelKeepsInv ==
  ASSUME BookInv, NEW id, CancelById(id)
  PROVE  BookInv'
<1>1. BookTypeOK /\ QueuesLineUp /\ Arrived /\ OnWriter /\ PassedAreOwn /\ PricesBounded
  BY DEF BookInv
<1>2. BookTypeOK' /\ QueuesLineUp' /\ OnWriter'
  BY <1>1, CancelTypeOK, CancelLinesUp, CancelOnWriter
<1>3. index' \subseteq index /\ UNCHANGED <<order, writer, arrivals, future>> /\ writer = None
  BY <1>1, CancelLevels DEF CancelById
<1>4. Arrived' /\ PassedAreOwn'
  BY <1>1, <1>3 DEF Arrived, PassedAreOwn
<1>5. PricesBounded'
  BY <1>1, CancelLevels, FewerPricesBounded
<1> QED
  BY <1>2, <1>4, <1>5 DEF BookInv

\* The construction of an order of a new id.
LEMMA NewOrderKeepsInv ==
  ASSUME BookInv, NEW id, NEW client, NEW o, NewOrder(id, client, o)
  PROVE  BookInv'
<1>1. BookTypeOK /\ QueuesLineUp /\ Arrived /\ OnWriter /\ PassedAreOwn /\ PricesBounded
  BY DEF BookInv
<1>2. BookTypeOK' /\ QueuesLineUp' /\ OnWriter' /\ PassedAreOwn'
  BY <1>1, NewOrderTypeOK, NewOrderLinesUp, NewOrderOnWriter, NewOrderPassedOwn
<1>3. UNCHANGED <<levels, index, tradeSeq, writer, trades, future, arrivals>>
  BY DEF NewOrder
<1>4. PricesBounded'
  BY <1>1, <1>3 DEF PricesBounded
<1>5. \A i \in DOMAIN order : order'[i] = order[i] /\ i \in DOMAIN order'
  BY NewOrderHeap
<1>6. Arrived'
  BY <1>1, <1>3, <1>5 DEF Arrived, BookTypeOK
<1> QED
  BY <1>2, <1>4, <1>6 DEF BookInv

\* Any step of the writer.
LEMMA WriterKeepsInv ==
  ASSUME BookInv, WriterStep
  PROVE  BookInv'
BY NextLevelKeepsInv, HoldOwnKeepsInv, TradeFrontKeepsInv, CloseLevelKeepsInv, FinalizeKeepsInv
   DEF WriterStep

-----------------------------------------------------------------------------
(* What trades add up to. *)

\* The numbers of an order.
LEMMA OrderNumbers ==
  ASSUME BookTypeOK, NEW i \in DOMAIN order
  PROVE  order[i].quantity \in Nat \ {0} /\ order[i].remaining \in Nat
<1>1. order[i] \in Order
  BY DEF BookTypeOK
<1>2. order[i].quantity \in Quantities /\ order[i].remaining \in Nat
  BY <1>1 DEF Order
<1> QED
  BY <1>2, OrderBookAssumption

\* The quantity of a set of trades, in the form the sum theorems speak of.
LEMMA QtyOfSet ==
  ASSUME NEW S, IsFiniteSet(S), S \subseteq Trade
  PROVE  /\ Summable(QtyOf, S)
         /\ MapThenSumSet(LAMBDA t : t.quantity, S) = Total(QtyOf, S)
<1> DEFINE P(it) == it = [s \in SUBSET S |-> IF s = {} THEN 0
                                             ELSE Pick(s).quantity + it[s \ {Pick(s)}]]
<1>1. MapThenSumSet(LAMBDA t : t.quantity, S) = (CHOOSE it : P(it))[S]
  BY Zenon DEF MapThenSumSet, MapThenFoldSet, Pick
<1>2. \A t \in S : QtyOf[t] = t.quantity /\ QtyOf[t] \in Int
  BY DEF QtyOf, Trade
<1>3. Summable(QtyOf, S)
  BY <1>2 DEF Summable
<1>4. ASSUME NEW it PROVE P(it) <=> SumsOver(it, QtyOf, SUBSET S)
  <2>1. \A s \in SUBSET S : s # {} => Pick(s).quantity = QtyOf[Pick(s)]
    BY <1>2, PickIn
  <2> QED
    BY <2>1 DEF SumsOver
<1> HIDE DEF P
<1>5. P(CHOOSE it : P(it))
  <2>1. \E it : P(it)
    BY <1>3, <1>4, SumsExist
  <2> QED
    BY <2>1
<1> QED
  BY <1>1, <1>3, <1>4, <1>5, IsTotal

\* The quantity of a list of trades likewise.
LEMMA QtyOfList ==
  ASSUME NEW list \in Seq(Trade)
  PROVE  /\ Summable([n \in DOMAIN list |-> list[n].quantity], DOMAIN list)
         /\ FoldSeq(LAMBDA t, n : t.quantity + n, 0, list) = ListQty(list)
<1> DEFINE D == DOMAIN list
           f == [n \in D |-> list[n].quantity]
           P(it) == it = [s \in SUBSET D |-> IF s = {} THEN 0
                                             ELSE list[Pick(s)].quantity + it[s \ {Pick(s)}]]
<1>1. FoldSeq(LAMBDA t, n : t.quantity + n, 0, list) = (CHOOSE it : P(it))[D]
  BY Zenon DEF FoldSeq, FoldFunction, FoldFunctionOnSet, MapThenFoldSet, Pick
<1>2. Summable(f, D)
  <2>1. D = 1..Len(list) /\ Len(list) \in Nat
    OBVIOUS
  <2>2. IsFiniteSet(D)
    BY <2>1, FS_Interval
  <2>3. ASSUME NEW n \in D PROVE list[n].quantity \in Int
    <3>1. list[n] \in Trade
      OBVIOUS
    <3> QED
      BY <3>1 DEF Trade
  <2> QED
    BY <2>2, <2>3 DEF Summable
<1>3. ASSUME NEW it PROVE P(it) <=> SumsOver(it, f, SUBSET D)
  <2>1. \A s \in SUBSET D : s # {} => list[Pick(s)].quantity = f[Pick(s)]
    BY PickIn
  <2> QED
    BY <2>1 DEF SumsOver
<1>4. ListQty(list) = Total(f, D)
  BY DEF ListQty
<1> HIDE DEF P, f, D
<1>5. P(CHOOSE it : P(it))
  <2>1. \E it : P(it)
    BY <1>2, <1>3, SumsExist
  <2> QED
    BY <2>1
<1>6. (CHOOSE it : P(it))[D] = Total(f, D)
  BY <1>2, <1>3, <1>5, IsTotal
<1> QED
  BY <1>1, <1>2, <1>4, <1>6 DEF f, D

\* A list that grows by a trade; nothing adds up to 0.
LEMMA ListQtyGrows ==
  ASSUME NEW list \in Seq(Trade), NEW t \in Trade
  PROVE  ListQty(Append(list, t)) = ListQty(list) + t.quantity
<1>1. PICK more : more = Append(list, t)
  OBVIOUS
<1>2. PICK f, g : /\ f = [n \in DOMAIN list |-> list[n].quantity]
                  /\ g = [n \in DOMAIN more |-> more[n].quantity]
  OBVIOUS
<1>3. /\ DOMAIN more = DOMAIN list \cup {Len(list) + 1} /\ Len(list) + 1 \notin DOMAIN list
      /\ more[Len(list) + 1] = t /\ \A n \in DOMAIN list : more[n] = list[n]
  BY <1>1
<1>4. PICK e : e = Len(list) + 1
  OBVIOUS
<1>5. Summable(f, DOMAIN list)
  BY <1>2, QtyOfList
<1>6. /\ \A n \in DOMAIN list : g[n] = f[n]
      /\ g[e] = t.quantity /\ g[e] \in Int /\ e \notin DOMAIN list
  BY <1>2, <1>3, <1>4 DEF Trade
<1>7. Total(g, DOMAIN list \cup {e}) = Total(f, DOMAIN list) + g[e]
  BY <1>5, <1>6, TotalGrows
<1> QED
  BY <1>1, <1>2, <1>3, <1>4, <1>6, <1>7 DEF ListQty

\* No trades, nothing traded.
LEMMA ListQtyEmpty == ListQty(<<>>) = 0
BY TotalEmpty DEF ListQty

\* A list of trades adds up to a number.
LEMMA ListQtyType ==
  ASSUME NEW list \in Seq(Trade)
  PROVE  ListQty(list) \in Int
BY QtyOfList, TotalType DEF ListQty

\* Appending adds an element to the range.
LEMMA RangeGrows ==
  ASSUME NEW list \in Seq(Trade), NEW t \in Trade
  PROVE  Range(Append(list, t)) = Range(list) \cup {t}
<1>1. PICK more : more = Append(list, t)
  OBVIOUS
<1>2. /\ DOMAIN more = DOMAIN list \cup {Len(list) + 1} /\ Len(list) + 1 \notin DOMAIN list
      /\ more[Len(list) + 1] = t /\ \A n \in DOMAIN list : more[n] = list[n]
  BY <1>1
<1> QED
  BY <1>1, <1>2 DEF Range

-----------------------------------------------------------------------------
(* The reported trades, after each step. *)

\* Trades and orders that stay as they are stay accounted for.
LEMMA SameTrades ==
  ASSUME UNCHANGED <<future, trades>>
  PROVE  AllTrades' = AllTrades /\ \A i : TradesOf(i)' = TradesOf(i)
BY DEF AllTrades, TradesOf

\* Steps that neither trade nor answer.
LEMMA SameReported ==
  ASSUME BookInv, Reported,
         UNCHANGED <<future, trades, tradeSeq>>, DOMAIN order \subseteq DOMAIN order',
         \A i \in DOMAIN order : order'[i] = order[i],
         \A i \in DOMAIN order' \ DOMAIN order : order'[i].remaining = order'[i].quantity
                                                  /\ order'[i].quantity \in Int,
         IF writer' = None THEN TRUE
         ELSE writer'.id \in DOMAIN order /\
              order[writer'.id].quantity - order[writer'.id].remaining = ListQty(trades)
  PROVE  Reported'
<1>1. AllTrades' = AllTrades /\ \A i : TradesOf(i)' = TradesOf(i)
  BY SameTrades
<1>2. ASSUME NEW i \in DOMAIN order'
      PROVE  order'[i].quantity - order'[i].remaining = Total(QtyOf, TradesOf(i)')
  <2>1. CASE i \in DOMAIN order
    BY <1>1, <2>1 DEF Reported
  <2>2. CASE i \notin DOMAIN order
    <3>1. TradesOf(i) = {}
      BY <2>2 DEF Reported, TradesOf
    <3> QED
      BY <1>1, <2>2, <3>1, TotalEmpty
  <2> QED
    BY <2>1, <2>2
<1>3. /\ IsFiniteSet(AllTrades')
      /\ \A t \in AllTrades' : /\ t \in Trade /\ t.tradeId <= tradeSeq'
                               /\ t.buyOrder \in DOMAIN order' /\ t.sellOrder \in DOMAIN order'
  BY <1>1 DEF Reported
<1>4. \A i \in OrderIds : future'[i] # None => future'[i].filled = ListQty(future'[i].trades)
  BY DEF Reported
<1>5. writer' # None => Incoming'.quantity - Incoming'.remaining = ListQty(trades')
  BY DEF Incoming
<1> QED
  BY <1>2, <1>3, <1>4, <1>5 DEF Reported

\* Reported, step by step: submit() starts with an empty list.
LEMMA StartReported ==
  ASSUME BookInv, Reported, NEW id \in DOMAIN order, future[id] = None, StartSubmit(id)
  PROVE  Reported'
<1>1. /\ writer' = [id |-> id, at |-> None, open |-> FALSE, held |-> <<>>] /\ writer = None
      /\ trades' = <<>> /\ UNCHANGED <<levels, index, order, tradeSeq, future, arrivals>>
  BY DEF StartSubmit
<1>2. trades = <<>> /\ order[id].remaining = order[id].quantity
  BY <1>1 DEF BookInv, OnWriter
<1>3. order[id].quantity \in Int /\ writer'.id = id
  BY <1>1, OrderNumbers DEF BookInv
<1>4. order[id].quantity - order[id].remaining = ListQty(trades)
  BY <1>2, <1>3, ListQtyEmpty
<1> QED
  BY <1>1, <1>2, <1>3, <1>4, SameReported

\* Levels and held orders are not part of the accounts.
LEMMA QuietWriterReported ==
  ASSUME BookInv, Reported, NextLevel \/ HoldOwn \/ CloseLevel
  PROVE  Reported'
<1>1. /\ UNCHANGED <<index, order, tradeSeq, trades, future, arrivals>>
      /\ writer # None
  BY DEF NextLevel, HoldOwn, CloseLevel, Matching
<1>2. writer'.id = writer.id /\ writer'.id \in DOMAIN order
  BY <1>1, NextLevelWriter, HoldOwnWriter, CloseLevelWriter, WriterFacts DEF BookInv, WriterOK
<1>3. order[writer'.id].quantity - order[writer'.id].remaining = ListQty(trades)
  BY <1>1, <1>2 DEF Reported, Incoming
<1> QED
  BY <1>1, <1>2, <1>3, SameReported

\* Neither is what a cancel takes away.
LEMMA CancelReported ==
  ASSUME BookInv, Reported, NEW id, CancelById(id)
  PROVE  Reported'
<1>1. writer = None /\ UNCHANGED <<order, tradeSeq, writer, trades, future, arrivals>>
  BY DEF CancelById
<1> QED
  BY <1>1, SameReported

\* A new Order has all of its quantity left and no trades.
LEMMA NewOrderReported ==
  ASSUME BookInv, Reported, NEW id, NEW client, NEW o, NewOrder(id, client, o)
  PROVE  Reported'
<1>1. UNCHANGED <<levels, index, tradeSeq, writer, trades, future, arrivals>>
  BY DEF NewOrder
<1>2. /\ DOMAIN order' = DOMAIN order \cup {id}
      /\ \A i \in DOMAIN order : i # id /\ order'[i] = order[i]
      /\ order'[id] \in Order /\ order'[id].remaining = order'[id].quantity
  BY NewOrderHeap
<1>3. order'[id].quantity \in Int
  BY <1>2, OrderBookAssumption DEF Order
<1>4. IF writer' = None THEN TRUE
      ELSE writer'.id \in DOMAIN order /\
           order[writer'.id].quantity - order[writer'.id].remaining = ListQty(trades)
  BY <1>1, WriterFacts DEF BookInv, WriterOK, Reported, Incoming
<1> QED
  BY <1>1, <1>2, <1>3, <1>4, SameReported

\* A fill's trade is new, and accounts for what taker and maker lose.
LEMMA TradeFrontReported ==
  ASSUME BookInv, Reported, TradeFront
  PROVE  Reported'
<1>0. BookTypeOK /\ QueuesLineUp /\ Arrived /\ OnWriter
  BY DEF BookInv
<1>1. WriterOK /\ writer # None /\ writer.open
  BY <1>0, WriterFacts DEF TradeFront, Matching
<1>2. PICK r, n : TradeOf(r, n)
  BY <1>0, TradeFrontIsTrade
<1>3. PICK x : x = MakeTrade(r, n)
  OBVIOUS
<1>4. /\ x \in Trade /\ x.tradeId = tradeSeq + 1 /\ x.quantity = n
      /\ {x.buyOrder, x.sellOrder} = {writer.id, r}
  BY <1>0, <1>1, <1>2, <1>3, TradeIsTyped
<1>5. /\ trades' = Append(trades, x) /\ tradeSeq' = tradeSeq + 1
      /\ UNCHANGED <<writer, future, arrivals>>
      /\ r \in DOMAIN order /\ writer.id \in DOMAIN order /\ r # writer.id
      /\ n \in Nat /\ trades \in Seq(Trade) /\ tradeSeq \in Nat
  BY <1>0, <1>1, <1>2, <1>3 DEF TradeOf, BookTypeOK, WriterOK
<1>6. AllTrades' = AllTrades \cup {x}
  BY <1>4, <1>5, RangeGrows DEF AllTrades
<1>7. x \notin AllTrades
  <2>1. \A t \in AllTrades : t.tradeId <= tradeSeq /\ t.tradeId \in Nat
    BY DEF Reported, Trade
  <2> QED
    BY <1>4, <1>5, <2>1
<1>8. /\ DOMAIN order' = DOMAIN order
      /\ \A i \in DOMAIN order :
           /\ order'[i].quantity = order[i].quantity
           /\ order'[i].remaining = order[i].remaining - (IF i \in {writer.id, r} THEN n ELSE 0)
  BY <1>2 DEF TradeOf, BothLose, SameTerms
<1>9. IsFiniteSet(AllTrades')
  BY <1>6, FS_AddElement DEF Reported
<1>10. \A t \in AllTrades' : /\ t \in Trade /\ t.tradeId <= tradeSeq'
                             /\ t.buyOrder \in DOMAIN order' /\ t.sellOrder \in DOMAIN order'
  <2>1. x.buyOrder \in DOMAIN order /\ x.sellOrder \in DOMAIN order
    BY <1>4, <1>5
  <2>2. \A t \in AllTrades : t.tradeId \in Nat
    BY DEF Reported, Trade
  <2> QED
    BY <1>4, <1>5, <1>6, <1>8, <2>1, <2>2 DEF Reported
<1>11. ASSUME NEW i \in DOMAIN order'
       PROVE  order'[i].quantity - order'[i].remaining = Total(QtyOf, TradesOf(i)')
  <2>1. IsFiniteSet(TradesOf(i)) /\ TradesOf(i) \subseteq Trade
    <3>1. IsFiniteSet(AllTrades) /\ TradesOf(i) \subseteq AllTrades /\ AllTrades \subseteq Trade
      BY DEF Reported, TradesOf
    <3> QED
      BY <3>1, FS_Subset
  <2>2. /\ order[i].quantity - order[i].remaining = Total(QtyOf, TradesOf(i))
        /\ order[i].quantity \in Int /\ order[i].remaining \in Int
    BY <1>0, <1>8, OrderNumbers DEF Reported
  <2>3. CASE i \in {writer.id, r}
    <3>1. TradesOf(i)' = TradesOf(i) \cup {x}
      BY <1>4, <1>6, <2>3 DEF TradesOf
    <3>2. x \notin TradesOf(i)
      BY <1>7 DEF TradesOf
    <3>3. Summable(QtyOf, TradesOf(i))
      BY <2>1, QtyOfSet
    <3>3a. QtyOf[x] = n /\ QtyOf[x] \in Int
      BY <1>4, <1>5 DEF QtyOf
    <3>4. Total(QtyOf, TradesOf(i) \cup {x}) = Total(QtyOf, TradesOf(i)) + n
      BY <3>2, <3>3, <3>3a, TotalAdd
    <3> QED
      BY <1>5, <1>8, <2>2, <2>3, <3>1, <3>4
  <2>4. CASE i \notin {writer.id, r}
    <3>1. TradesOf(i)' = TradesOf(i)
      BY <1>4, <1>6, <2>4 DEF TradesOf
    <3> QED
      BY <1>8, <2>2, <2>4, <3>1
  <2> QED
    BY <2>3, <2>4
<1>12. Incoming'.quantity - Incoming'.remaining = ListQty(trades')
  <2>1. Incoming.quantity - Incoming.remaining = ListQty(trades)
    BY <1>1 DEF Reported
  <2>2. Incoming.quantity \in Int /\ Incoming.remaining \in Int
    BY <1>0, <1>1, OrderNumbers DEF WriterOK, Incoming
  <2>3. Incoming'.quantity = Incoming.quantity /\ Incoming'.remaining = Incoming.remaining - n
    BY <1>5, <1>8 DEF Incoming
  <2>4. ListQty(trades') = ListQty(trades) + n
    BY <1>4, <1>5, ListQtyGrows
  <2> QED
    BY <1>5, <2>1, <2>2, <2>3, <2>4
<1>13. \A i \in OrderIds : future'[i] # None => future'[i].filled = ListQty(future'[i].trades)
  BY <1>5 DEF Reported
<1> QED
  BY <1>9, <1>10, <1>11, <1>12, <1>13 DEF Reported

\* finalize() hands the trades over: none is lost, none doubled.
LEMMA FinalizeAllTrades ==
  ASSUME BookInv, Finalize
  PROVE  AllTrades' = AllTrades
<1>1. WriterOK /\ writer # None /\ future[writer.id] = None
  BY WriterFacts DEF BookInv, OnWriter, Finalize, MatchingDone
<1>2. PICK res : /\ res.trades = trades /\ res # None
                 /\ future' = [future EXCEPT ![writer.id] = res]
  BY FinalizeResult DEF BookInv
<1>3. trades' = <<>> /\ Range(<<>>) = {}
  BY DEF Finalize, Range
<1>4. /\ future'[writer.id] = res /\ writer.id \in OrderIds
      /\ \A i \in OrderIds : i # writer.id => future'[i] = future[i]
  BY <1>1, <1>2 DEF BookInv, BookTypeOK, WriterOK
<1>5. {j \in OrderIds : future'[j] # None} = {j \in OrderIds : future[j] # None} \cup {writer.id}
  BY <1>1, <1>2, <1>4
<1>6. ASSUME NEW t PROVE t \in AllTrades' <=> t \in AllTrades
  <2>1. t \in AllTrades' <=> \/ \E i \in OrderIds : future'[i] # None /\ t \in Range(future'[i].trades)
                             \/ t \in Range(trades')
    BY DEF AllTrades
  <2>2. t \in AllTrades <=> \/ \E i \in OrderIds : future[i] # None /\ t \in Range(future[i].trades)
                            \/ t \in Range(trades)
    BY DEF AllTrades
  <2>3. t \notin Range(trades')
    BY <1>3
  <2> QED
    BY <1>1, <1>2, <1>4, <2>1, <2>2, <2>3
<1> QED
  BY <1>6

\* The filled quantity of the answer is that of its trades.
LEMMA FinalizeReported ==
  ASSUME BookInv, Reported, Finalize
  PROVE  Reported'
<1>1. WriterOK /\ writer # None
  BY WriterFacts DEF BookInv, Finalize, MatchingDone
<1>2. AllTrades' = AllTrades
  BY FinalizeAllTrades
<1>3. \A i : TradesOf(i)' = TradesOf(i)
  BY <1>2 DEF TradesOf
<1>4. UNCHANGED <<order, tradeSeq>> /\ writer' = None
  BY DEF Finalize
<1>5. PICK res : /\ res.trades = trades /\ res.filled = Incoming.quantity - Incoming.remaining
                 /\ future' = [future EXCEPT ![writer.id] = res]
  BY FinalizeResult DEF BookInv
<1>6. res.filled = ListQty(res.trades)
  BY <1>1, <1>5 DEF Reported
<1>7. \A i \in OrderIds : future'[i] # None => future'[i].filled = ListQty(future'[i].trades)
  BY <1>1, <1>5, <1>6 DEF Reported, BookInv, BookTypeOK, WriterOK
<1> QED
  BY <1>2, <1>3, <1>4, <1>7 DEF Reported

\* Nothing has traded.
LEMMA InitReported ==
  ASSUME BookInit
  PROVE  Reported
<1>1. AllTrades = {}
  BY DEF BookInit, AllTrades, Range
<1>2. IsFiniteSet(AllTrades)
  BY <1>1, FS_EmptySet
<1> QED
  BY <1>1, <1>2 DEF BookInit, Reported

\* Any step of the writer.
LEMMA WriterReported ==
  ASSUME BookInv, Reported, WriterStep
  PROVE  Reported'
BY QuietWriterReported, TradeFrontReported, FinalizeReported DEF WriterStep

-----------------------------------------------------------------------------
(* The book on its own. *)

\* A book on its own numbers its orders from 1.
Numbered == \E n \in Nat : DOMAIN order = 1..n

OwnInv == BookInv /\ Reported /\ Numbered

\* The book on its own numbers its orders one after the other.
LEMMA CreateIsNewOrder ==
  ASSUME BookInv, Numbered, NEW o \in NewOrders, Create(o)
  PROVE  /\ NewOrder(Cardinality(DOMAIN order) + 1, Cardinality(DOMAIN order) + 1, o)
         /\ Numbered'
<1>1. PICK n \in Nat : DOMAIN order = 1..n
  BY DEF Numbered
<1>2. Cardinality(DOMAIN order) = n
  BY <1>1, FS_Interval
<1>3. n + 1 \notin DOMAIN order /\ n + 1 \in OrderIds /\ n + 1 \in Nat
  BY <1>1, <1>2 DEF Create
<1>4. /\ Construct(n + 1, n + 1, o)
      /\ UNCHANGED <<levels, index, tradeSeq, writer, trades, future, arrivals>>
  BY <1>2 DEF Create
<1>5. NewOrder(n + 1, n + 1, o)
  BY <1>3, <1>4 DEF NewOrder
<1>6. DOMAIN order' = DOMAIN order \cup {n + 1}
  BY <1>5, NewOrderHeap
<1>7. DOMAIN order' = 1..(n + 1)
  BY <1>1, <1>6
<1> QED
  BY <1>2, <1>3, <1>5, <1>7 DEF Numbered

\* The writer constructs no order.
LEMMA WriterNumbered ==
  ASSUME BookInv, Numbered, WriterStep
  PROVE  Numbered'
<1>1. DOMAIN order' = DOMAIN order
  <2>1. CASE TradeFront
    <3>1. PICK r, n : TradeOf(r, n)
      BY <2>1, TradeFrontIsTrade DEF BookInv
    <3> QED
      BY <3>1 DEF TradeOf, BothLose, SameTerms
  <2>2. CASE NextLevel \/ HoldOwn \/ CloseLevel \/ Finalize
    BY <2>2 DEF NextLevel, HoldOwn, CloseLevel, Finalize
  <2> QED
    BY <2>1, <2>2 DEF WriterStep
<1> QED
  BY <1>1 DEF Numbered

\* The initial state of a book on its own.
LEMMA InitOwnInv ==
  ASSUME BookInit
  PROVE  OwnInv
<1>1. Numbered
  <2>1. DOMAIN order = 1..0
    BY DEF BookInit
  <2> QED
    BY <2>1 DEF Numbered
<1> QED
  BY <1>1, InitBookInv, InitReported DEF OwnInv

\* The invariant speaks of the book only.
LEMMA SameBookInv ==
  ASSUME BookInv, UNCHANGED <<levels, index, order, tradeSeq, writer, trades, future, arrivals>>
  PROVE  BookInv'
<1>1. BookTypeOK /\ QueuesLineUp /\ Arrived /\ OnWriter /\ PassedAreOwn /\ PricesBounded
  BY DEF BookInv
<1>2. BookTypeOK' /\ Arrived' /\ PricesBounded'
  BY <1>1 DEF BookTypeOK, Arrived, PricesBounded
<1>3. Incoming' = Incoming /\ Opp' = Opp
  BY DEF Incoming, Opp
<1>4. OnWriter'
  BY <1>1, <1>3 DEF OnWriter, Crosses
<1>5. PassedAreOwn'
  BY <1>1, <1>3 DEF PassedAreOwn, Passed
<1>6. \A s, p : (AtWork(s, p)' <=> AtWork(s, p)) /\ Line(s, p)' = Line(s, p)
                /\ RestingAt(s, p)' = RestingAt(s, p)
  BY <1>3 DEF AtWork, Line, HeldAside, LevelQueue, RestingAt
<1>7. QueuesLineUp'
  BY <1>1, <1>6 DEF QueuesLineUp
<1> QED
  BY <1>2, <1>4, <1>5, <1>7 DEF BookInv

\* Every step of a book on its own keeps its invariant.
LEMMA NextOwnInv ==
  ASSUME OwnInv, [BookNext]_bookState
  PROVE  OwnInv'
<1>0. BookInv /\ Reported /\ Numbered
  BY DEF OwnInv
<1>1. ASSUME NEW o \in NewOrders, Create(o) PROVE OwnInv'
  <2>1. PICK id : NewOrder(id, id, o) /\ Numbered'
    BY <1>0, <1>1, CreateIsNewOrder
  <2> QED
    BY <1>0, <2>1, NewOrderKeepsInv, NewOrderReported DEF OwnInv
<1>2. ASSUME NEW id \in Waiting, StartSubmit(id) PROVE OwnInv'
  <2>1. id \in DOMAIN order /\ future[id] = None
    BY DEF Waiting
  <2>2. Numbered'
    BY <1>0, <1>2 DEF StartSubmit, Numbered
  <2> QED
    BY <1>0, <1>2, <2>1, <2>2, StartKeepsInv, StartReported DEF OwnInv
<1>3. ASSUME NEW id \in OrderIds, CancelById(id) PROVE OwnInv'
  <2>1. Numbered'
    BY <1>0, <1>3 DEF CancelById, Numbered
  <2> QED
    BY <1>0, <1>3, <2>1, CancelKeepsInv, CancelReported DEF OwnInv
<1>4. CASE WriterStep
  BY <1>0, <1>4, WriterKeepsInv, WriterReported, WriterNumbered DEF OwnInv
<1>5. CASE UNCHANGED bookState
  <2>1. UNCHANGED <<levels, index, order, tradeSeq, writer, trades, future, arrivals>>
    BY <1>5 DEF bookState
  <2>2. BookInv'
    BY <1>0, <2>1, SameBookInv
  <2>3. Reported'
    BY <1>0, <2>1 DEF Reported, AllTrades, TradesOf, Incoming
  <2> QED
    BY <1>0, <2>1, <2>2, <2>3 DEF OwnInv, Numbered
<1> QED
  BY <1>1, <1>2, <1>3, <1>4, <1>5 DEF BookNext

-----------------------------------------------------------------------------
(* The properties of the runs follow. *)

\* With no order on the writer the lines are the queues: IndexMatchesQueues.
LEMMA InvIndexMatches ==
  ASSUME BookInv
  PROVE  IndexMatchesQueues
<1> SUFFICES ASSUME writer = None PROVE IndexMatchesQueues
  BY DEF IndexMatchesQueues
<1>1. BookTypeOK /\ QueuesLineUp /\ Arrived
  BY DEF BookInv
<1>2. ASSUME NEW s \in Sides, NEW p \in Prices
      PROVE  IF p \in DOMAIN levels[s]
             THEN /\ levels[s][p] # <<>> /\ IsInjective(levels[s][p])
                  /\ Range(levels[s][p]) = RestingAt(s, p)
             ELSE RestingAt(s, p) = {}
  <2>1. PICK q : q = LevelQueue(s, p)
    OBVIOUS
  <2>2. LinesUp(arrivals, q, RestingAt(s, p)) /\ Lists(arrivals, RestingAt(s, p))
    BY <1>1, <2>1, IdleLines, ArrivedLists DEF QueuesLineUp
  <2>3. IsInjective(q)
    BY <2>2, LineApart DEF IsInjective
  <2>4. Range(q) = RestingAt(s, p)
    BY <2>2 DEF Range, LinesUp
  <2>5. CASE p \in DOMAIN levels[s]
    <3>1. levels[s][p] = q
      BY <2>1, <2>5 DEF LevelQueue, QueueIn
    <3>2. levels[s][p] # <<>>
      BY <1>1, <2>5, NoWorkNoHeld
    <3> QED
      BY <2>3, <2>4, <2>5, <3>1, <3>2
  <2>6. CASE p \notin DOMAIN levels[s]
    <3>1. q = <<>>
      BY <2>1, <2>6 DEF LevelQueue, QueueIn
    <3>2. Range(q) = {}
      BY <3>1 DEF Range
    <3> QED
      BY <2>4, <2>6, <3>2
  <2> QED
    BY <2>5, <2>6
<1>3. \A i \in index : order[i].remaining > 0
  BY <1>1 DEF Arrived
<1> QED
  BY <1>2, <1>3 DEF IndexMatchesQueues, RestingAt

\* With nothing held aside the queues are in order of arrival:
\* TimeSlotsKept.
LEMMA InvTimeSlots ==
  ASSUME BookInv
  PROVE  TimeSlotsKept
<1> SUFFICES ASSUME writer = None \/ ~ writer.open, NEW s \in Sides, NEW p \in DOMAIN levels[s],
                    NEW m \in DOMAIN levels[s][p], NEW n \in DOMAIN levels[s][p], m < n
             PROVE  Position(levels[s][p][m]) < Position(levels[s][p][n])
  BY DEF TimeSlotsKept
<1>1. BookTypeOK /\ QueuesLineUp /\ p \in Prices
  BY DEF BookInv, BookTypeOK
<1>2. PICK q : q = levels[s][p]
  OBVIOUS
<1>3. q = Line(s, p)
  BY <1>1, <1>2, IdleLines DEF LevelQueue, QueueIn
<1>4. PositionIn(arrivals, q[m]) < PositionIn(arrivals, q[n])
  BY <1>1, <1>2, <1>3 DEF QueuesLineUp, LinesUp
<1> QED
  BY <1>2, <1>4 DEF Position, PositionIn

\* With the sums in the form the sum theorems speak of, FillsMatchTrades.
LEMMA ReportedMatches ==
  ASSUME BookInv, Reported
  PROVE  FillsMatchTrades
<1>1. ASSUME NEW i \in DOMAIN order
      PROVE  order[i].quantity - order[i].remaining = TradedQty(i)
  <2>1. IsFiniteSet(TradesOf(i)) /\ TradesOf(i) \subseteq Trade
    <3>1. IsFiniteSet(AllTrades) /\ TradesOf(i) \subseteq AllTrades /\ AllTrades \subseteq Trade
      BY DEF Reported, TradesOf
    <3> QED
      BY <3>1, FS_Subset
  <2>2. PICK S : S = TradesOf(i)
    OBVIOUS
  <2>3. MapThenSumSet(LAMBDA t : t.quantity, S) = Total(QtyOf, S)
    BY <2>1, <2>2, QtyOfSet
  <2>4. TradedQty(i) = MapThenSumSet(LAMBDA t : t.quantity, S)
    BY <2>2 DEF TradedQty, TradesOf
  <2> QED
    BY <2>2, <2>3, <2>4 DEF Reported
<1>2. ASSUME NEW i \in OrderIds, future[i] # None
      PROVE  future[i].filled = FoldSeq(LAMBDA t, n : t.quantity + n, 0, future[i].trades)
  <2>1. PICK list : list = future[i].trades
    OBVIOUS
  <2>2. list \in Seq(Trade)
    BY <1>2, <2>1 DEF BookInv, BookTypeOK, Results
  <2>3. FoldSeq(LAMBDA t, n : t.quantity + n, 0, list) = ListQty(list)
    BY <2>2, QtyOfList
  <2> QED
    BY <1>2, <2>1, <2>3 DEF Reported
<1> QED
  BY <1>1, <1>2 DEF FillsMatchTrades

\* The invariant holds throughout.
LEMMA SpecOwnInv == BookSpec => []OwnInv
<1>1. BookInit => OwnInv
  BY InitOwnInv
<1>2. OwnInv /\ [BookNext]_bookState => OwnInv'
  BY NextOwnInv
<1> QED
  BY <1>1, <1>2, PTL DEF BookSpec

\* The type invariant, for every set of accounts, prices, quantities and
\* ids: in particular an order never has less than nothing left, and the
\* iterator's level exists.
THEOREM BookTyped == BookSpec => []BookTypeOK
<1>1. OwnInv => BookTypeOK
  BY DEF OwnInv, BookInv
<1> QED
  BY <1>1, SpecOwnInv, PTL

\* Between two commands, index (which cancel() asks) and queues (which it
\* removes from, and which submit() trades with) are the same book.
THEOREM IndexAndQueuesAgree == BookSpec => []IndexMatchesQueues
<1>1. OwnInv => IndexMatchesQueues
  BY InvIndexMatches DEF OwnInv
<1> QED
  BY <1>1, SpecOwnInv, PTL

\* submit() puts the orders it held aside back into their time slots,
\* however many orders it passed over, levels it walked and cancels came
\* between.
THEOREM QueuesInArrivalOrder == BookSpec => []TimeSlotsKept
<1>1. OwnInv => TimeSlotsKept
  BY InvTimeSlots DEF OwnInv
<1> QED
  BY <1>1, SpecOwnInv, PTL

\* makeTrade() and finalize() report every fill once: quantities, trades and
\* answers agree for taker and maker.
THEOREM NothingLostOrDuplicated == BookSpec => []FillsMatchTrades
<1>1. OwnInv => FillsMatchTrades
  BY ReportedMatches DEF OwnInv
<1> QED
  BY <1>1, SpecOwnInv, PTL

-----------------------------------------------------------------------------
(* The book implements price-time priority. *)

\* The orders and the taker of the abstract book.
OrderIn(i) ==
  [id |-> i, account |-> order[i].account, side |-> order[i].side, price |-> order[i].price,
   remaining |-> order[i].remaining, seq |-> Position(i)]
Rest == {OrderIn(i) : i \in index}
Tkr ==
  IF writer = None THEN None
  ELSE [id |-> writer.id, account |-> Incoming.account, side |-> Incoming.side,
        type |-> Incoming.type, price |-> Incoming.price, remaining |-> Incoming.remaining]

\* The abstract taker is the order on the writer.
LEMMA TakerThere ==
  ASSUME BookTypeOK, OnWriter, writer # None
  PROVE  /\ Tkr # None
         /\ Tkr = [id |-> writer.id, account |-> Incoming.account, side |-> Incoming.side,
                   type |-> Incoming.type, price |-> Incoming.price,
                   remaining |-> Incoming.remaining]
<1>1. WriterOK
  BY WriterFacts
<1>2. Tkr = [id |-> writer.id, account |-> Incoming.account, side |-> Incoming.side,
             type |-> Incoming.type, price |-> Incoming.price, remaining |-> Incoming.remaining]
  BY DEF Tkr
<1>3. Tkr \in Takers
  BY <1>1, <1>2 DEF WriterOK, Order, Takers
<1> QED
  BY <1>2, <1>3, NoneIsAbsent

\* Where an order stands is a number, and orders of the book are apart by id.
LEMMA PositionNat ==
  ASSUME Arrived, NEW i \in index
  PROVE  /\ Position(i) \in Nat /\ Position(i) <= Len(arrivals)
         /\ Position(i) \in DOMAIN arrivals /\ arrivals[Position(i)] = i
<1>1. PICK n \in DOMAIN arrivals : arrivals[n] = i
  BY DEF Arrived
<1>2. Position(i) \in DOMAIN arrivals /\ arrivals[Position(i)] = i
  BY <1>1 DEF Position
<1>3. DOMAIN arrivals = 1..Len(arrivals) /\ Len(arrivals) \in Nat
  BY DEF Arrived
<1> QED
  BY <1>2, <1>3

\* Steps after which the abstract book is what it was.
LEMMA SameAbstract ==
  ASSUME BookTypeOK, OnWriter, UNCHANGED <<index, future, arrivals>>,
         \A i \in DOMAIN order : order'[i] = order[i],
         IF writer = None THEN writer' = None ELSE writer' # None /\ writer'.id = writer.id
  PROVE  Rest' = Rest /\ Tkr' = Tkr
<1>1. index \subseteq DOMAIN order
  BY DEF BookTypeOK
<1>2. \A i : Position(i)' = Position(i)
  BY DEF Position
<1>3. \A i \in index : OrderIn(i)' = OrderIn(i)
  BY <1>1, <1>2 DEF OrderIn
<1>4. Rest' = Rest
  BY <1>3 DEF Rest
<1>5. CASE writer = None
  BY <1>4, <1>5 DEF Tkr
<1>6. CASE writer # None
  <2>1. Incoming' = Incoming
    BY <1>6, WriterFacts DEF WriterOK, Incoming
  <2> QED
    BY <1>4, <1>6, <2>1 DEF Tkr
<1> QED
  BY <1>5, <1>6

\* Equal abstract states are a stuttering step.
LEMMA StutterAbstract ==
  ASSUME Rest' = Rest, Tkr' = Tkr
  PROVE  [Abstract!Next]_(Abstract!bookVars)
BY DEF Abstract!bookVars, Rest, OrderIn, Tkr

\* submit() starts: an order arrives at the abstract book.
LEMMA StartIsArrive ==
  ASSUME BookInv, NEW id \in DOMAIN order, future[id] = None, StartSubmit(id)
  PROVE  Abstract!Arrive
<1>1. /\ writer' = [id |-> id, at |-> None, open |-> FALSE, held |-> <<>>] /\ writer = None
      /\ UNCHANGED <<levels, index, order, tradeSeq, future, arrivals>>
  BY DEF StartSubmit
<1>2. Tkr = None
  BY <1>1 DEF Tkr
<1>3. BookTypeOK' /\ OnWriter' /\ writer' # None /\ writer'.id = id
  BY <1>1, StartTypeOK, StartOnWriter DEF BookInv
<1>4. Tkr' # None
  <2>1. order[id] \in Order /\ id \in OrderIds
    BY DEF BookInv, BookTypeOK
  <2>2. Tkr' = [id |-> id, account |-> order[id].account, side |-> order[id].side,
                type |-> order[id].type, price |-> order[id].price,
                remaining |-> order[id].remaining]
    BY <1>1, <1>3 DEF Tkr, Incoming
  <2>3. Tkr' \in Takers
    BY <2>1, <2>2 DEF Order, Takers
  <2> QED
    BY <2>3, NoneIsAbsent
<1>5. Tkr'.remaining = order[id].remaining
  BY <1>1, <1>3 DEF Tkr, Incoming
<1>6. order[id].remaining > 0
  BY <1>1, OrderNumbers DEF BookInv, OnWriter
<1>7. Rest' = Rest
  BY <1>1 DEF Rest, OrderIn, Position
<1>8. Tkr = None /\ Tkr' # None /\ Tkr'.remaining > 0 /\ Rest' = Rest
  BY <1>2, <1>4, <1>5, <1>6, <1>7
<1> QED
  BY <1>8 DEF Abstract!Arrive, Rest, OrderIn, Tkr

-----------------------------------------------------------------------------
(* A trade is a fill of the order that is first in line. *)

\* What the taker would take, it crosses.
LEMMA TakesIsCrosses ==
  ASSUME BookTypeOK, OnWriter, writer # None, NEW p
  PROVE  /\ Abstract!Takes(Tkr, p) <=> Crosses(Incoming, p)
         /\ Abstract!OtherSide(Tkr.side) = Opp
<1>1. WriterOK
  BY WriterFacts
<1>2. Tkr.type = Incoming.type /\ Tkr.side = Incoming.side /\ Tkr.price = Incoming.price
  BY TakerThere
<1>3. Abstract!OtherSide(Tkr.side) = Opp
  BY <1>2 DEF Abstract!OtherSide, Opp, OtherSide
<1>4. CASE Incoming.type = "MARKET"
  BY <1>2, <1>3, <1>4 DEF Abstract!Takes, Crosses
<1>5. CASE Incoming.type # "MARKET"
  BY <1>2, <1>3, <1>5 DEF Abstract!Takes, Crosses
<1> QED
  BY <1>4, <1>5

\* An order the taker may trade with is on a level it has not passed.
LEMMA EligibleNotPassed ==
  ASSUME BookInv, writer # None, Incoming.remaining > 0,
         NEW m \in Abstract!Eligible(Tkr, Rest)
  PROVE  \E j \in index :
           /\ m = OrderIn(j) /\ order[j].side = Opp /\ order[j].account # Incoming.account
           /\ ~ Passed(order[j].price) /\ Crosses(Incoming, order[j].price)
           /\ order[j].price \in Prices
<1>1. BookTypeOK /\ OnWriter /\ PassedAreOwn /\ Arrived
  BY DEF BookInv
<1>2. /\ m \in Rest /\ m.side = Abstract!OtherSide(Tkr.side) /\ m.account # Tkr.account
      /\ Abstract!Takes(Tkr, m.price)
  BY DEF Abstract!Eligible
<1>3. PICK j \in index : m = OrderIn(j)
  BY <1>2 DEF Rest
<1>4. /\ order[j].side = Opp /\ order[j].account # Incoming.account
      /\ Crosses(Incoming, order[j].price)
  <2>1. m.side = order[j].side /\ m.account = order[j].account /\ m.price = order[j].price
    BY <1>3 DEF OrderIn
  <2>2. Tkr.account = Incoming.account
    BY <1>1, TakerThere
  <2> QED
    BY <1>1, <1>2, <2>1, <2>2, TakesIsCrosses
<1>5. ~ Passed(order[j].price)
  BY <1>1, <1>4 DEF PassedAreOwn
<1>6. order[j].price \in Prices
  BY <1>1 DEF BookTypeOK, Arrived, Order
<1> QED
  BY <1>3, <1>4, <1>5, <1>6

\* At the level at work, the front of the queue comes before the orders behind
\* it, and those held aside are the taker's own.
LEMMA FrontFirst ==
  ASSUME BookInv, Matching, NEW j \in index, order[j].side = Opp, order[j].price = writer.at,
         order[j].account # Incoming.account, j # Head(Queue)
  PROVE  Position(Head(Queue)) < Position(j)
<1>1. BookTypeOK /\ OnWriter /\ QueuesLineUp /\ WriterOK /\ writer # None /\ writer.open
  BY WriterFacts DEF BookInv, Matching
<1>2. PICK h, q, a : h = writer.held /\ q = Queue /\ a = writer.at
  OBVIOUS
<1>3. /\ h \in Seq(OrderIds) /\ q \in Seq(OrderIds) /\ q # <<>> /\ a \in Prices
      /\ Opp \in Sides
  BY <1>1, <1>2 DEF WriterOK, Matching
<1>4. PICK line, k : line = h \o q /\ k = Len(h) + 1
  OBVIOUS
<1>5. line \in Seq(OrderIds) /\ k \in DOMAIN line /\ line[k] = Head(q)
  BY <1>3, <1>4, FrontLeavesLine
<1>6. Line(Opp, a) = line
  BY <1>1, <1>2, <1>4 DEF Line, HeldAside, AtWork, WriterOK
<1>7. j \in RestingAt(Opp, a)
  BY <1>2 DEF RestingAt
<1>8. LinesUp(arrivals, line, RestingAt(Opp, a))
  BY <1>1, <1>3, <1>6 DEF QueuesLineUp
<1>9. PICK n \in DOMAIN line : line[n] = j
  BY <1>7, <1>8 DEF LinesUp
<1>10. k < n
  <2>1. n # k
    BY <1>2, <1>5, <1>9
  <2>2. ~ (n < k)
    <3>1. SUFFICES ASSUME n < k PROVE FALSE
      OBVIOUS
    <3>2. n \in 1..Len(h)
      BY <1>3, <1>4, <1>5, <3>1
    <3>3. line[n] = h[n]
      <4>1. \A i \in 1..(Len(h) + Len(q)) :
              (h \o q)[i] = IF i <= Len(h) THEN h[i] ELSE q[i - Len(h)]
        BY <1>3, ConcatProperties
      <4>2. n \in 1..(Len(h) + Len(q)) /\ n <= Len(h)
        BY <1>3, <3>2
      <4> QED
        BY <1>4, <4>1, <4>2
    <3>4. order[h[n]].account = Incoming.account
      BY <1>1, <1>2, <1>3, <3>2 DEF OnWriter
    <3> QED
      BY <1>9, <3>3, <3>4
  <2> QED
    BY <1>3, <1>4, <1>5, <2>1, <2>2
<1>11. PositionIn(arrivals, line[k]) < PositionIn(arrivals, line[n])
  BY <1>5, <1>8, <1>10 DEF LinesUp
<1> QED
  BY <1>2, <1>5, <1>9, <1>11 DEF Position, PositionIn

\* Among what the taker may trade with, the front of the queue is first in
\* line.
LEMMA FrontIsFirstInLine ==
  ASSUME BookInv, Matching, order[Head(Queue)].account # Incoming.account
  PROVE  /\ OrderIn(Head(Queue)) \in Abstract!Eligible(Tkr, Rest)
         /\ Abstract!FirstInLine(OrderIn(Head(Queue)), Abstract!Eligible(Tkr, Rest))
<1>1. BookTypeOK /\ OnWriter /\ QueuesLineUp /\ Arrived /\ writer # None
  BY DEF BookInv, Matching
<1>2. PICK r : r = Head(Queue)
  OBVIOUS
<1>3. WriterOK /\ writer.open /\ Incoming.remaining > 0
  BY <1>1, WriterFacts DEF Matching
<1>4. r \in index /\ order[r].side = Opp /\ order[r].price = writer.at
  BY <1>1, <1>2, FrontRests
<1>5. PICK m : m = OrderIn(r)
  OBVIOUS
<1>6. /\ m.side = Opp /\ m.price = writer.at /\ m.account # Incoming.account
      /\ m.seq = Position(r) /\ m \in Rest
  BY <1>2, <1>4, <1>5 DEF OrderIn, Rest
<1>7. m \in Abstract!Eligible(Tkr, Rest)
  <2>1. Crosses(Incoming, writer.at)
    BY <1>1, <1>3, NoneIsAbsent DEF OnWriter, WriterOK
  <2>2. Tkr.account = Incoming.account
    BY <1>1, TakerThere
  <2> QED
    BY <1>1, <1>6, <2>1, <2>2, TakesIsCrosses DEF Abstract!Eligible
<1>8. ASSUME NEW x \in Abstract!Eligible(Tkr, Rest) \ {m} PROVE Abstract!Precedes(m, x)
  <2>1. PICK j \in index :
          /\ x = OrderIn(j) /\ order[j].side = Opp /\ order[j].account # Incoming.account
          /\ ~ Passed(order[j].price) /\ order[j].price \in Prices
    BY <1>1, <1>3, EligibleNotPassed
  <2>2. x.price = order[j].price /\ x.seq = Position(j)
    BY <2>1 DEF OrderIn
  <2>3. CASE order[j].price = writer.at
    <3>1. j # r
      BY <1>5, <2>1
    <3>2. Position(r) < Position(j)
      BY <1>2, <2>1, <2>3, <3>1, FrontFirst
    <3> QED
      BY <1>6, <2>2, <2>3, <3>2 DEF Abstract!Precedes
  <2>4. CASE order[j].price # writer.at
    <3>1. ~ Ahead(Opp, order[j].price, writer.at) /\ writer.at \in Prices
      BY <1>3, <2>1, NoneIsAbsent DEF Passed, WriterOK
    <3>2. Ahead(Opp, writer.at, order[j].price)
      BY <2>1, <2>4, <3>1, AheadTotal
    <3>3. Opp \in {"BUY", "SELL"}
      BY <1>3 DEF WriterOK, Sides
    <3> QED
      BY <1>6, <2>2, <3>2, <3>3 DEF Abstract!Precedes, Ahead
  <2> QED
    BY <2>3, <2>4
<1> QED
  BY <1>2, <1>5, <1>7, <1>8 DEF Abstract!FirstInLine

\* A fill of the front order is an abstract fill of the first in line.
LEMMA TradeFrontIsFill ==
  ASSUME BookInv, TradeFront
  PROVE  Abstract!Fill
<1>1. BookTypeOK /\ OnWriter /\ QueuesLineUp /\ Arrived /\ writer # None /\ Matching
  BY DEF BookInv, TradeFront, Matching
<1>2. PICK r, n : /\ r = Head(Queue) /\ TradeOf(r, n)
  BY <1>1, TradeFrontIsTrade
<1>3. WriterOK /\ Incoming.remaining > 0
  BY <1>1, WriterFacts DEF Matching
<1>4. PICK m : m = OrderIn(r)
  OBVIOUS
<1>5. /\ m \in Abstract!Eligible(Tkr, Rest)
      /\ Abstract!FirstInLine(m, Abstract!Eligible(Tkr, Rest))
  BY <1>1, <1>2, <1>4, FrontIsFirstInLine DEF TradeFront
<1>6. m.remaining = order[r].remaining
  BY <1>4 DEF OrderIn
<1>7. /\ Tkr # None /\ Tkr.remaining = Incoming.remaining
      /\ n = IF m.remaining < Tkr.remaining THEN m.remaining ELSE Tkr.remaining
  BY <1>1, <1>2, <1>6, TakerThere DEF TradeOf
<1>8. /\ writer' = writer /\ arrivals' = arrivals /\ r \in index /\ r \in DOMAIN order
      /\ r # writer.id /\ n \in Nat
      /\ index' = IF order[r].remaining = n THEN index \ {r} ELSE index
      /\ DOMAIN order' = DOMAIN order
      /\ order' \in [DOMAIN order -> Order]
      /\ \A i \in DOMAIN order :
           /\ order'[i].account = order[i].account /\ order'[i].side = order[i].side
           /\ order'[i].type = order[i].type /\ order'[i].price = order[i].price
           /\ order'[i].remaining = order[i].remaining - (IF i \in {writer.id, r} THEN n ELSE 0)
  BY <1>2 DEF TradeOf, BothLose, SameTerms
<1>9. Tkr' = [Tkr EXCEPT !.remaining = @ - n]
  <2>1. /\ Incoming'.account = Incoming.account /\ Incoming'.side = Incoming.side
        /\ Incoming'.type = Incoming.type /\ Incoming'.price = Incoming.price
        /\ Incoming'.remaining = Incoming.remaining - n
    BY <1>3, <1>8 DEF WriterOK, Incoming
  <2>2. Tkr' = [id |-> writer.id, account |-> Incoming.account, side |-> Incoming.side,
                type |-> Incoming.type, price |-> Incoming.price,
                remaining |-> Incoming.remaining - n]
    BY <1>1, <1>8, <2>1 DEF Tkr
  <2> QED
    BY <1>1, <2>2, TakerThere
<1>10. \A i : Position(i)' = Position(i)
  BY <1>8 DEF Position
<1>11. writer.id \notin index
  BY <1>1, NotResting DEF OnWriter
<1>12. \A i \in index : i # r => OrderIn(i)' = OrderIn(i) /\ OrderIn(i) # m
  <2>1. ASSUME NEW i \in index, i # r PROVE OrderIn(i)' = OrderIn(i) /\ OrderIn(i) # m
    <3>1. i \in DOMAIN order /\ i # writer.id /\ order[i].remaining \in Nat
      BY <1>1, <1>11, <2>1, OrderNumbers DEF BookTypeOK
    <3>2. /\ order'[i].account = order[i].account /\ order'[i].side = order[i].side
          /\ order'[i].price = order[i].price /\ order'[i].remaining = order[i].remaining
      BY <1>8, <2>1, <3>1
    <3> QED
      BY <1>4, <1>10, <2>1, <3>2 DEF OrderIn
  <2> QED
    BY <2>1
<1>13. OrderIn(r)' = [m EXCEPT !.remaining = @ - n]
  <2>1. /\ order'[r].account = order[r].account /\ order'[r].side = order[r].side
        /\ order'[r].price = order[r].price /\ order'[r].remaining = order[r].remaining - n
    BY <1>8
  <2> QED
    BY <1>4, <1>10, <2>1 DEF OrderIn
<1>14. Rest' = (Rest \ {m}) \cup (IF m.remaining = n THEN {} ELSE {[m EXCEPT !.remaining = @ - n]})
  <2>0. PICK m2 : m2 = [m EXCEPT !.remaining = @ - n]
    OBVIOUS
  <2>1. Rest = {OrderIn(i) : i \in index} /\ Rest' = {OrderIn(i)' : i \in index'}
    BY DEF Rest
  <2>2. Rest \ {m} = {OrderIn(i) : i \in index \ {r}}
    BY <1>4, <1>12, <2>1
  <2>3. \A i \in index \ {r} : OrderIn(i)' = OrderIn(i)
    BY <1>12
  <2>4. CASE m.remaining = n
    <3>1. index' = index \ {r}
      BY <1>6, <1>8, <2>4
    <3>2. Rest' = {OrderIn(i) : i \in index \ {r}}
      BY <2>1, <2>3, <3>1
    <3> QED
      BY <2>2, <2>4, <3>2
  <2>5. CASE m.remaining # n
    <3>1. index' = (index \ {r}) \cup {r}
      BY <1>6, <1>8, <2>5
    <3>2. OrderIn(r)' = m2
      BY <1>13, <2>0
    <3>3. Rest' = {OrderIn(i) : i \in index \ {r}} \cup {m2}
      BY <2>1, <2>3, <3>1, <3>2
    <3> QED
      BY <2>0, <2>2, <2>5, <3>3
  <2> QED
    BY <2>4, <2>5
<1>15. Rest' = (Rest \ {m}) \cup Abstract!Reduced(m, n)
  BY <1>14 DEF Abstract!Reduced
<1>16. Tkr.remaining > 0
  BY <1>3, <1>7
<1> QED
  BY <1>5, <1>7, <1>9, <1>15, <1>16 DEF Abstract!Fill, Rest, OrderIn, Tkr

-----------------------------------------------------------------------------
(* An order leaves when nothing it may trade with crosses it. *)

\* A side's levels ahead of which the iterator goes on have a best one.
LEMMA BestLevel ==
  ASSUME BookTypeOK, PricesBounded, NEW side \in Sides, NEW at, Unvisited(side, at) # {}
  PROVE  \E p \in Unvisited(side, at) : IsNextLevel(p, side, at)
<1>1. PICK b \in Nat : \A p \in DOMAIN levels[side] : p <= b
  BY DEF PricesBounded
<1>2. PICK U : U = Unvisited(side, at)
  OBVIOUS
<1>3. U \in SUBSET Nat /\ U # {} /\ U \subseteq DOMAIN levels[side]
  BY <1>2, OrderBookAssumption DEF Unvisited, BookTypeOK
<1>4. CASE side = "SELL"
  <2>1. PICK p \in U : \A q \in U : p <= q
    BY <1>3, NatMin
  <2>2. \A q \in U \ {p} : p < q
    BY <1>3, <2>1
  <2> QED
    BY <1>2, <1>4, <2>1, <2>2 DEF IsNextLevel, Ahead
<1>5. CASE side = "BUY"
  <2>1. PICK T : T = {b - q : q \in U}
    OBVIOUS
  <2>2. T \in SUBSET Nat /\ T # {}
    <3>1. ASSUME NEW q \in U PROVE b - q \in Nat
      <4>1. q \in DOMAIN levels[side] /\ q \in Nat
        BY <1>3
      <4>2. q <= b
        BY <1>1, <4>1
      <4> QED
        BY <4>1, <4>2
    <3>2. T \in SUBSET Nat
      BY <2>1, <3>1
    <3> QED
      BY <1>3, <2>1, <3>2
  <2>3. PICK x \in T : \A y \in T : x <= y
    BY <2>2, NatMin
  <2>4. PICK p \in U : x = b - p
    BY <2>1, <2>3
  <2>5. ASSUME NEW q \in U \ {p} PROVE p > q
    <3>1. b - p <= b - q
      BY <2>1, <2>3, <2>4
    <3>2. p \in Nat /\ q \in Nat /\ p # q
      BY <1>3
    <3> QED
      BY <3>1, <3>2
  <2> QED
    BY <1>2, <1>5, <2>4, <2>5 DEF IsNextLevel, Ahead
<1> QED
  BY <1>4, <1>5 DEF Sides

\* A level ahead of one that crosses, crosses.
LEMMA BetterCrosses ==
  ASSUME BookTypeOK, OnWriter, writer # None, NEW p \in Prices, NEW q \in Prices,
         Crosses(Incoming, q), Ahead(Opp, p, q)
  PROVE  Crosses(Incoming, p)
<1>1. WriterOK
  BY WriterFacts
<1>2. /\ Incoming.price \in Nat /\ p \in Nat /\ q \in Nat
      /\ Incoming.side \in {"BUY", "SELL"}
  <2>1. PICK o : o = Incoming
    OBVIOUS
  <2>2. o \in Order
    BY <1>1, <2>1 DEF WriterOK
  <2>3. o.price \in Prices \cup {0} /\ o.side \in Sides
    BY <2>2 DEF Order
  <2>4. p \in Nat /\ q \in Nat
    BY OrderBookAssumption
  <2>5. o.price \in Nat
    <3>1. 0 \in Nat
      OBVIOUS
    <3>2. \A x \in Prices : x \in Nat
      BY OrderBookAssumption
    <3> QED
      BY <2>3, <3>1, <3>2
  <2> QED
    BY <2>1, <2>3, <2>4, <2>5 DEF Sides
<1>3. CASE Incoming.side = "BUY"
  BY <1>2, <1>3 DEF Crosses, Ahead, Opp, OtherSide
<1>4. CASE Incoming.side = "SELL"
  BY <1>2, <1>4 DEF Crosses, Ahead, Opp, OtherSide
<1> QED
  BY <1>2, <1>3, <1>4

\* When the loop ends with something left, nothing eligible crosses.
LEMMA NothingEligible ==
  ASSUME BookInv, MatchingDone, Incoming.remaining # 0
  PROVE  Abstract!Eligible(Tkr, Rest) = {}
<1>1. /\ BookTypeOK /\ QueuesLineUp /\ Arrived /\ OnWriter /\ PricesBounded
      /\ writer # None /\ ~ writer.open
  BY DEF BookInv, MatchingDone
<1>2. WriterOK /\ Incoming.remaining > 0
  BY <1>1, WriterFacts, OrderNumbers DEF WriterOK, Incoming
<1>3. SUFFICES ASSUME NEW m \in Abstract!Eligible(Tkr, Rest) PROVE FALSE
  OBVIOUS
<1>4. PICK j \in index :
        /\ order[j].side = Opp /\ ~ Passed(order[j].price)
        /\ Crosses(Incoming, order[j].price) /\ order[j].price \in Prices
  BY <1>1, <1>2, EligibleNotPassed
<1>5. PICK x : x = order[j].price
  OBVIOUS
<1>6. x \in DOMAIN levels[Opp]
  BY <1>1, <1>4, <1>5, RestingQueued
<1>7. x \in Unvisited(Opp, writer.at)
  <2>1. CASE writer.at = None
    BY <1>6, <2>1 DEF Unvisited
  <2>2. CASE writer.at # None
    <3>1. x # writer.at /\ ~ Ahead(Opp, x, writer.at)
      BY <1>1, <1>4, <1>5, <2>2 DEF Passed
    <3>2. Ahead(Opp, writer.at, x)
      BY <1>2, <1>4, <1>5, <2>2, <3>1, AheadTotal DEF WriterOK
    <3> QED
      BY <1>6, <2>2, <3>2 DEF Unvisited
  <2> QED
    BY <2>1, <2>2
<1>8. PICK p \in Unvisited(Opp, writer.at) : IsNextLevel(p, Opp, writer.at)
  BY <1>1, <1>2, <1>7, BestLevel DEF WriterOK
<1>9. p \in DOMAIN levels[Opp] /\ p \in Prices
  <2>1. p \in DOMAIN levels[Opp]
    BY <1>8 DEF Unvisited
  <2>2. Opp \in Sides
    BY <1>2 DEF WriterOK
  <2> QED
    BY <1>1, <2>1, <2>2 DEF BookTypeOK
<1>10. Crosses(Incoming, p)
  <2>1. CASE p = x
    BY <1>4, <1>5, <2>1
  <2>2. CASE p # x
    <3>1. Ahead(Opp, p, x)
      BY <1>7, <1>8, <2>2 DEF IsNextLevel
    <3> QED
      BY <1>1, <1>4, <1>5, <1>9, <3>1, BetterCrosses
  <2> QED
    BY <2>1, <2>2
<1> QED
  BY <1>8, <1>9, <1>10 DEF MatchingDone

\* finalize() is the abstract order leaving, to rest or for good.
LEMMA FinalizeIsLeave ==
  ASSUME BookInv, Finalize
  PROVE  Abstract!Leave
<1>1. BookTypeOK /\ OnWriter /\ Arrived /\ writer # None /\ MatchingDone
  BY DEF BookInv, Finalize, MatchingDone
<1>2. /\ Tkr # None /\ Tkr.remaining = Incoming.remaining /\ Tkr.type = Incoming.type
      /\ Tkr.id = writer.id /\ Tkr.account = Incoming.account /\ Tkr.side = Incoming.side
      /\ Tkr.price = Incoming.price
  BY <1>1, TakerThere
<1>3. Tkr.remaining = 0 \/ Abstract!Eligible(Tkr, Rest) = {}
  BY <1>1, <1>2, NothingEligible
<1>4. Tkr' = None /\ order' = order
  BY DEF Finalize, Tkr
<1>5. CASE Tkr.remaining > 0 /\ Tkr.type = "LIMIT"
  <2>1. PICK id, o : id = writer.id /\ o = Incoming /\ RestStep(id, o)
    BY <1>1, <1>2, <1>5, FinalizeRests
  <2>2. /\ arrivals \in Seq(OrderIds) /\ IsInjective(arrivals) /\ id \in OrderIds
        /\ \A n \in DOMAIN arrivals : arrivals[n] # id
        /\ arrivals' = Append(arrivals, id) /\ index' = index \cup {id} /\ o = order[id]
    BY <1>1, <2>1 DEF RestStep, Arrived
  <2>3. /\ PositionIn(arrivals', id) = Len(arrivals) + 1
        /\ \A n \in DOMAIN arrivals : PositionIn(arrivals', arrivals[n]) = n
    BY <2>2, PositionStays
  <2>4. \A i \in index : Position(i)' = Position(i)
    <3>1. ASSUME NEW i \in index PROVE Position(i)' = Position(i)
      <4>1. PICK n \in DOMAIN arrivals : n = Position(i) /\ arrivals[n] = i
        BY <1>1, PositionNat
      <4>2. PositionIn(arrivals', i) = n
        BY <2>3, <4>1
      <4> QED
        BY <4>1, <4>2 DEF Position, PositionIn
    <3> QED
      BY <3>1
  <2>5. Position(id)' = Len(arrivals) + 1
    BY <2>3 DEF Position, PositionIn
  <2>6. \A i \in index : OrderIn(i)' = OrderIn(i)
    BY <1>4, <2>4 DEF OrderIn
  <2>7. PICK r : r = OrderIn(id)'
    OBVIOUS
  <2>8. Rest' = Rest \cup {r}
    BY <2>2, <2>6, <2>7 DEF Rest
  <2>9. /\ r.id = Tkr.id /\ r.account = Tkr.account /\ r.side = Tkr.side
        /\ r.price = Tkr.price /\ r.remaining = Tkr.remaining /\ r.seq = Len(arrivals) + 1
    BY <1>2, <1>4, <2>1, <2>2, <2>5, <2>7 DEF OrderIn
  <2>10. \A m \in Rest : m.seq < r.seq
    <3>1. ASSUME NEW m \in Rest PROVE m.seq < r.seq
      <4>1. PICK i \in index : m = OrderIn(i)
        BY DEF Rest
      <4>2. m.seq = Position(i) /\ Position(i) \in Nat /\ Position(i) <= Len(arrivals)
        BY <1>1, <4>1, PositionNat DEF OrderIn
      <4>3. Len(arrivals) \in Nat
        BY <2>2
      <4> QED
        BY <2>9, <4>2, <4>3
    <3> QED
      BY <3>1
  <2>11. Abstract!RestsBehind(r, Tkr, Rest)
    BY <2>9, <2>10 DEF Abstract!RestsBehind
  <2>12. \E x \in Rest' : Abstract!RestsBehind(x, Tkr, Rest) /\ Rest' = Rest \cup {x}
    BY <2>8, <2>11
  <2> QED
    BY <1>2, <1>3, <1>4, <1>5, <2>12 DEF Abstract!Leave, Rest, OrderIn, Tkr
<1>6. CASE ~ (Tkr.remaining > 0 /\ Tkr.type = "LIMIT")
  <2>1. UNCHANGED <<index, arrivals>>
    BY <1>1, <1>2, <1>6, FinalizeRests DEF NoRestStep
  <2>2. Rest' = Rest
    BY <1>4, <2>1 DEF Rest, OrderIn, Position
  <2> QED
    BY <1>2, <1>3, <1>4, <1>6, <2>2 DEF Abstract!Leave, Rest, OrderIn, Tkr
<1> QED
  BY <1>5, <1>6

\* cancel() takes one order out of the abstract book, or does nothing.
LEMMA CancelIsCancel ==
  ASSUME BookInv, NEW id, CancelById(id)
  PROVE  Abstract!Cancel \/ (Rest' = Rest /\ Tkr' = Tkr)
<1>1. writer = None /\ UNCHANGED <<order, writer, arrivals>>
  BY DEF CancelById
<1>2. Tkr = None /\ Tkr' = None
  BY <1>1 DEF Tkr
<1>3. \A i : OrderIn(i)' = OrderIn(i)
  BY <1>1 DEF OrderIn, Position
<1>4. CASE id \in index
  <2>1. index' = index \ {id}
    BY <1>4 DEF CancelById
  <2>2. PICK m : m = OrderIn(id)
    OBVIOUS
  <2>3. m \in Rest
    BY <1>4, <2>2 DEF Rest
  <2>4. \A i \in index : i # id => OrderIn(i) # m
    BY <2>2 DEF OrderIn
  <2>5. Rest' = Rest \ {m}
    <3>1. Rest = {OrderIn(i) : i \in index} /\ Rest' = {OrderIn(i)' : i \in index'}
      BY DEF Rest
    <3>2. Rest' = {OrderIn(i) : i \in index \ {id}}
      BY <1>3, <2>1, <3>1
    <3> QED
      BY <2>2, <2>4, <3>1, <3>2
  <2>6. \E x \in Rest : Rest' = Rest \ {x}
    BY <2>3, <2>5
  <2>7. Abstract!Cancel
    BY <1>2, <2>6 DEF Abstract!Cancel, Rest, OrderIn, Tkr
  <2> QED
    BY <2>7
<1>5. CASE id \notin index
  <2>1. index' = index
    BY <1>5 DEF CancelById
  <2> QED
    BY <1>2, <1>3, <2>1 DEF Rest
<1> QED
  BY <1>4, <1>5

-----------------------------------------------------------------------------
(* Every step is one of the abstract book, or none. *)

\* Each step of the writer is an abstract step or a stutter.
LEMMA WriterImplements ==
  ASSUME BookInv, WriterStep
  PROVE  [Abstract!Next]_(Abstract!bookVars)
<1>0. BookTypeOK /\ OnWriter
  BY DEF BookInv
<1>1. CASE TradeFront
  BY <1>1, TradeFrontIsFill DEF Abstract!Next
<1>2. CASE Finalize
  BY <1>2, FinalizeIsLeave DEF Abstract!Next
<1>3. CASE NextLevel \/ HoldOwn \/ CloseLevel
  <2>1. UNCHANGED <<index, order, future, arrivals>> /\ writer # None
    BY <1>3 DEF NextLevel, HoldOwn, CloseLevel, Matching
  <2>2. writer' # None /\ writer'.id = writer.id
    BY <1>0, <1>3, NextLevelWriter, HoldOwnWriter, CloseLevelWriter
  <2>3. Rest' = Rest /\ Tkr' = Tkr
    BY <1>0, <2>1, <2>2, SameAbstract
  <2> QED
    BY <2>3, StutterAbstract
<1> QED
  BY <1>1, <1>2, <1>3 DEF WriterStep

\* So is every step of a book on its own.
LEMMA StepImplements ==
  ASSUME OwnInv, [BookNext]_bookState
  PROVE  [Abstract!Next]_(Abstract!bookVars)
<1>0. BookInv /\ Numbered /\ BookTypeOK /\ OnWriter
  BY DEF OwnInv, BookInv
<1>1. ASSUME NEW o \in NewOrders, Create(o) PROVE [Abstract!Next]_(Abstract!bookVars)
  <2>1. PICK id : NewOrder(id, id, o)
    BY <1>0, <1>1, CreateIsNewOrder
  <2>2. /\ UNCHANGED <<index, future, arrivals, writer>>
        /\ \A i \in DOMAIN order : order'[i] = order[i]
    BY <2>1, NewOrderHeap DEF NewOrder
  <2>3. Rest' = Rest /\ Tkr' = Tkr
    BY <1>0, <2>2, SameAbstract
  <2> QED
    BY <2>3, StutterAbstract
<1>2. ASSUME NEW id \in Waiting, StartSubmit(id) PROVE [Abstract!Next]_(Abstract!bookVars)
  <2>1. id \in DOMAIN order /\ future[id] = None
    BY DEF Waiting
  <2> QED
    BY <1>0, <1>2, <2>1, StartIsArrive DEF Abstract!Next
<1>3. ASSUME NEW id \in OrderIds, CancelById(id) PROVE [Abstract!Next]_(Abstract!bookVars)
  <2>1. CASE Abstract!Cancel
    BY <2>1 DEF Abstract!Next
  <2>2. CASE Rest' = Rest /\ Tkr' = Tkr
    BY <2>2, StutterAbstract
  <2> QED
    BY <1>0, <1>3, <2>1, <2>2, CancelIsCancel
<1>4. CASE WriterStep
  BY <1>0, <1>4, WriterImplements
<1>5. CASE UNCHANGED bookState
  <2>1. UNCHANGED <<index, order, writer, future, arrivals>>
    BY <1>5 DEF bookState
  <2>2. Rest' = Rest /\ Tkr' = Tkr
    BY <1>0, <2>1, SameAbstract
  <2> QED
    BY <2>2, StutterAbstract
<1> QED
  BY <1>1, <1>2, <1>3, <1>4, <1>5 DEF BookNext

\* The empty book is the abstract book's initial state.
LEMMA InitImplements ==
  ASSUME BookInit
  PROVE  Abstract!Init
<1>1. Rest = {} /\ Tkr = None
  BY DEF BookInit, Rest, Tkr
<1> QED
  BY <1>1 DEF Abstract!Init, Rest, OrderIn, Tkr

\* OrderBook's levels, iterator and holding aside implement price-time
\* priority with the skip policy: each step is a step of PriceTimeBook or
\* leaves it unchanged.
THEOREM BookIsPriceTime == BookSpec => PriceTimePriority
<1>1. BookInit => Abstract!Init
  BY InitImplements
<1>2. OwnInv /\ [BookNext]_bookState => [Abstract!Next]_(Abstract!bookVars)
  BY StepImplements
<1> QED
  BY <1>1, <1>2, SpecOwnInv, PTL DEF BookSpec, PriceTimePriority, Abstract!Spec
=============================================================================
