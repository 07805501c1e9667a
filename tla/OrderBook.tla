------------------------------ MODULE OrderBook ------------------------------
(***************************************************************************)
(* The Java engine's single-symbol book                                     *)
(* (engine/.../book/OrderBook.java), step by step as its one writer thread  *)
(* runs it: price levels in best-first order, a FIFO queue of order ids per *)
(* level, an index of resting orders.  Orders are shared mutable objects:   *)
(* queue and index refer to them by id, `order' is the heap.                *)
(*                                                                          *)
(* submit() walks the levels with an iterator.  At each level the taker's   *)
(* own orders are pulled out of the queue and held aside while the others   *)
(* trade, then put back at the front.                                       *)
(***************************************************************************)
EXTENDS Integers, Sequences, FiniteSets, FiniteSetsExt, SequencesExt, TLC

CONSTANTS
  Accounts,
  Prices,       \* priceTicks of accepted orders
  Quantities,   \* quantities of accepted orders
  OrderIds,     \* ids the engine may assign
  None          \* absent value

ASSUME OrderBookAssumption ==
  /\ Prices \subseteq Nat \ {0} /\ Quantities \subseteq Nat \ {0}
  /\ OrderIds \subseteq Nat

VARIABLES
  levels,       \* bids and asks: per side, price -> queue of order ids
  index,        \* ids of the resting orders
  order,        \* the Order objects created so far, by id
  tradeSeq,     \* counter behind trade ids
  writer,       \* the submit() in progress on the writer thread, or None
  trades,       \* the trade list of that submit()
  future,       \* per order id, its MatchResult once complete
  arrivals      \* ids in the order they were rested (auxiliary)

bookState == <<levels, index, order, tradeSeq, writer, trades, future, arrivals>>

Sides == {"BUY", "SELL"}
Types == {"LIMIT", "MARKET"}

OtherSide(side) == IF side = "BUY" THEN "SELL" ELSE "BUY"

\* An Order as its constructor accepts it (positive quantity and limit price;
\* the price of a MARKET order is ignored).
NewOrders ==
  {o \in [account : Accounts, side : Sides, type : Types, price : Prices \cup {0},
          quantity : Quantities] : (o.type = "MARKET") <=> (o.price = 0)}

BookInit ==
  /\ levels = [s \in Sides |-> <<>>]
  /\ index = {}
  /\ order = <<>>
  /\ tradeSeq = 0
  /\ writer = None
  /\ trades = <<>>
  /\ future = [i \in OrderIds |-> None]
  /\ arrivals = <<>>

-----------------------------------------------------------------------------
\* Mutant: both maps ascend.
MutAhead(side, p, q) == p < q

\* The TreeMaps' order: bids descending, asks ascending.
Ahead(side, p, q) == IF side = "BUY" THEN p > q ELSE p < q

\* crosses().
Crosses(o, price) ==
  \/ o.type = "MARKET"
  \/ IF o.side = "BUY" THEN o.price >= price ELSE o.price <= price

\* Mutant: every round starts from firstEntry() again.
MutUnvisited(side, at) == DOMAIN levels[side]

\* Levels the iterator has not handed out yet, and the one it hands out next.
Unvisited(side, at) == {p \in DOMAIN levels[side] : IF at = None THEN TRUE ELSE Ahead(side, at, p)}

IsNextLevel(p, side, at) ==
  p \in Unvisited(side, at) /\ \A q \in Unvisited(side, at) \ {p} : Ahead(side, p, q)

Incoming == order[writer.id]
Opp == OtherSide(Incoming.side)
Queue == levels[Opp][writer.at]

\* Map.put().
Put(map, key, value) == [k \in DOMAIN map \cup {key} |-> IF k = key THEN value ELSE map[k]]

\* A level with its queue replaced; an empty level is taken out of the map.
WithLevel(side, p, q) ==
  [levels EXCEPT ![side] = IF q = <<>> THEN [r \in DOMAIN @ \ {p} |-> @[r]]
                           ELSE Put(@, p, q)]

\* submit(): the writer thread starts on an order.
StartSubmit(id) ==
  /\ writer = None
  /\ writer' = [id |-> id, at |-> None, open |-> FALSE, held |-> <<>>]
  /\ trades' = <<>>
  /\ UNCHANGED <<levels, index, order, tradeSeq, future, arrivals>>

\* levelIt.next(), when the level crosses.
NextLevel ==
  /\ writer # None
  /\ ~ writer.open
  /\ Incoming.remaining > 0
  /\ \E p \in DOMAIN levels[Opp] :
       /\ IsNextLevel(p, Opp, writer.at)
       /\ Crosses(Incoming, p)
       /\ writer' = [writer EXCEPT !.at = p, !.open = TRUE]
  /\ UNCHANGED <<levels, index, order, tradeSeq, trades, future, arrivals>>

\* The inner loop runs while there is something to match on both sides.
Matching == writer # None /\ writer.open /\ Queue # <<>> /\ Incoming.remaining > 0

\* Self-match prevention: the front order is the taker's own, hold it aside.
HoldOwn ==
  /\ Matching
  /\ order[Head(Queue)].account = Incoming.account
  /\ levels' = [levels EXCEPT ![Opp][writer.at] = Tail(@)]
  /\ writer' = [writer EXCEPT !.held = Append(@, Head(Queue))]
  /\ UNCHANGED <<index, order, tradeSeq, trades, future, arrivals>>

\* Mutant: the trade reports all of the resting order.
MutMakeTrade(restingId, qty) ==
  LET buyId == IF Incoming.side = "BUY" THEN writer.id ELSE restingId
      sellId == IF Incoming.side = "BUY" THEN restingId ELSE writer.id
  IN [tradeId |-> tradeSeq + 1, price |-> writer.at, quantity |-> order[restingId].remaining,
      buyOrder |-> buyId, sellOrder |-> sellId,
      buyAccount |-> order[buyId].account, sellAccount |-> order[sellId].account]

\* makeTrade(): the id is the per-symbol counter, the price the level's.
MakeTrade(restingId, qty) ==
  LET buyId == IF Incoming.side = "BUY" THEN writer.id ELSE restingId
      sellId == IF Incoming.side = "BUY" THEN restingId ELSE writer.id
  IN [tradeId |-> tradeSeq + 1, price |-> writer.at, quantity |-> qty,
      buyOrder |-> buyId, sellOrder |-> sellId,
      buyAccount |-> order[buyId].account, sellAccount |-> order[sellId].account]

\* Mutant: the taker's remainder, whatever the resting order has left.
MutFillQty(taker, maker) == taker.remaining

FillQty(taker, maker) == Min({taker.remaining, maker.remaining})

\* The front order of another account trades with the taker.
TradeFront ==
  /\ Matching
  /\ order[Head(Queue)].account # Incoming.account
  /\ LET r   == Head(Queue)
         qty == FillQty(Incoming, order[r])
         filled == order[r].remaining = qty
     IN /\ trades' = Append(trades, MakeTrade(r, qty))
        /\ tradeSeq' = tradeSeq + 1
        /\ order' = [order EXCEPT ![writer.id].remaining = @ - qty, ![r].remaining = @ - qty]
        /\ levels' = IF filled THEN [levels EXCEPT ![Opp][writer.at] = Tail(@)] ELSE levels
        /\ index' = IF filled THEN index \ {r} ELSE index
  /\ UNCHANGED <<writer, future, arrivals>>

\* Mutant: the held orders go back to the end of the queue.
MutRestored(held, queue) == queue \o held

\* addFirst in reverse: the held orders are in front again, in their order.
Restored(held, queue) == held \o queue

\* The end of one level: restore the held orders, drop the level if empty.
CloseLevel ==
  /\ writer # None
  /\ writer.open
  /\ ~ Matching
  /\ levels' = WithLevel(Opp, writer.at, Restored(writer.held, Queue))
  /\ writer' = [writer EXCEPT !.open = FALSE, !.held = <<>>]
  /\ UNCHANGED <<index, order, tradeSeq, trades, future, arrivals>>

\* The outer loop stops: used up, no level left, or the next does not cross.
MatchingDone ==
  /\ writer # None
  /\ ~ writer.open
  /\ \/ Incoming.remaining = 0
     \/ ~ \E p \in DOMAIN levels[Opp] : IsNextLevel(p, Opp, writer.at) /\ Crosses(Incoming, p)

ResultStatus(o) ==
  LET filled == o.quantity - o.remaining IN
  IF o.remaining = 0 THEN "FILLED"
  ELSE IF filled > 0 THEN "PARTIALLY_FILLED"
       ELSE IF o.type = "MARKET" THEN "REJECTED" ELSE "ACCEPTED"

\* finalize() and rest(): a LIMIT remainder goes to the back of its level.
Finalize ==
  /\ MatchingDone
  /\ LET id    == writer.id
         o     == Incoming
         rests == o.remaining > 0 /\ o.type = "LIMIT"
         side  == levels[o.side]
         queue == IF o.price \in DOMAIN side THEN side[o.price] ELSE <<>>
     IN /\ levels' = IF rests THEN WithLevel(o.side, o.price, Append(queue, id)) ELSE levels
        /\ index' = IF rests THEN index \cup {id} ELSE index
        /\ arrivals' = IF rests THEN Append(arrivals, id) ELSE arrivals
        /\ future' = [future EXCEPT ![id] =
             [status |-> ResultStatus(o), filled |-> o.quantity - o.remaining, trades |-> trades]]
  /\ writer' = None
  /\ trades' = <<>>
  /\ UNCHANGED <<order, tradeSeq>>

\* Mutant: cancel() removes the front of the level instead of the order.
MutWithout(queue, id) == Tail(queue)

\* ArrayDeque.remove(order): its first occurrence.
Without(queue, id) == RemoveFirst(queue, id)

\* cancel(): one writer command.
CancelById(id) ==
  /\ writer = None
  /\ IF id \in index
     THEN LET o == order[id] IN
          /\ index' = index \ {id}
          /\ levels' = WithLevel(o.side, o.price, Without(levels[o.side][o.price], id))
     ELSE UNCHANGED <<index, levels>>
  /\ UNCHANGED <<order, tradeSeq, writer, trades, future, arrivals>>

\* The writer's own steps within one submit().
WriterStep == NextLevel \/ HoldOwn \/ TradeFront \/ CloseLevel \/ Finalize

\* new Order(...); clientOrderId is carried along and never looked at.
Construct(id, client, o) ==
  order' = Put(order, id,
    [client |-> client, account |-> o.account, side |-> o.side, type |-> o.type,
     price |-> o.price, quantity |-> o.quantity, remaining |-> o.quantity])

\* A book on its own: orders are numbered as they reach the writer, and any id
\* may be cancelled between two of them.
Waiting == {id \in DOMAIN order : future[id] = None}

Create(o) ==
  /\ Waiting = {}
  /\ Cardinality(DOMAIN order) + 1 \in OrderIds
  /\ Construct(Cardinality(DOMAIN order) + 1, Cardinality(DOMAIN order) + 1, o)
  /\ UNCHANGED <<levels, index, tradeSeq, writer, trades, future, arrivals>>

BookNext ==
  \/ \E o \in NewOrders : Create(o)
  \/ \E id \in Waiting : StartSubmit(id)
  \/ \E id \in OrderIds : CancelById(id)
  \/ WriterStep

BookSpec == BookInit /\ [][BookNext]_bookState /\ WF_bookState(WriterStep)

-----------------------------------------------------------------------------
(* Properties *)

Trade == [tradeId : Nat, price : Prices, quantity : Nat \ {0},
          buyOrder : OrderIds, sellOrder : OrderIds,
          buyAccount : Accounts, sellAccount : Accounts]

Order == [client : Nat, account : Accounts, side : Sides, type : Types,
          price : Prices \cup {0}, quantity : Quantities, remaining : Nat]

Writers == [id : OrderIds, at : Prices \cup {None}, open : BOOLEAN, held : Seq(OrderIds)]

Results == [status : {"FILLED", "PARTIALLY_FILLED", "REJECTED", "ACCEPTED"}, filled : Nat,
            trades : Seq(Trade)]

Takers == [id : OrderIds, account : Accounts, side : Sides, type : Types,
           price : Prices \cup {0}, remaining : Nat]

\* What is absent (Java's null) is told apart from what is there.
ASSUME NoneIsAbsent ==
  None \notin Prices /\ None \notin Writers /\ None \notin Results /\ None \notin Takers

\* Type invariant.
BookTypeOK ==
  /\ DOMAIN levels = Sides
  /\ \A s \in Sides : /\ DOMAIN levels[s] \subseteq Prices
                      /\ \A p \in DOMAIN levels[s] : levels[s][p] \in Seq(OrderIds)
  /\ index \subseteq DOMAIN order
  /\ DOMAIN order \subseteq OrderIds
  /\ \A i \in DOMAIN order : /\ order[i] \in Order
                             /\ order[i].remaining <= order[i].quantity
                             /\ order[i].type = "MARKET" <=> order[i].price = 0
  /\ tradeSeq \in Nat
  /\ trades \in Seq(Trade)
  /\ future \in [OrderIds -> Results \cup {None}]
  /\ writer # None => writer \in Writers /\ writer.id \in DOMAIN order

\* Between two commands the index and the queues describe the same book: every
\* indexed order is queued exactly once, at its own side and price, with
\* something left; and no empty level is left behind.  (A cancel finds an order
\* by the index and removes it from a queue: a stale pair would cancel
\* nothing, or leave an order trading after it was cancelled.)
IndexMatchesQueues ==
  writer = None =>
    /\ \A s \in Sides, p \in Prices :
         IF p \in DOMAIN levels[s]
         THEN /\ levels[s][p] # <<>>
              /\ IsInjective(levels[s][p])
              /\ Range(levels[s][p]) = {i \in index : order[i].side = s /\ order[i].price = p}
         ELSE {i \in index : order[i].side = s /\ order[i].price = p} = {}
    /\ \A i \in index : order[i].remaining > 0

Position(id) == CHOOSE n \in DOMAIN arrivals : arrivals[n] = id

\* OrderBook.submit: own orders are restored "to their original time-priority
\* slot".  Whenever no level is being worked on, each queue is in the order in
\* which its orders came to rest.
TimeSlotsKept ==
  writer = None \/ ~ writer.open =>
    \A s \in Sides : \A p \in DOMAIN levels[s] : \A m, n \in DOMAIN levels[s][p] :
      m < n => Position(levels[s][p][m]) < Position(levels[s][p][n])

\* All trades so far: of completed submissions and of the one in progress.
AllTrades ==
  (UNION {Range(future[i].trades) : i \in {j \in OrderIds : future[j] # None}}) \cup Range(trades)

TradedQty(id) ==
  MapThenSumSet(LAMBDA t : t.quantity, {t \in AllTrades : id \in {t.buyOrder, t.sellOrder}})

\* MatchingEngineTest: "nothing lost or duplicated".  What an order lost of its
\* quantity is what the reported trades say it traded, for taker and maker
\* alike, and the answer's filled quantity is the taker's trades.
FillsMatchTrades ==
  /\ \A i \in DOMAIN order : order[i].quantity - order[i].remaining = TradedQty(i)
  /\ \A i \in OrderIds : future[i] # None =>
       future[i].filled = FoldSeq(LAMBDA t, n : t.quantity + n, 0, future[i].trades)

\* The abstract book: the indexed orders rest, the order on the writer trades.
Abstract ==
  INSTANCE PriceTimeBook WITH
    NoTaker <- None,
    resting <- {[id |-> i, account |-> order[i].account, side |-> order[i].side,
                 price |-> order[i].price, remaining |-> order[i].remaining,
                 seq |-> Position(i)] : i \in index},
    taker   <- IF writer = None THEN None
               ELSE [id |-> writer.id, account |-> Incoming.account, side |-> Incoming.side,
                     type |-> Incoming.type, price |-> Incoming.price,
                     remaining |-> Incoming.remaining]

\* The levels, the iterator and the holding aside implement price-time priority
\* with the skip policy: every fill goes to the order that is first in line, and
\* an order stops matching only when nothing it may trade with crosses it.
PriceTimePriority == Abstract!Spec

\* Every submission ends: a level made up of the taker's own orders is passed
\* over, not selected for ever (OrderBook.submit, ADR 0008).
WriterReturns == writer # None ~> writer = None
=============================================================================
