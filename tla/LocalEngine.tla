----------------------------- MODULE LocalEngine -----------------------------
(***************************************************************************)
(* The in-process matching engine of the gateway                            *)
(* (gateway/internal/engine/local.go, with the ledger of ledger.go).        *)
(*                                                                          *)
(* HTTP goroutines and the market simulator call SubmitOrder and            *)
(* CancelOrder concurrently.  SubmitOrder takes an order id from an atomic  *)
(* counter BEFORE it takes the engine's mutex, so ids and queue positions   *)
(* (`seq', taken under the mutex) may disagree.  Under the mutex it trades  *)
(* fill by fill: one Match step per iteration of the code's loop.           *)
(*                                                                          *)
(* The side and the type of an order are not validated by the gateway:      *)
(* SideInputs and TypeInputs are the strings a request may carry.           *)
(***************************************************************************)
EXTENDS Ledger, FiniteSets, Sequences, FiniteSetsExt

CONSTANTS
  Threads,        \* goroutines that call the engine
  Accounts,       \* account ids, MarketMaker among them
  MarketMaker,    \* owner of the seeded liquidity
  Traders,        \* the accounts whose orders arrive
  Symbols,
  Cancellers,     \* the accounts cancels arrive for; None when auth is off
  Prices,         \* priceTicks of requests (non-positive ones are rejected)
  Quantities,     \* quantities of requests (non-positive ones are rejected)
  SideInputs,     \* side strings of requests
  TypeInputs,     \* type strings of requests
  StartingCash,   \* StartingCashTicks
  SeedSymbols,    \* the symbols NewLocalEngine seeds, in order
  SeedDepth,      \* seeded levels per side (5 in the code)
  SeedMid,        \* seeded mid price (10000 in the code)
  SeedUnit,       \* quantity of the first seeded level (10 in the code)
  MaxPrice,       \* largest price (the int64 limit in the code)
  MaxOrders,      \* bound: ids handed out, seeds included
  None            \* no thread, no call, no account

ASSUME LocalEngineAssumption ==
  /\ IsFiniteSet(Accounts) /\ IsFiniteSet(Symbols)
  /\ MarketMaker \in Accounts /\ Traders \subseteq Accounts
  /\ None \notin Threads
  /\ Prices \subseteq Int /\ Quantities \subseteq Int
  /\ MaxPrice \in Nat /\ \A p \in Prices : p <= MaxPrice
  /\ StartingCash \in Int /\ MaxOrders \in Nat
  /\ SeedSymbols \in Seq(Symbols)
  /\ SeedDepth \in Nat /\ SeedUnit \in Nat \ {0}
  /\ SeedMid \in Nat /\ SeedDepth < SeedMid /\ SeedMid + SeedDepth <= MaxPrice

VARIABLES
  mu,          \* holder of LocalEngine.mu, or None
  orderID,     \* atomic counter of order ids
  seq,         \* atomic counter of queue positions
  book,        \* books: the resting orders of every symbol
  accounts,    \* ledger per account
  lastPrice,   \* last trade price per symbol, 0 before the first
  call,        \* per thread, the order it is submitting, or None
  tape,        \* the trades returned to callers, in order (trade ids are positions)
  history      \* per order id: the request and how it was answered (auxiliary)

vars == <<mu, orderID, seq, book, accounts, lastPrice, call, tape, history>>

Sides == {"BUY", "SELL"}

\* A request as SubmitOrder receives it.
NewOrder ==
  [account : Traders, symbol : Symbols, side : SideInputs, type : TypeInputs,
   price : Prices, quantity : Quantities]

-----------------------------------------------------------------------------
\* seedBook(): bids below and asks above the mid, all of the market maker.
SeedId(k, i, side) ==
  2 * SeedDepth * (k - 1) + 2 * (i - 1) + (IF side = "BUY" THEN 1 ELSE 2)

Seed(k, i, side) ==
  [id |-> SeedId(k, i, side), account |-> MarketMaker, symbol |-> SeedSymbols[k],
   side |-> side,
   price |-> IF side = "BUY" THEN SeedMid - i ELSE SeedMid + i,
   remaining |-> i * SeedUnit, seq |-> SeedId(k, i, side)]

Seeds == {Seed(k, i, side) : k \in 1..Len(SeedSymbols), i \in 1..SeedDepth, side \in Sides}

SeedCount == 2 * SeedDepth * Len(SeedSymbols)

\* What the history records of an order: its request, the status and filled
\* quantity it was answered with, and the quantity a cancel took off the book.
Entry(o, status) ==
  [account |-> o.account, symbol |-> o.symbol, side |-> o.side, type |-> o.type,
   quantity |-> o.quantity, status |-> status, filled |-> 0, cancelled |-> 0]

SeedEntry(s) ==
  Entry([account |-> s.account, symbol |-> s.symbol, side |-> s.side,
         type |-> "LIMIT", quantity |-> s.remaining], "ACCEPTED")

Init ==
  /\ mu = None
  /\ orderID = SeedCount
  /\ seq = SeedCount
  /\ book = Seeds
  /\ accounts = [a \in Accounts |-> OpenAccount(Symbols, StartingCash)]
  /\ lastPrice = [s \in Symbols |-> 0]
  /\ call = [t \in Threads |-> None]
  /\ tape = <<>>
  /\ history = [n \in 1..SeedCount |-> SeedEntry(CHOOSE s \in Seeds : s.id = n)]

-----------------------------------------------------------------------------
\* bestOpposite(): the side it looks for, the orders it considers (never the
\* taker's own), and the comparison it keeps the best of them by.
Wanted(side) == IF side = "SELL" THEN "BUY" ELSE "SELL"

Candidates(o) ==
  {m \in book : m.symbol = o.symbol /\ m.side = Wanted(o.side) /\ m.account # o.account}

BetterPrice(side, p, q) == IF side = "SELL" THEN p < q ELSE p > q

\* Mutant: the latest order at a price is served first.
MutIsBestOpposite(m, o) ==
  /\ m \in Candidates(o)
  /\ \A n \in Candidates(o) \ {m} :
       BetterPrice(m.side, m.price, n.price) \/ (m.price = n.price /\ m.seq > n.seq)

IsBestOpposite(m, o) ==
  /\ m \in Candidates(o)
  /\ \A n \in Candidates(o) \ {m} :
       BetterPrice(m.side, m.price, n.price) \/ (m.price = n.price /\ m.seq < n.seq)

\* Mutant: a LIMIT order does not trade at its own price.
MutCrosses(o, restPrice) ==
  \/ o.type = "MARKET"
  \/ IF o.side = "BUY" THEN o.price > restPrice ELSE o.price < restPrice

\* crosses(): MARKET takes any price; any other type respects its own price.
Crosses(o, restPrice) ==
  \/ o.type = "MARKET"
  \/ IF o.side = "BUY" THEN o.price >= restPrice ELSE o.price <= restPrice

\* The condition under which the matching loop runs once more.
CanFill(o) ==
  o.remaining > 0 /\ \E m \in book : IsBestOpposite(m, o) /\ Crosses(o, m.price)

\* Mutant: a maker that is used up stays in the book.
MutAfterFill(m, fill) == {[m EXCEPT !.remaining = @ - fill]}

\* remove(), or the maker's reduced remaining quantity.
AfterFill(m, fill) == IF m.remaining = fill THEN {} ELSE {[m EXCEPT !.remaining = @ - fill]}

StatusFor(type, filled, remaining) ==
  CASE filled = 0 /\ type = "MARKET" -> "REJECTED"
    [] filled = 0 /\ type # "MARKET" -> "ACCEPTED"
    [] filled # 0 /\ remaining = 0   -> "FILLED"
    [] filled # 0 /\ remaining # 0   -> "PARTIALLY_FILLED"

\* The checks SubmitOrder makes before it takes the mutex.
Valid(o) == o.quantity > 0 /\ (o.type = "LIMIT" => o.price > 0)

\* SubmitOrder up to the mutex: the id is consumed even by a rejected order.
SubmitOrder(t, o) ==
  /\ call[t] = None
  /\ orderID < MaxOrders
  /\ orderID' = orderID + 1
  /\ IF Valid(o)
     THEN /\ call' = [call EXCEPT ![t] =
                [id |-> orderID', account |-> o.account, symbol |-> o.symbol,
                 side |-> o.side, type |-> o.type, price |-> o.price,
                 quantity |-> o.quantity, remaining |-> o.quantity]]
          /\ history' = Append(history, Entry(o, "PENDING"))
     ELSE /\ UNCHANGED call
          /\ history' = Append(history, Entry(o, "REJECTED"))
  /\ UNCHANGED <<mu, seq, book, accounts, lastPrice, tape>>

Lock(t) ==
  /\ call[t] # None
  /\ mu = None
  /\ mu' = t
  /\ UNCHANGED <<orderID, seq, book, accounts, lastPrice, call, tape, history>>

\* Mutant: the incoming order is always recorded as the buyer.
MutTradeOf(o, m, fill) ==
  [symbol |-> o.symbol, price |-> m.price, quantity |-> fill,
   buyOrder |-> o.id, sellOrder |-> m.id]

\* The trade of one fill; it prints at the maker's price.
TradeOf(o, m, fill) ==
  [symbol |-> o.symbol, price |-> m.price, quantity |-> fill,
   buyOrder |-> IF o.side = "SELL" THEN m.id ELSE o.id,
   sellOrder |-> IF o.side = "SELL" THEN o.id ELSE m.id]

\* Mutant: the maker is settled at the taker's price.
MutBookFill(o, m, fill) ==
  [accounts EXCEPT
     ![o.account] = ApplyFill(@, o.symbol, o.side, m.price, fill),
     ![m.account] = ApplyFill(@, o.symbol, Opposite(o.side), o.price, fill)]

\* Both counterparties' ledgers, the taker's first.
BookFill(o, m, fill) ==
  [accounts EXCEPT
     ![o.account] = ApplyFill(@, o.symbol, o.side, m.price, fill),
     ![m.account] = ApplyFill(@, o.symbol, Opposite(o.side), m.price, fill)]

\* One iteration of the matching loop.
Match(t) ==
  /\ mu = t
  /\ call[t].remaining > 0
  /\ \E m \in book :
       /\ IsBestOpposite(m, call[t])
       /\ Crosses(call[t], m.price)
       /\ LET o    == call[t]
              fill == Lesser(o.remaining, m.remaining)
          IN /\ call' = [call EXCEPT ![t].remaining = @ - fill]
             /\ book' = (book \ {m}) \cup AfterFill(m, fill)
             /\ tape' = Append(tape, TradeOf(o, m, fill))
             /\ accounts' = BookFill(o, m, fill)
             /\ lastPrice' = [lastPrice EXCEPT ![o.symbol] = m.price]
  /\ UNCHANGED <<mu, orderID, seq, history>>

\* What SubmitOrder leaves resting, behind everything in the book.
RestingOrder(o) ==
  [id |-> o.id, account |-> o.account, symbol |-> o.symbol, side |-> o.side,
   price |-> o.price, remaining |-> o.remaining, seq |-> seq + 1]

\* Mutant: a LIMIT order that met nobody is not kept.
MutRests(o) == o.remaining > 0 /\ o.remaining < o.quantity /\ o.type = "LIMIT"

\* "Leftover LIMIT quantity rests in the book; MARKET leftover is discarded."
Rests(o) == o.remaining > 0 /\ o.type = "LIMIT"

\* The end of SubmitOrder: rest a LIMIT remainder, discard any other, answer,
\* release the mutex.
Finish(t) ==
  /\ mu = t
  /\ ~ CanFill(call[t])
  /\ LET o      == call[t]
         filled == o.quantity - o.remaining
     IN /\ book' = IF Rests(o) THEN book \cup {RestingOrder(o)} ELSE book
        /\ seq' = IF Rests(o) THEN seq + 1 ELSE seq
        /\ history' = [history EXCEPT
             ![o.id].status = StatusFor(o.type, filled, o.remaining),
             ![o.id].filled = filled]
  /\ call' = [call EXCEPT ![t] = None]
  /\ mu' = None
  /\ UNCHANGED <<orderID, accounts, lastPrice, tape>>

\* CancelOrder, one critical section.  `who' is None when the request carries
\* no account (auth disabled): ownership is then not checked.  An unknown id
\* and somebody else's order are answered REJECTED and change nothing.
MayCancel(m, who) == who = None \/ m.account = who

\* Mutant: the rejecting return of CancelOrder leaves the mutex locked.
MutCancelOrder(id, who) ==
  /\ mu = None
  /\ \/ \E m \in book :
          /\ m.id = id
          /\ MayCancel(m, who)
          /\ book' = book \ {m}
          /\ history' = [history EXCEPT ![id].cancelled = @ + m.remaining]
          /\ UNCHANGED <<mu, orderID, seq, accounts, lastPrice, call, tape>>
     \/ /\ ~ \E m \in book : m.id = id /\ MayCancel(m, who)
        /\ mu' = "canceller"
        /\ UNCHANGED <<orderID, seq, book, accounts, lastPrice, call, tape, history>>

CancelOrder(id, who) ==
  /\ mu = None
  /\ \/ \E m \in book :
          /\ m.id = id
          /\ MayCancel(m, who)
          /\ book' = book \ {m}
          /\ history' = [history EXCEPT ![id].cancelled = @ + m.remaining]
          /\ UNCHANGED <<mu, orderID, seq, accounts, lastPrice, call, tape>>
     \/ /\ ~ \E m \in book : m.id = id /\ MayCancel(m, who)
        /\ UNCHANGED vars

Next ==
  \/ \E t \in Threads, o \in NewOrder : SubmitOrder(t, o)
  \/ \E t \in Threads : Lock(t) \/ Match(t) \/ Finish(t)
  \/ \E id \in 1..MaxOrders, who \in Cancellers : CancelOrder(id, who)

\* sync.Mutex hands itself to a waiter that has been passed over for long
\* enough (starvation mode), so a waiting caller is not overtaken for ever; a
\* goroutine that holds the mutex runs on.
Fairness == \A t \in Threads : SF_vars(Lock(t)) /\ WF_vars(Match(t) \/ Finish(t))

Spec == Init /\ [][Next]_vars

FairSpec == Spec /\ Fairness
-----------------------------------------------------------------------------
(* Properties *)

Orders == [id : Nat, account : Accounts, symbol : Symbols, side : SideInputs \cup Sides,
           price : 1..MaxPrice, remaining : Nat \ {0}, seq : Nat]

Takers == [id : Nat, account : Accounts, symbol : Symbols, side : SideInputs,
           type : TypeInputs, price : Prices, quantity : Nat \ {0}, remaining : Nat]

\* A thread without a call is told apart from a thread with one.
ASSUME NoneIsNoCall == None \notin Takers

Trades == [symbol : Symbols, price : 1..MaxPrice, quantity : Nat \ {0},
           buyOrder : Nat, sellOrder : Nat]

\* Type invariant: resting orders always have a price and something left, the
\* order of a waiting caller is a valid one, and the mutex is held only by a
\* goroutine with an order to match.
TypeOK ==
  /\ mu \in Threads \cup {None}
  /\ mu # None => call[mu] # None
  /\ orderID \in Nat /\ seq \in Nat
  /\ book \in SUBSET Orders
  /\ accounts \in [Accounts -> LedgerAccount(Symbols)]
  /\ lastPrice \in [Symbols -> 0..MaxPrice]
  /\ call \in [Threads -> Takers \cup {None}]
  /\ \A t \in Threads : call[t] # None => Valid(call[t])
  /\ tape \in Seq(Trades)

\* Queue positions are handed out under the mutex: no two resting orders share
\* one, and none is ahead of the counter.
QueuePositions ==
  /\ \A m \in book : m.seq <= seq
  /\ \A m, n \in book : m.seq = n.seq => m = n

\* No two resting orders of different accounts could trade with each other
\* (ADR 0008 allows only a same-account crossed pair): SubmitOrder rests a
\* remainder only when no other account's order crosses it, and no concurrent
\* submission or cancel can slip between that decision and the append.
BookNotCrossed ==
  \A b, s \in book :
    b.symbol = s.symbol /\ b.side = "BUY" /\ s.side = "SELL" /\ b.account # s.account
      => b.price < s.price

\* ledger_test.go: "cash must be conserved".  applyFill moves cash between the
\* two counterparties of a fill and creates or destroys none.
CashConserved ==
  MapThenSumSet(LAMBDA a : accounts[a].cash, Accounts) = StartingCash * Cardinality(Accounts)

\* GetAccount's unrealized P&L.
Unrealized(a) ==
  MapThenSumSet(LAMBDA s : UnrealizedOn(accounts[a].positions[s], lastPrice[s]), Symbols)

MarketValue(a) ==
  MapThenSumSet(LAMBDA s : lastPrice[s] * accounts[a].positions[s].qty, Symbols)

\* ledger_test.go TestRealizedTiesToCashWhenFlat, for every account and state:
\* what GetAccount reports adds up to the tick.  Cash plus the open positions
\* at their mark is the opening balance plus realised plus unrealised P&L, over
\* any series of openings, partial closes (with their rounding), and flips.
AccountReconciles ==
  \A a \in Accounts :
    accounts[a].cash + MarketValue(a) = StartingCash + accounts[a].realized + Unrealized(a)

TradesIn(s) == {i \in DOMAIN tape : tape[i].symbol = s}
BoughtBy(a, i) == IF history[tape[i].buyOrder].account = a THEN tape[i].quantity ELSE 0
SoldBy(a, i) == IF history[tape[i].sellOrder].account = a THEN tape[i].quantity ELSE 0

\* The tape and the ledger agree: an account's position in a symbol is what the
\* trades it was told about say it bought, less what they say it sold.
PositionsMatchTape ==
  \A a \in Accounts, s \in Symbols :
    accounts[a].positions[s].qty =
      MapThenSumSet(LAMBDA i : BoughtBy(a, i) - SoldBy(a, i), TradesIn(s))

\* The average cost of an open position never leaves the range of prices traded
\* in its symbol, although every partial close rounds the part it takes away
\* and carries the rest forward (ledger.go, "carries the remainder forward"); a
\* flat position carries no cost.
BasisWithinTradedPrices ==
  \A a \in Accounts, s \in Symbols :
    LET pos == accounts[a].positions[s] IN
    IF pos.qty = 0 THEN pos.costBasis = 0
    ELSE \E i, j \in TradesIn(s) :
           /\ tape[i].price * Abs(pos.qty) <= pos.costBasis
           /\ pos.costBasis <= tape[j].price * Abs(pos.qty)

Executed(id) ==
  MapThenSumSet(LAMBDA i : tape[i].quantity,
                {i \in DOMAIN tape : id \in {tape[i].buyOrder, tape[i].sellOrder}})

RestingQty(id) == MapThenSumSet(LAMBDA m : m.remaining, {m \in book : m.id = id})

\* Every answer stays true.  A FILLED order was executed in full, a REJECTED one
\* not at all.  Of any other order each unit was executed, is still resting, or
\* was taken off the book by a cancel and by nothing else (statusFor: "limit order
\* rested"); only a MARKET order answered PARTIALLY_FILLED gives up a remainder,
\* and it never trades more than the filled quantity of its answer.
AnswersStayTrue ==
  \A id \in DOMAIN history :
    LET h == history[id] IN
    /\ h.status = "FILLED" => Executed(id) = h.quantity
    /\ h.status = "REJECTED" => Executed(id) = 0 /\ RestingQty(id) = 0
    /\ h.status \in {"ACCEPTED", "PARTIALLY_FILLED"} =>
         IF h.status = "PARTIALLY_FILLED" /\ h.type = "MARKET"
           THEN Executed(id) = h.filled /\ RestingQty(id) = 0
           ELSE Executed(id) + RestingQty(id) + h.cancelled = h.quantity

\* The abstract book of one symbol: the order under the mutex is the taker.
Book(s) ==
  INSTANCE PriceTimeBook WITH
    NoTaker <- None,
    resting <- {m \in book : m.symbol = s},
    taker   <- IF mu # None /\ call[mu].symbol = s THEN call[mu] ELSE None

\* Every symbol's book follows price-time priority with the skip policy,
\* whatever the interleaving of submissions and cancels.
\* (\A s \in Symbols : Book(s)!Spec, with the quantifier moved inwards.)
PriceTimePriority ==
  /\ \A s \in Symbols : Book(s)!Init
  /\ [][\A s \in Symbols : [Book(s)!Next]_(Book(s)!bookVars)]_vars

\* Every submission is answered: nobody waits for the mutex for ever, and the
\* matching loop ends.
Answered == \A t \in Threads : call[t] # None ~> call[t] = None
=============================================================================
