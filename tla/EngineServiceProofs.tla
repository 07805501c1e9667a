------------------------- MODULE EngineServiceProofs -------------------------
(***************************************************************************)
(* What is proved of the Java engine as a service, for any number of handler *)
(* threads, requests, retries and crashes.                                   *)
(*                                                                          *)
(* The book's lemmas carry over, since each of its steps is taken here with  *)
(* the same preconditions.  On top come: each submission has its own order   *)
(* and its own trades, of ids used once per run (TradesOwned); what is       *)
(* queued or on the writer is waited for (QueueOK); a row of the ledger has  *)
(* all of its postings (LedgerOK); and a trade of an answered order is       *)
(* recorded, given up, or still its live handler's to record (SettledOK).    *)
(***************************************************************************)
EXTENDS EngineService, OrderBookProofs

-----------------------------------------------------------------------------
(* The inductive invariant of the service. *)

\* The trades of a submission, answered or on the writer.
Reports(i) ==
  IF future[i] # None THEN Range(future[i].trades)
  ELSE IF writer # None /\ writer.id = i THEN Range(trades) ELSE {}

\* A trade has an id of its own and belongs to one submission.
TradesOwned ==
  /\ \A t, u \in AllTrades : t.tradeId = u.tradeId => t = u
  /\ \A i, j \in OrderIds : i # j => Reports(i) \cap Reports(j) = {}

\* The book within the service.
BookPart == BookInv /\ Reported /\ TradesOwned

Submitting(r) == rpc[r] # None /\ rpc[r].op = "submit"
Live(i) == \E r \in Rpcs : Submitting(r) /\ rpc[r].id = i

\* An order the writer has not taken yet.
Untaken(i) == future[i] = None /\ (writer # None => writer.id # i)

\* The handlers: each submission has its own order, numbered by the sequence;
\* until the result is there no trade of it has been looked at.
CallsOK ==
  /\ DOMAIN order \subseteq 1..sequence
  /\ \A q, r \in Rpcs : Submitting(q) /\ Submitting(r) /\ q # r => rpc[q].id # rpc[r].id
  /\ \A r \in Rpcs : Submitting(r) /\ future[rpc[r].id] = None => rpc[r].next = 1
  /\ \A r \in Rpcs : rpc[r] # None /\ rpc[r].pc = "enqueue" => Submitting(r) /\ Untaken(rpc[r].id)

\* The queue: a command is that of a handler that waits for it, a handler has
\* at most one, and what is on the writer is waited for.
Asked(c) ==
  /\ rpc[c.rpc] # None /\ rpc[c.rpc].pc = "wait"
  /\ rpc[c.rpc].op = c.op /\ rpc[c.rpc].id = c.id
  /\ c.op = "submit" => Untaken(c.id)

QueueOK ==
  /\ \A n \in DOMAIN cmds : Asked(cmds[n])
  /\ \A m, n \in DOMAIN cmds : m # n => cmds[m].rpc # cmds[n].rpc
  /\ writer # None => \E r \in Rpcs : Submitting(r) /\ rpc[r].pc = "wait" /\ rpc[r].id = writer.id

\* The ledger, whatever crashed: each row has the postings of some trade, and
\* no others.
PostingsOf(id) == {e \in entries : e.tradeId = id}

LedgerOK ==
  /\ \A row \in rows : \E t \in Trade : row = RowOf(t) /\ PostingsOf(row.tradeId) = EntriesFor(t)
  /\ \A e \in entries : \E row \in rows : row.tradeId = e.tradeId

\* The ledger of this run of the engine: its rows are trades of the book, and a
\* trade of an answered submission is in it, unless its recording was given up
\* or the handler has still to get to it.
Done(i, t) == i \in OrderIds /\ future[i] # None /\ t \in Range(future[i].trades) /\ ~ Live(i)

SettledOK ==
  /\ \A row \in rows : \E t \in AllTrades : row = RowOf(t) /\ EntriesFor(t) \subseteq entries
  /\ \A r \in Rpcs : Served(r) =>
       \A n \in 1..TradeCount(r) : n < rpc[r].next => Settled(Result(r).trades[n])
  /\ \A t \in acked \cup Range(stream) : Settled(t)
  /\ \A i \in OrderIds : future[i] # None =>
       \A t \in Range(future[i].trades) : Settled(t) \/ t \in unrecorded \/ Live(i)
  /\ \A t \in acked \cup unrecorded : \E i : Done(i, t)
  /\ acked \cap unrecorded = {}

-----------------------------------------------------------------------------
(* The book within the service. *)

\* The book's trades are those of its submissions.
LEMMA AllTradesReported ==
  ASSUME BookInv, NEW t
  PROVE  t \in AllTrades <=> \E i \in OrderIds : t \in Reports(i)
<1>1. OnWriter /\ BookTypeOK
  BY DEF BookInv
<1>2. t \in AllTrades <=> \/ \E i \in OrderIds : future[i] # None /\ t \in Range(future[i].trades)
                          \/ t \in Range(trades)
  BY DEF AllTrades
<1>3. CASE writer = None
  <2>1. Range(trades) = {}
    BY <1>1, <1>3 DEF OnWriter, Range
  <2> QED
    BY <1>2, <1>3, <2>1 DEF Reports
<1>4. CASE writer # None
  <2>1. writer.id \in OrderIds /\ future[writer.id] = None
    BY <1>1, <1>4, WriterFacts DEF WriterOK, OnWriter
  <2>2. Reports(writer.id) = Range(trades)
    BY <1>4, <2>1 DEF Reports
  <2>3. \A i \in OrderIds : future[i] # None => Reports(i) = Range(future[i].trades)
    BY DEF Reports
  <2>4. \A i \in OrderIds : future[i] = None /\ i # writer.id => Reports(i) = {}
    BY <1>4 DEF Reports
  <2> QED
    BY <1>2, <2>1, <2>2, <2>3, <2>4
<1> QED
  BY <1>3, <1>4

\* Ownership is about what has been reported.
LEMMA SameOwned ==
  ASSUME TradesOwned, AllTrades' = AllTrades, \A i \in OrderIds : Reports(i)' = Reports(i)
  PROVE  TradesOwned'
BY DEF TradesOwned

\* A step of the book that leaves results, trades and the writer's order alone.
LEMMA QuietOwned ==
  ASSUME TradesOwned, UNCHANGED <<future, trades>>,
         IF writer = None THEN writer' = None ELSE writer' # None /\ writer'.id = writer.id
  PROVE  TradesOwned'
<1>1. AllTrades' = AllTrades
  BY DEF AllTrades
<1>2. \A i \in OrderIds : Reports(i)' = Reports(i)
  BY DEF Reports
<1> QED
  BY <1>1, <1>2, SameOwned

\* The empty book.
LEMMA InitBookPart == BookInit => BookPart
<1> SUFFICES ASSUME BookInit PROVE BookPart
  OBVIOUS
<1>1. BookInv /\ Reported
  BY InitBookInv, InitReported
<1>2. \A i \in OrderIds : Reports(i) = {}
  <2>1. \A i \in OrderIds : future[i] = None
    BY DEF BookInit
  <2> QED
    BY <2>1 DEF BookInit, Reports
<1>3. \A t : t \notin AllTrades
  BY <1>1, <1>2, AllTradesReported
<1> QED
  BY <1>1, <1>2, <1>3 DEF BookPart, TradesOwned

\* Nothing happens to the book.
LEMMA SameBookPart ==
  ASSUME BookPart, UNCHANGED <<levels, index, order, tradeSeq, writer, trades, future, arrivals>>
  PROVE  BookPart' /\ AllTrades' = AllTrades
<1>1. BookInv'
  BY SameBookInv DEF BookPart
<1>2. Reported'
  BY DEF BookPart, Reported, AllTrades, TradesOf, Incoming
<1>3. TradesOwned' /\ AllTrades' = AllTrades
  BY DEF BookPart, TradesOwned, AllTrades, Reports
<1> QED
  BY <1>1, <1>2, <1>3 DEF BookPart

\* A new Order.
LEMMA NewOrderBookPart ==
  ASSUME BookPart, NEW id, NEW client, NEW o, NewOrder(id, client, o)
  PROVE  BookPart' /\ AllTrades' = AllTrades
<1>1. BookInv' /\ Reported'
  BY NewOrderKeepsInv, NewOrderReported DEF BookPart
<1>2. UNCHANGED <<future, trades, writer>>
  BY DEF NewOrder
<1>3. TradesOwned'
  BY <1>2, QuietOwned DEF BookPart
<1> QED
  BY <1>1, <1>2, <1>3 DEF BookPart, AllTrades

\* cancel().
LEMMA CancelBookPart ==
  ASSUME BookPart, NEW id, CancelById(id)
  PROVE  BookPart' /\ AllTrades' = AllTrades
<1>1. BookInv' /\ Reported'
  BY CancelKeepsInv, CancelReported DEF BookPart
<1>2. UNCHANGED <<future, trades, writer>>
  BY DEF CancelById
<1>3. TradesOwned'
  BY <1>2, QuietOwned DEF BookPart
<1> QED
  BY <1>1, <1>2, <1>3 DEF BookPart, AllTrades

\* submit() starts.
LEMMA StartBookPart ==
  ASSUME BookPart, NEW id \in DOMAIN order, future[id] = None, StartSubmit(id)
  PROVE  BookPart' /\ AllTrades' = AllTrades
<1>1. BookInv' /\ Reported' /\ BookInv
  BY StartKeepsInv, StartReported DEF BookPart
<1>2. UNCHANGED future /\ trades' = <<>> /\ trades = <<>> /\ writer = None /\ writer'.id = id
  BY DEF StartSubmit, BookPart, BookInv, OnWriter
<1>3. AllTrades' = AllTrades
  BY <1>2 DEF AllTrades
<1>4. \A i \in OrderIds : Reports(i)' = Reports(i)
  <2>1. Range(<<>>) = {}
    BY DEF Range
  <2> QED
    BY <1>2, <2>1 DEF Reports
<1> QED
  BY <1>1, <1>3, <1>4, SameOwned DEF BookPart

\* What a step of the writer does to the results: at most that of its order
\* comes in, and trades are added only.
WriterMoves ==
  /\ writer # None /\ future[writer.id] = None
  /\ writer' # None => writer'.id = writer.id
  /\ UNCHANGED future \/ (writer' = None /\ future'[writer.id] # None)
  /\ \A i \in OrderIds : i # writer.id => future'[i] = future[i]
  /\ AllTrades \subseteq AllTrades'
  /\ DOMAIN order' = DOMAIN order

\* A fill's trade is new and the writer's.
LEMMA TradeFrontOwned ==
  ASSUME BookPart, TradeFront
  PROVE  TradesOwned' /\ WriterMoves
<1>0. /\ BookInv /\ Reported /\ TradesOwned /\ BookTypeOK /\ QueuesLineUp /\ Arrived /\ OnWriter
  BY DEF BookPart, BookInv
<1>1. WriterOK /\ writer # None /\ writer.open /\ future[writer.id] = None
  BY <1>0, WriterFacts DEF TradeFront, Matching, OnWriter
<1>2. PICK r, n : TradeOf(r, n)
  BY <1>0, TradeFrontIsTrade
<1>3. PICK x : x = MakeTrade(r, n)
  OBVIOUS
<1>4. x \in Trade /\ x.tradeId = tradeSeq + 1
  BY <1>0, <1>1, <1>2, <1>3, TradeIsTyped
<1>5. /\ trades' = Append(trades, x) /\ UNCHANGED <<writer, future>>
      /\ trades \in Seq(Trade) /\ tradeSeq \in Nat
  BY <1>0, <1>2, <1>3 DEF TradeOf, BookTypeOK
<1>6. AllTrades' = AllTrades \cup {x} /\ Range(trades') = Range(trades) \cup {x}
  BY <1>4, <1>5, RangeGrows DEF AllTrades
<1>7. \A t \in AllTrades : t.tradeId # x.tradeId
  <2>1. \A t \in AllTrades : t.tradeId <= tradeSeq /\ t.tradeId \in Nat
    BY <1>0 DEF Reported, Trade
  <2> QED
    BY <1>4, <1>5, <2>1
<1>8. \A i \in OrderIds : Reports(i)' = IF i = writer.id THEN Reports(i) \cup {x} ELSE Reports(i)
  BY <1>1, <1>5, <1>6 DEF Reports
<1>9. \A i \in OrderIds : x \notin Reports(i)
  BY <1>0, <1>7, AllTradesReported
<1>10. TradesOwned'
  <2>1. \A t, u \in AllTrades' : t.tradeId = u.tradeId => t = u
    BY <1>0, <1>6, <1>7 DEF TradesOwned
  <2>2. \A i, j \in OrderIds : i # j => Reports(i)' \cap Reports(j)' = {}
    BY <1>0, <1>8, <1>9 DEF TradesOwned
  <2> QED
    BY <2>1, <2>2 DEF TradesOwned
<1>11. DOMAIN order' = DOMAIN order
  BY <1>2 DEF TradeOf, BothLose, SameTerms
<1> QED
  BY <1>1, <1>5, <1>6, <1>10, <1>11 DEF WriterMoves

\* The result has the trades the writer had.
LEMMA FinalizeOwned ==
  ASSUME BookPart, Finalize
  PROVE  TradesOwned' /\ WriterMoves
<1>1. WriterOK /\ writer # None /\ future[writer.id] = None
  BY WriterFacts DEF BookPart, BookInv, OnWriter, Finalize, MatchingDone
<1>2. PICK res : /\ res.trades = trades /\ res # None
                 /\ future' = [future EXCEPT ![writer.id] = res]
  BY FinalizeResult DEF BookPart, BookInv
<1>3. /\ future'[writer.id] = res
      /\ \A i \in OrderIds : i # writer.id => future'[i] = future[i]
  BY <1>1, <1>2 DEF BookPart, BookInv, BookTypeOK, WriterOK
<1>4. AllTrades' = AllTrades
  BY FinalizeAllTrades DEF BookPart
<1>5. writer' = None /\ order' = order
  BY DEF Finalize
<1>6. \A i \in OrderIds : Reports(i)' = Reports(i)
  BY <1>1, <1>2, <1>3, <1>5 DEF Reports
<1> QED
  BY <1>1, <1>2, <1>3, <1>4, <1>5, <1>6, SameOwned DEF BookPart, WriterMoves

\* Any step of the writer.
LEMMA WriterBookPart ==
  ASSUME BookPart, WriterStep
  PROVE  BookPart' /\ WriterMoves
<1>1. BookInv' /\ Reported'
  BY WriterKeepsInv, WriterReported DEF BookPart
<1>2. CASE NextLevel \/ HoldOwn \/ CloseLevel
  <2>1. writer # None /\ UNCHANGED <<future, trades, order>>
    BY <1>2 DEF NextLevel, HoldOwn, CloseLevel, Matching
  <2>2. writer \in Writers /\ future[writer.id] = None
    BY <2>1 DEF BookPart, BookInv, BookTypeOK, OnWriter
  <2>3. writer'.id = writer.id
    BY <1>2, <2>2 DEF NextLevel, HoldOwn, CloseLevel, Writers
  <2>4. writer' # None
    <3>1. CASE NextLevel
      BY <3>1, NextLevelWriter DEF BookPart, BookInv
    <3>2. CASE HoldOwn
      BY <3>2, HoldOwnWriter DEF BookPart, BookInv
    <3>3. CASE CloseLevel
      BY <3>3, CloseLevelWriter DEF BookPart, BookInv
    <3> QED
      BY <1>2, <3>1, <3>2, <3>3
  <2>5. TradesOwned'
    BY <2>1, <2>3, <2>4, QuietOwned DEF BookPart
  <2>6. AllTrades' = AllTrades
    BY <2>1 DEF AllTrades
  <2> QED
    BY <1>1, <2>1, <2>2, <2>3, <2>4, <2>5, <2>6 DEF BookPart, WriterMoves
<1>3. CASE TradeFront
  BY <1>1, <1>3, TradeFrontOwned DEF BookPart
<1>4. CASE Finalize
  BY <1>1, <1>4, FinalizeOwned DEF BookPart
<1> QED
  BY <1>2, <1>3, <1>4 DEF WriterStep

-----------------------------------------------------------------------------
(* Handlers and queue. *)

\* The handler r now serves the call c, or none; the others go on.
Serves(r, c) ==
  /\ rpc' \in [Rpcs -> Calls \cup {None}] /\ rpc'[r] = c
  /\ \A q \in Rpcs : q # r => rpc'[q] = rpc[q]

\* The call c is the call b, further on.
SameCall(c, b) == c \in Calls /\ c # None /\ c.op = b.op /\ c.id = b.id

\* What a handler serves is a call.
LEMMA CallTyped ==
  ASSUME ServiceTypeOK, NEW r \in Rpcs, rpc[r] # None
  PROVE  /\ rpc[r] \in Calls /\ rpc[r].op \in {"submit", "cancel"} /\ rpc[r].id \in OrderIds
         /\ rpc[r].pc \in {"enqueue", "wait"} /\ rpc[r].next \in Nat \ {0}
BY DEF ServiceTypeOK, Calls

\* What is queued is a command.
LEMMA CmdTyped ==
  ASSUME ServiceTypeOK, NEW n \in DOMAIN cmds
  PROVE  /\ cmds[n] \in Commands /\ cmds[n].rpc \in Rpcs /\ cmds[n].id \in OrderIds
         /\ cmds[n].op \in {"submit", "cancel"}
<1>1. cmds \in Seq(Commands)
  BY DEF ServiceTypeOK
<1>2. cmds[n] \in Commands
  BY <1>1
<1> QED
  BY <1>2 DEF Commands

\* A handler turns to a call, or is done.
LEMMA ServesCall ==
  ASSUME ServiceTypeOK, NEW r \in Rpcs, NEW c \in Calls \cup {None}, rpc' = [rpc EXCEPT ![r] = c]
  PROVE  Serves(r, c)
BY DEF ServiceTypeOK, Serves

\* A handler counts on.
LEMMA NextServes ==
  ASSUME ServiceTypeOK, NEW r \in Rpcs, rpc[r] # None, rpc' = [rpc EXCEPT ![r].next = @ + 1]
  PROVE  \E c : /\ Serves(r, c) /\ SameCall(c, rpc[r])
                /\ c.pc = rpc[r].pc /\ c.next = rpc[r].next + 1
<1>1. rpc[r] \in Calls /\ rpc[r].next \in Nat \ {0}
  BY CallTyped
<1>2. PICK c : c = [rpc[r] EXCEPT !.next = @ + 1]
  OBVIOUS
<1>3. rpc[r].next + 1 \in Nat \ {0}
  BY <1>1
<1>4. c \in Calls /\ c.op = rpc[r].op /\ c.id = rpc[r].id /\ c.pc = rpc[r].pc
      /\ c.next = rpc[r].next + 1
  BY <1>1, <1>2, <1>3 DEF Calls
<1>5. rpc' = [rpc EXCEPT ![r] = c]
  BY <1>2 DEF ServiceTypeOK
<1>6. Serves(r, c)
  BY <1>4, <1>5, ServesCall
<1> QED
  BY <1>4, <1>6, NoneIsNoCall DEF SameCall

\* A handler that put its order into the queue waits.
LEMMA WaitServes ==
  ASSUME ServiceTypeOK, NEW r \in Rpcs, rpc[r] # None, rpc' = [rpc EXCEPT ![r].pc = "wait"]
  PROVE  \E c : /\ Serves(r, c) /\ SameCall(c, rpc[r])
                /\ c.pc = "wait" /\ c.next = rpc[r].next
<1>1. rpc[r] \in Calls
  BY CallTyped
<1>2. PICK c : c = [rpc[r] EXCEPT !.pc = "wait"]
  OBVIOUS
<1>4. c \in Calls /\ c.op = rpc[r].op /\ c.id = rpc[r].id /\ c.pc = "wait"
      /\ c.next = rpc[r].next
  BY <1>1, <1>2 DEF Calls
<1>5. rpc' = [rpc EXCEPT ![r] = c]
  BY <1>2 DEF ServiceTypeOK
<1>6. Serves(r, c)
  BY <1>4, <1>5, ServesCall
<1> QED
  BY <1>4, <1>6, NoneIsNoCall DEF SameCall

\* Handlers, queue and writer as one.
CallPart == ServiceTypeOK /\ BookPart /\ CallsOK /\ QueueOK

\* A handler with an answer to work on, or that ends its call: nothing of it is
\* in the queue.
LEMMA ServedNotAsked ==
  ASSUME CallPart, NEW r \in Rpcs, Served(r)
  PROVE  /\ \A n \in DOMAIN cmds : cmds[n].rpc # r
         /\ writer # None => writer.id # rpc[r].id
         /\ \A q \in Rpcs : q # r /\ Submitting(q) => rpc[q].id # rpc[r].id
<1>1. future[rpc[r].id] # None /\ rpc[r].op = "submit" /\ Submitting(r)
  BY DEF Served, Result, Submitting
<1>2. \A n \in DOMAIN cmds : cmds[n].rpc # r
  BY <1>1 DEF CallPart, QueueOK, Asked, Untaken
<1>3. writer # None => writer.id # rpc[r].id
  BY <1>1 DEF CallPart, BookPart, BookInv, OnWriter
<1> QED
  BY <1>1, <1>2, <1>3 DEF CallPart, CallsOK

\* Steps of a handler that has its answer: record, publish, reply.
LEMMA ServedStep ==
  ASSUME CallPart, BookPart', NEW r \in Rpcs, Served(r), NEW c, Serves(r, c),
         c = None \/ (SameCall(c, rpc[r]) /\ c.pc = rpc[r].pc),
         UNCHANGED <<order, future, writer, sequence, cmds, restarts>>,
         stream' \in Seq(Trade), acked' \cup unrecorded' \subseteq Trade
  PROVE  CallPart'
<1>1. /\ \A n \in DOMAIN cmds : cmds[n].rpc # r
      /\ writer # None => writer.id # rpc[r].id
      /\ \A q \in Rpcs : q # r /\ Submitting(q) => rpc[q].id # rpc[r].id
  BY ServedNotAsked
<1>2. /\ rpc[r] # None /\ rpc[r].op = "submit" /\ rpc[r].pc = "wait"
      /\ future[rpc[r].id] # None
  BY DEF Served, Result
<1>3. \A n \in DOMAIN cmds : cmds[n] \in Commands /\ cmds[n].rpc \in Rpcs
  BY CmdTyped DEF CallPart
<1>4. ServiceTypeOK'
  <2>1. BookTypeOK'
    BY DEF BookPart, BookInv
  <2>2. sequence' \in Nat /\ restarts' \in Nat /\ rpc' \in [Rpcs -> Calls \cup {None}]
        /\ cmds' \in Seq(Commands)
    BY DEF CallPart, ServiceTypeOK, Serves
  <2>3. \A q \in Rpcs : rpc'[q] # None /\ rpc'[q].op = "submit" => rpc'[q].id \in DOMAIN order'
    BY <1>2 DEF CallPart, ServiceTypeOK, Serves, SameCall
  <2>4. \A i \in DOMAIN cmds : rpc'[cmds[i].rpc] # None /\ rpc'[cmds[i].rpc].pc = "wait"
    BY <1>1, <1>3 DEF CallPart, ServiceTypeOK, Serves
  <2> QED
    BY <2>1, <2>2, <2>3, <2>4 DEF ServiceTypeOK
<1>5. CallsOK'
  <2>1. \A q \in Rpcs : q # r => (Submitting(q)' <=> Submitting(q))
    BY DEF Submitting, Serves
  <2>2. Submitting(r)' => rpc'[r].id = rpc[r].id
    BY DEF Submitting, Serves, SameCall
  <2>3. \A p, q \in Rpcs : Submitting(p)' /\ Submitting(q)' /\ p # q => rpc'[p].id # rpc'[q].id
    BY <1>1, <2>1, <2>2 DEF CallPart, CallsOK, Serves
  <2>4. \A q \in Rpcs : Submitting(q)' /\ future[rpc'[q].id] = None => rpc'[q].next = 1
    BY <1>2, <2>1, <2>2 DEF CallPart, CallsOK, Serves
  <2>5. \A q \in Rpcs : rpc'[q] # None /\ rpc'[q].pc = "enqueue" =>
                          Submitting(q)' /\ Untaken(rpc'[q].id)
    BY <1>2, <2>1 DEF CallPart, CallsOK, Serves
  <2> QED
    BY <2>3, <2>4, <2>5 DEF CallPart, CallsOK, Untaken
<1>6. QueueOK'
  <2>1. \A n \in DOMAIN cmds : Asked(cmds[n])'
    BY <1>1, <1>3 DEF CallPart, QueueOK, Asked, Untaken, Serves
  <2>2. writer # None =>
          \E q \in Rpcs : Submitting(q)' /\ rpc'[q].pc = "wait" /\ rpc'[q].id = writer.id
    BY <1>1 DEF CallPart, QueueOK, Submitting, Serves
  <2> QED
    BY <2>1, <2>2 DEF CallPart, QueueOK
<1> QED
  BY <1>4, <1>5, <1>6 DEF CallPart

\* A step that leaves handlers, queue and book alone.
LEMMA SameCallPart ==
  ASSUME CallPart, BookPart', sequence' \in Nat, sequence <= sequence', restarts' \in Nat,
         UNCHANGED <<order, future, writer, cmds, rpc, stream, acked, unrecorded>>
  PROVE  CallPart'
<1>1. DOMAIN order \subseteq 1..sequence'
  BY DEF CallPart, CallsOK, ServiceTypeOK
<1> QED
  BY <1>1 DEF CallPart, ServiceTypeOK, CallsOK, QueueOK, Asked, Untaken, Submitting, BookPart, BookInv

\* submitOrder(): the order is new, and its id nobody else's.
LEMMA SubmitCallPart ==
  ASSUME CallPart, NEW r \in Rpcs, NEW k \in 1..MaxRequests, NEW o \in Requests, SubmitOrder(r, k, o)
  PROVE  CallPart' /\ AllTrades' = AllTrades
<1>1. PICK id : id = sequence + 1
  OBVIOUS
<1>2. PICK c : c = [op |-> "submit", id |-> id, pc |-> "enqueue", next |-> 1]
  OBVIOUS
<1>3. /\ sequence \in Nat /\ id \in OrderIds /\ sequence' = id /\ id \in Nat
      /\ id \notin DOMAIN order
  <2>1. id \notin 1..sequence /\ sequence \in Nat
    BY <1>1 DEF CallPart, ServiceTypeOK
  <2> QED
    BY <1>1, <2>1 DEF CallPart, CallsOK, SubmitOrder
<1>4. NewOrder(id, k, o)
  BY <1>1, <1>3, EngineServiceAssumption DEF SubmitOrder, NewOrder
<1>5. BookPart' /\ AllTrades' = AllTrades
  BY <1>4, NewOrderBookPart DEF CallPart
<1>6. /\ DOMAIN order' = DOMAIN order \cup {id}
      /\ UNCHANGED <<writer, future>>
  BY <1>4, NewOrderHeap DEF NewOrder
<1>7. /\ UNCHANGED <<cmds, stream, acked, unrecorded, restarts>> /\ rpc[r] = None
      /\ rpc' = [rpc EXCEPT ![r] = c]
  BY <1>1, <1>2 DEF SubmitOrder, durable
<1>8. c \in Calls /\ c # None /\ c.op = "submit" /\ c.id = id /\ c.pc = "enqueue" /\ c.next = 1
  BY <1>2, <1>3, NoneIsNoCall DEF Calls
<1>9. Serves(r, c)
  BY <1>7, <1>8, ServesCall DEF CallPart
<1>10. /\ Untaken(id)
       /\ \A q \in Rpcs : Submitting(q) => rpc[q].id # id
  <2>1. future[id] = None /\ (writer # None => writer.id # id)
    BY <1>3 DEF CallPart, BookPart, BookInv, OnWriter, BookTypeOK
  <2> QED
    BY <1>3, <2>1 DEF CallPart, ServiceTypeOK, Submitting, Untaken
<1>11. \A n \in DOMAIN cmds : cmds[n].rpc # r /\ cmds[n].rpc \in Rpcs
  BY <1>7, CmdTyped DEF CallPart, ServiceTypeOK
<1>12. ServiceTypeOK'
  <2>1. BookTypeOK'
    BY <1>5 DEF BookPart, BookInv
  <2>2. /\ sequence' \in Nat /\ restarts' \in Nat /\ rpc' \in [Rpcs -> Calls \cup {None}]
        /\ cmds' \in Seq(Commands) /\ stream' \in Seq(Trade) /\ acked' \cup unrecorded' \subseteq Trade
    BY <1>3, <1>7, <1>9 DEF CallPart, ServiceTypeOK, Serves
  <2>3. \A q \in Rpcs : rpc'[q] # None /\ rpc'[q].op = "submit" => rpc'[q].id \in DOMAIN order'
    BY <1>6, <1>8, <1>9 DEF CallPart, ServiceTypeOK, Serves
  <2>4. \A i \in DOMAIN cmds : rpc'[cmds[i].rpc] # None /\ rpc'[cmds[i].rpc].pc = "wait"
    BY <1>9, <1>11 DEF CallPart, ServiceTypeOK, Serves
  <2> QED
    BY <1>7, <2>1, <2>2, <2>3, <2>4 DEF ServiceTypeOK
<1>13. CallsOK'
  <2>1. DOMAIN order' \subseteq 1..sequence'
    BY <1>1, <1>3, <1>6 DEF CallPart, CallsOK
  <2>2. /\ \A q \in Rpcs : q # r => (Submitting(q)' <=> Submitting(q))
        /\ Submitting(r)'
    BY <1>8, <1>9 DEF Submitting, Serves
  <2>3. \A p, q \in Rpcs : Submitting(p)' /\ Submitting(q)' /\ p # q => rpc'[p].id # rpc'[q].id
    BY <1>8, <1>9, <1>10, <2>2 DEF CallPart, CallsOK, Serves
  <2>4. \A q \in Rpcs : Submitting(q)' /\ future[rpc'[q].id] = None => rpc'[q].next = 1
    BY <1>8, <1>9, <2>2 DEF CallPart, CallsOK, Serves
  <2>5. \A q \in Rpcs : rpc'[q] # None /\ rpc'[q].pc = "enqueue" =>
                          Submitting(q)' /\ Untaken(rpc'[q].id)
    BY <1>8, <1>9, <1>10, <2>2 DEF CallPart, CallsOK, Serves
  <2> QED
    BY <1>6, <2>1, <2>3, <2>4, <2>5 DEF CallsOK, Untaken
<1>14. QueueOK'
  <2>1. \A n \in DOMAIN cmds : Asked(cmds[n])'
    BY <1>6, <1>7, <1>9, <1>11 DEF CallPart, QueueOK, Asked, Untaken, Serves
  <2>2. writer # None =>
          \E q \in Rpcs : Submitting(q)' /\ rpc'[q].pc = "wait" /\ rpc'[q].id = writer.id
    BY <1>7, <1>9 DEF CallPart, QueueOK, Submitting, Serves
  <2> QED
    BY <1>6, <1>7, <2>1, <2>2 DEF CallPart, QueueOK
<1> QED
  BY <1>5, <1>12, <1>13, <1>14 DEF CallPart

\* The queue gets a command of a handler that had none there.
LEMMA AskStep ==
  ASSUME CallPart, BookPart', NEW r \in Rpcs, NEW c, Serves(r, c), c \in Calls, c # None,
         c.pc = "wait", c.op = "submit" => /\ rpc[r] # None /\ rpc[r].pc = "enqueue"
                                           /\ SameCall(c, rpc[r]) /\ c.next = rpc[r].next,
         c.op = "cancel" => rpc[r] = None,
         NEW cmd, cmd = [op |-> c.op, id |-> c.id, rpc |-> r], cmds' = Append(cmds, cmd),
         UNCHANGED <<order, future, writer, sequence, restarts, stream, acked, unrecorded>>
  PROVE  CallPart'
<1>1. /\ c.op \in {"submit", "cancel"} /\ c.id \in OrderIds
      /\ cmd.op = c.op /\ cmd.id = c.id /\ cmd.rpc = r
  BY DEF Calls
<1>2. cmd \in Commands
  BY <1>1 DEF Commands
<1>3. \A n \in DOMAIN cmds : cmds[n] \in Commands /\ cmds[n].rpc \in Rpcs
  BY CmdTyped DEF CallPart
<1>4. cmds \in Seq(Commands)
  BY DEF CallPart, ServiceTypeOK
<1>5. /\ cmds' \in Seq(Commands) /\ DOMAIN cmds' = DOMAIN cmds \cup {Len(cmds) + 1}
      /\ \A n \in DOMAIN cmds : cmds'[n] = cmds[n] /\ n # Len(cmds) + 1
      /\ cmds'[Len(cmds) + 1] = cmd
  BY <1>2, <1>4
<1>6. \A n \in DOMAIN cmds : cmds[n].rpc # r
  BY <1>1, <1>3 DEF CallPart, ServiceTypeOK
<1>7. c.op = "submit" => Submitting(r) /\ Untaken(c.id) /\ (future[c.id] = None => c.next = 1)
  BY DEF CallPart, CallsOK, SameCall, Submitting
<1>8. ServiceTypeOK'
  <2>1. BookTypeOK'
    BY DEF BookPart, BookInv
  <2>2. /\ sequence' \in Nat /\ restarts' \in Nat /\ rpc' \in [Rpcs -> Calls \cup {None}]
        /\ stream' \in Seq(Trade) /\ acked' \cup unrecorded' \subseteq Trade
    BY DEF CallPart, ServiceTypeOK, Serves
  <2>3. \A q \in Rpcs : rpc'[q] # None /\ rpc'[q].op = "submit" => rpc'[q].id \in DOMAIN order'
    BY DEF CallPart, ServiceTypeOK, Serves, SameCall
  <2>4. \A n \in DOMAIN cmds' : rpc'[cmds'[n].rpc] # None /\ rpc'[cmds'[n].rpc].pc = "wait"
    BY <1>1, <1>3, <1>5, <1>6 DEF CallPart, ServiceTypeOK, Serves
  <2> QED
    BY <1>5, <2>1, <2>2, <2>3, <2>4 DEF ServiceTypeOK
<1>9. CallsOK'
  <2>1. \A q \in Rpcs : q # r => (Submitting(q)' <=> Submitting(q))
    BY DEF Submitting, Serves
  <2>2. Submitting(r)' => Submitting(r) /\ rpc'[r].id = rpc[r].id /\ c.op = "submit"
    BY <1>7 DEF Submitting, Serves, SameCall
  <2>3. \A p, q \in Rpcs : Submitting(p)' /\ Submitting(q)' /\ p # q => rpc'[p].id # rpc'[q].id
    BY <2>1, <2>2 DEF CallPart, CallsOK, Serves
  <2>4. \A q \in Rpcs : Submitting(q)' /\ future[rpc'[q].id] = None => rpc'[q].next = 1
    BY <1>7, <2>1, <2>2 DEF CallPart, CallsOK, Serves
  <2>5. \A q \in Rpcs : rpc'[q] # None /\ rpc'[q].pc = "enqueue" =>
                          Submitting(q)' /\ Untaken(rpc'[q].id)
    BY <2>1 DEF CallPart, CallsOK, Serves
  <2> QED
    BY <2>3, <2>4, <2>5 DEF CallPart, CallsOK, Untaken
<1>10. QueueOK'
  <2>1. \A n \in DOMAIN cmds : Asked(cmds[n])'
    BY <1>3, <1>5, <1>6 DEF CallPart, QueueOK, Asked, Untaken, Serves
  <2>2. /\ rpc'[r] # None /\ rpc'[r].pc = "wait" /\ rpc'[r].op = cmd.op /\ rpc'[r].id = cmd.id
        /\ (cmd.op = "submit" => Untaken(cmd.id))
    BY <1>1, <1>7 DEF Serves
  <2>3. \A n \in DOMAIN cmds' : Asked(cmds[n])'
    BY <1>1, <1>5, <2>1, <2>2 DEF Asked, Untaken
  <2>4. \A m, n \in DOMAIN cmds' : m # n => cmds'[m].rpc # cmds'[n].rpc
    BY <1>1, <1>5, <1>6 DEF CallPart, QueueOK
  <2>5. writer # None =>
          \E q \in Rpcs : Submitting(q)' /\ rpc'[q].pc = "wait" /\ rpc'[q].id = writer.id
    <3>1. SUFFICES ASSUME writer # None
                   PROVE  \E q \in Rpcs : Submitting(q)' /\ rpc'[q].pc = "wait" /\ rpc'[q].id = writer.id
      OBVIOUS
    <3>2. PICK q \in Rpcs : Submitting(q) /\ rpc[q].pc = "wait" /\ rpc[q].id = writer.id
      BY <3>1 DEF CallPart, QueueOK
    <3>3. q # r
      BY <1>1, <3>2 DEF Submitting
    <3> QED
      BY <3>2, <3>3 DEF Submitting, Serves
  <2> QED
    BY <2>3, <2>4, <2>5 DEF QueueOK
<1> QED
  BY <1>8, <1>9, <1>10 DEF CallPart

\* The front of the queue is a command of a handler that waits for it, and the
\* rest is the others'.
LEMMA HeadAsked ==
  ASSUME CallPart, cmds # <<>>, cmds' = Tail(cmds)
  PROVE  /\ Head(cmds) \in Commands /\ Head(cmds).rpc \in Rpcs /\ Asked(Head(cmds))
         /\ cmds' \in Seq(Commands)
         /\ \A n \in DOMAIN cmds' :
              /\ n + 1 \in DOMAIN cmds /\ cmds'[n] = cmds[n + 1]
              /\ cmds'[n].rpc # Head(cmds).rpc /\ cmds'[n].rpc \in Rpcs
         /\ \A m, n \in DOMAIN cmds' : m # n => cmds'[m].rpc # cmds'[n].rpc
<1>1. cmds \in Seq(Commands)
  BY DEF CallPart, ServiceTypeOK
<1>2. /\ Head(cmds) = cmds[1] /\ 1 \in DOMAIN cmds /\ cmds' \in Seq(Commands)
      /\ \A n \in DOMAIN cmds' : n \in Nat /\ n # 0 /\ n + 1 \in DOMAIN cmds /\ cmds'[n] = cmds[n + 1]
  BY <1>1
<1>3. \A n \in DOMAIN cmds : cmds[n] \in Commands /\ cmds[n].rpc \in Rpcs
  BY CmdTyped DEF CallPart
<1>4. \A m, n \in DOMAIN cmds : m # n => cmds[m].rpc # cmds[n].rpc
  BY DEF CallPart, QueueOK
<1>5. \A n \in DOMAIN cmds : Asked(cmds[n])
  BY DEF CallPart, QueueOK
<1>6. \A n \in DOMAIN cmds' : cmds'[n].rpc # cmds[1].rpc /\ cmds'[n].rpc \in Rpcs
  <2>1. SUFFICES ASSUME NEW n \in DOMAIN cmds' PROVE cmds'[n].rpc # cmds[1].rpc /\ cmds'[n].rpc \in Rpcs
    OBVIOUS
  <2>2. n + 1 # 1 /\ n + 1 \in DOMAIN cmds /\ cmds'[n] = cmds[n + 1]
    BY <1>2
  <2> QED
    BY <1>2, <1>3, <1>4, <2>2
<1>7. \A m, n \in DOMAIN cmds' : m # n => cmds'[m].rpc # cmds'[n].rpc
  <2>1. SUFFICES ASSUME NEW m \in DOMAIN cmds', NEW n \in DOMAIN cmds', m # n
                 PROVE  cmds'[m].rpc # cmds'[n].rpc
    OBVIOUS
  <2>2. m + 1 # n + 1
    BY <1>2, <2>1
  <2> QED
    BY <1>2, <1>4, <2>2
<1> QED
  BY <1>2, <1>3, <1>5, <1>6, <1>7

\* The writer takes a submission from the queue.
LEMMA TakeSubmitCallPart ==
  ASSUME CallPart, TakeSubmit
  PROVE  CallPart' /\ AllTrades' = AllTrades
<1>1. PICK cmd : cmd = Head(cmds)
  OBVIOUS
<1>2. /\ cmds # <<>> /\ cmd.op = "submit" /\ StartSubmit(cmd.id) /\ cmds' = Tail(cmds)
      /\ UNCHANGED <<sequence, rpc, stream, acked, unrecorded, restarts>>
  BY <1>1 DEF TakeSubmit, durable
<1>3. /\ cmd \in Commands /\ cmd.rpc \in Rpcs /\ Asked(cmd) /\ cmds' \in Seq(Commands)
      /\ \A n \in DOMAIN cmds' :
           /\ n + 1 \in DOMAIN cmds /\ cmds'[n] = cmds[n + 1]
           /\ cmds'[n].rpc # cmd.rpc /\ cmds'[n].rpc \in Rpcs
      /\ \A m, n \in DOMAIN cmds' : m # n => cmds'[m].rpc # cmds'[n].rpc
  BY <1>1, <1>2, HeadAsked
<1>4. PICK r \in Rpcs : r = cmd.rpc
  BY <1>3
<1>5. /\ Submitting(r) /\ rpc[r].pc = "wait" /\ rpc[r].id = cmd.id /\ future[cmd.id] = None
      /\ cmd.id \in DOMAIN order
  BY <1>2, <1>3, <1>4 DEF Asked, Submitting, Untaken, CallPart, ServiceTypeOK
<1>6. BookPart' /\ AllTrades' = AllTrades
  BY <1>2, <1>5, StartBookPart DEF CallPart
<1>7. writer = None /\ writer' # None /\ writer'.id = cmd.id /\ UNCHANGED <<order, future>>
  <2>1. writer' = [id |-> cmd.id, at |-> None, open |-> FALSE, held |-> <<>>]
    BY <1>2 DEF StartSubmit
  <2>2. writer' \in Writers
    <3>1. cmd.id \in OrderIds
      BY <1>3 DEF Commands
    <3>2. <<>> \in Seq(OrderIds)
      OBVIOUS
    <3> QED
      BY <2>1, <3>1, <3>2 DEF Writers
  <2>3. writer'.id = cmd.id
    BY <2>1
  <2>4. writer' # None
    BY <2>2, NoneIsAbsent
  <2>5. writer = None /\ UNCHANGED <<order, future>>
    BY <1>2 DEF StartSubmit
  <2> QED
    BY <2>3, <2>4, <2>5
<1>8. \A q \in Rpcs : q # r /\ Submitting(q) => rpc[q].id # cmd.id
  BY <1>5 DEF CallPart, CallsOK
<1>9. ServiceTypeOK'
  <2>1. BookTypeOK'
    BY <1>6 DEF BookPart, BookInv
  <2>2. \A n \in DOMAIN cmds' : rpc[cmds'[n].rpc] # None /\ rpc[cmds'[n].rpc].pc = "wait"
    BY <1>3 DEF CallPart, ServiceTypeOK
  <2> QED
    BY <1>2, <1>3, <1>7, <2>1, <2>2 DEF CallPart, ServiceTypeOK
<1>10. CallsOK'
  <2>1. \A q \in Rpcs : rpc[q] # None /\ rpc[q].pc = "enqueue" =>
                          Submitting(q) /\ Untaken(rpc[q].id)'
    BY <1>2, <1>5, <1>7, <1>8 DEF CallPart, CallsOK, Untaken
  <2> QED
    BY <1>2, <1>7, <2>1 DEF CallPart, CallsOK, Submitting, Untaken
<1>11. QueueOK'
  <2>1. ASSUME NEW n \in DOMAIN cmds' PROVE Asked(cmds[n])'
    <3>1. PICK d : d = cmds'[n]
      OBVIOUS
    <3>2. Asked(d) /\ d.rpc # r /\ d.rpc \in Rpcs
      BY <1>3, <1>4, <3>1 DEF CallPart, QueueOK
    <3>3. d.op = "submit" => d.id # cmd.id
      BY <1>8, <3>2 DEF Asked, Submitting
    <3> QED
      BY <1>2, <1>7, <3>1, <3>2, <3>3 DEF Asked, Untaken
  <2>2. \E q \in Rpcs : Submitting(q)' /\ rpc'[q].pc = "wait" /\ rpc'[q].id = writer'.id
    BY <1>2, <1>5, <1>7 DEF Submitting
  <2> QED
    BY <1>3, <2>1, <2>2 DEF QueueOK
<1> QED
  BY <1>6, <1>9, <1>10, <1>11 DEF CallPart

\* The writer runs a cancel and completes its call.
LEMMA TakeCancelCallPart ==
  ASSUME CallPart, TakeCancel
  PROVE  /\ CallPart' /\ AllTrades' = AllTrades /\ UNCHANGED future
         /\ \E r \in Rpcs : Serves(r, None) /\ ~ Submitting(r) /\ rpc[r] # None
<1>1. PICK cmd : cmd = Head(cmds)
  OBVIOUS
<1>2. /\ cmds # <<>> /\ cmd.op = "cancel" /\ CancelById(cmd.id) /\ cmds' = Tail(cmds)
      /\ rpc' = [rpc EXCEPT ![cmd.rpc] = None]
      /\ UNCHANGED <<sequence, stream, acked, unrecorded, restarts>>
  BY <1>1 DEF TakeCancel, durable
<1>3. /\ cmd \in Commands /\ cmd.rpc \in Rpcs /\ Asked(cmd) /\ cmds' \in Seq(Commands)
      /\ \A n \in DOMAIN cmds' :
           /\ n + 1 \in DOMAIN cmds /\ cmds'[n] = cmds[n + 1]
           /\ cmds'[n].rpc # cmd.rpc /\ cmds'[n].rpc \in Rpcs
      /\ \A m, n \in DOMAIN cmds' : m # n => cmds'[m].rpc # cmds'[n].rpc
  BY <1>1, <1>2, HeadAsked
<1>4. PICK r \in Rpcs : r = cmd.rpc
  BY <1>3
<1>5. ~ Submitting(r) /\ rpc[r] # None
  BY <1>2, <1>3, <1>4 DEF Asked, Submitting
<1>6. BookPart' /\ AllTrades' = AllTrades /\ UNCHANGED <<order, future, writer>>
  BY <1>2, CancelBookPart DEF CallPart, CancelById
<1>7. Serves(r, None)
  BY <1>2, <1>4, ServesCall DEF CallPart
<1>8. \A q \in Rpcs : /\ Submitting(q)' <=> Submitting(q)
                      /\ rpc'[q] # None => rpc'[q] = rpc[q]
  BY <1>5, <1>7 DEF Submitting, Serves
<1>9. ServiceTypeOK'
  <2>1. BookTypeOK'
    BY <1>6 DEF BookPart, BookInv
  <2>2. \A n \in DOMAIN cmds' : rpc'[cmds'[n].rpc] # None /\ rpc'[cmds'[n].rpc].pc = "wait"
    BY <1>3, <1>4, <1>7 DEF CallPart, ServiceTypeOK, Serves
  <2>3. \A q \in Rpcs : rpc'[q] # None /\ rpc'[q].op = "submit" => rpc'[q].id \in DOMAIN order'
    BY <1>6, <1>8 DEF CallPart, ServiceTypeOK
  <2>4. rpc' \in [Rpcs -> Calls \cup {None}]
    BY <1>7 DEF Serves
  <2> QED
    BY <1>2, <1>3, <2>1, <2>2, <2>3, <2>4 DEF CallPart, ServiceTypeOK
<1>10. CallsOK'
  <2>1. \A q \in Rpcs : Submitting(q)' => rpc'[q] = rpc[q] /\ Submitting(q)
    BY <1>8 DEF Submitting
  <2>2. \A p, q \in Rpcs : Submitting(p)' /\ Submitting(q)' /\ p # q => rpc'[p].id # rpc'[q].id
    BY <2>1 DEF CallPart, CallsOK
  <2>3. \A q \in Rpcs : Submitting(q)' /\ future[rpc'[q].id] = None => rpc'[q].next = 1
    BY <2>1 DEF CallPart, CallsOK
  <2>4. \A q \in Rpcs : rpc'[q] # None /\ rpc'[q].pc = "enqueue" =>
                          Submitting(q)' /\ Untaken(rpc'[q].id)
    BY <1>8 DEF CallPart, CallsOK
  <2> QED
    BY <1>2, <1>6, <2>2, <2>3, <2>4 DEF CallPart, CallsOK, Untaken
<1>11. QueueOK'
  <2>1. ASSUME NEW n \in DOMAIN cmds' PROVE Asked(cmds[n])'
    <3>1. PICK d : d = cmds'[n]
      OBVIOUS
    <3>2. Asked(d) /\ d.rpc # r /\ d.rpc \in Rpcs
      BY <1>3, <1>4, <3>1 DEF CallPart, QueueOK
    <3>3. rpc'[d.rpc] = rpc[d.rpc]
      BY <1>7, <3>2 DEF Serves
    <3> QED
      BY <1>6, <3>1, <3>2, <3>3 DEF Asked, Untaken
  <2>2. writer # None =>
          \E q \in Rpcs : Submitting(q)' /\ rpc'[q].pc = "wait" /\ rpc'[q].id = writer.id
    BY <1>5, <1>7 DEF CallPart, QueueOK, Submitting, Serves
  <2> QED
    BY <1>3, <1>6, <2>1, <2>2 DEF QueueOK
<1> QED
  BY <1>5, <1>6, <1>7, <1>9, <1>10, <1>11 DEF CallPart

\* The writer moves on with its order.
LEMMA WriterRunsCallPart ==
  ASSUME CallPart, WriterRuns
  PROVE  CallPart' /\ WriterMoves
<1>1. BookPart' /\ WriterMoves
  BY WriterBookPart DEF CallPart, WriterRuns
<1>2. UNCHANGED <<sequence, cmds, rpc, stream, acked, unrecorded, restarts>>
  BY DEF WriterRuns, memory, durable
<1>3. /\ DOMAIN order' = DOMAIN order /\ writer # None
      /\ \A i : Untaken(i) /\ i \in OrderIds => Untaken(i)'
  BY <1>1 DEF WriterMoves, Untaken
<1>4. \A i \in OrderIds : future'[i] = None => future[i] = None
  BY <1>1 DEF WriterMoves
<1>5. \A q \in Rpcs : rpc[q] # None => rpc[q].id \in OrderIds
  BY CallTyped DEF CallPart
<1>6. ServiceTypeOK'
  BY <1>1, <1>2, <1>3 DEF CallPart, ServiceTypeOK, BookPart, BookInv
<1>7. CallsOK'
  BY <1>2, <1>3, <1>4, <1>5 DEF CallPart, CallsOK, Submitting
<1>8. QueueOK'
  <2>1. ASSUME NEW n \in DOMAIN cmds PROVE Asked(cmds[n])'
    <3>1. Asked(cmds[n]) /\ cmds[n].id \in OrderIds
      BY CmdTyped DEF CallPart, QueueOK
    <3> QED
      BY <1>2, <1>3, <3>1 DEF Asked
  <2>2. writer' # None =>
          \E q \in Rpcs : Submitting(q)' /\ rpc'[q].pc = "wait" /\ rpc'[q].id = writer'.id
    BY <1>1, <1>2 DEF CallPart, QueueOK, WriterMoves, Submitting
  <2> QED
    BY <1>2, <2>1, <2>2 DEF CallPart, QueueOK
<1> QED
  BY <1>1, <1>6, <1>7, <1>8 DEF CallPart

\* A handler puts its order into the queue.
LEMMA EnqueueCallPart ==
  ASSUME CallPart, NEW r \in Rpcs, Enqueue(r)
  PROVE  /\ CallPart' /\ AllTrades' = AllTrades /\ UNCHANGED future
         /\ \E c : Serves(r, c) /\ SameCall(c, rpc[r]) /\ rpc[r] # None
<1>1. /\ rpc[r] # None /\ rpc[r].pc = "enqueue" /\ rpc' = [rpc EXCEPT ![r].pc = "wait"]
      /\ cmds' = Append(cmds, [op |-> "submit", id |-> rpc[r].id, rpc |-> r])
      /\ UNCHANGED <<bookState, sequence, stream, acked, unrecorded, restarts>>
  BY DEF Enqueue, durable
<1>2. UNCHANGED <<levels, index, order, tradeSeq, writer, trades, future, arrivals>>
  BY <1>1 DEF bookState
<1>3. BookPart' /\ AllTrades' = AllTrades
  BY <1>2, SameBookPart DEF CallPart
<1>4. PICK c : Serves(r, c) /\ SameCall(c, rpc[r]) /\ c.pc = "wait" /\ c.next = rpc[r].next
  BY <1>1, WaitServes DEF CallPart
<1>5. rpc[r].op = "submit"
  BY <1>1 DEF CallPart, CallsOK, Submitting
<1>6. c.op = "submit" /\ c.id = rpc[r].id /\ c \in Calls /\ c # None
  BY <1>4, <1>5 DEF SameCall
<1>7. PICK cmd : cmd = [op |-> c.op, id |-> c.id, rpc |-> r] /\ cmds' = Append(cmds, cmd)
  BY <1>1, <1>6
<1>8. CallPart'
  BY <1>1, <1>2, <1>3, <1>4, <1>6, <1>7, AskStep
<1> QED
  BY <1>1, <1>2, <1>3, <1>4, <1>8

\* A handler asks for a cancel.
LEMMA CancelOrderCallPart ==
  ASSUME CallPart, NEW r \in Rpcs, NEW id \in OrderIds, CancelOrder(r, id)
  PROVE  /\ CallPart' /\ AllTrades' = AllTrades /\ UNCHANGED future
         /\ \E c : Serves(r, c) /\ c # None /\ c.op = "cancel" /\ rpc[r] = None
<1>1. PICK c : c = [op |-> "cancel", id |-> id, pc |-> "wait", next |-> 1]
  OBVIOUS
<1>2. /\ rpc[r] = None /\ rpc' = [rpc EXCEPT ![r] = c]
      /\ cmds' = Append(cmds, [op |-> "cancel", id |-> id, rpc |-> r])
      /\ UNCHANGED <<bookState, sequence, stream, acked, unrecorded, restarts>>
  BY <1>1 DEF CancelOrder, durable
<1>3. UNCHANGED <<levels, index, order, tradeSeq, writer, trades, future, arrivals>>
  BY <1>2 DEF bookState
<1>4. BookPart' /\ AllTrades' = AllTrades
  BY <1>3, SameBookPart DEF CallPart
<1>5. c \in Calls /\ c # None /\ c.op = "cancel" /\ c.id = id /\ c.pc = "wait"
  BY <1>1, NoneIsNoCall DEF Calls
<1>6. Serves(r, c)
  BY <1>2, <1>5, ServesCall DEF CallPart
<1>7. PICK cmd : cmd = [op |-> c.op, id |-> c.id, rpc |-> r] /\ cmds' = Append(cmds, cmd)
  BY <1>2, <1>5
<1>8. c.op = "cancel" => rpc[r] = None
  BY <1>2
<1>9. CallPart'
  BY <1>2, <1>3, <1>4, <1>5, <1>6, <1>7, <1>8, AskStep
<1> QED
  BY <1>2, <1>3, <1>4, <1>5, <1>6, <1>9

\* A result is a MatchResult: its trades are trades of the book.
LEMMA ResultTyped ==
  ASSUME CallPart, NEW r \in Rpcs, Served(r)
  PROVE  /\ rpc[r].id \in OrderIds /\ Result(r) = future[rpc[r].id] /\ Result(r) # None
         /\ Result(r).trades \in Seq(Trade) /\ TradeCount(r) \in Nat
         /\ DOMAIN Result(r).trades = 1..TradeCount(r)
         /\ \A n \in 1..TradeCount(r) : /\ Result(r).trades[n] \in Trade
                                        /\ Result(r).trades[n] \in Range(Result(r).trades)
                                        /\ Result(r).trades[n] \in AllTrades
         /\ rpc[r].next \in Nat \ {0}
<1>1. rpc[r].id \in OrderIds /\ Result(r) = future[rpc[r].id] /\ Result(r) # None
      /\ rpc[r].next \in Nat \ {0}
  BY CallTyped DEF Served, Result, CallPart
<1>2. Result(r) \in Results
  BY <1>1 DEF CallPart, BookPart, BookInv, BookTypeOK
<1>3. PICK list : list = Result(r).trades
  OBVIOUS
<1>4. list \in Seq(Trade)
  BY <1>2, <1>3 DEF Results
<1>5. TradeCount(r) = Len(list)
  BY <1>3 DEF TradeCount
<1>6. /\ DOMAIN list = 1..Len(list) /\ Len(list) \in Nat
      /\ \A n \in DOMAIN list : list[n] \in Trade
  BY <1>4
<1>7. \A n \in DOMAIN list : list[n] \in Range(list)
  BY DEF Range
<1>8. \A t \in Range(list) : t \in AllTrades
  BY <1>1, <1>3 DEF AllTrades
<1> QED
  BY <1>1, <1>3, <1>4, <1>5, <1>6, <1>7, <1>8

\* A handler records a trade, publishes one, gives up or answers.
LEMMA ServedCallPart ==
  ASSUME CallPart, NEW r \in Rpcs, Record(r) \/ RecordFails(r) \/ Publish(r)
                               \/ PublishFails(r) \/ Reply(r)
  PROVE  /\ Served(r) /\ CallPart' /\ AllTrades' = AllTrades /\ UNCHANGED future
         /\ Record(r) \/ Publish(r) =>
              \E c : Serves(r, c) /\ SameCall(c, rpc[r]) /\ c.pc = rpc[r].pc
                     /\ c.next = rpc[r].next + 1
         /\ RecordFails(r) \/ PublishFails(r) \/ Reply(r) => Serves(r, None)
<1>1. Served(r) /\ rpc[r] # None
  BY DEF Record, RecordFails, Publish, PublishFails, Reply, Recording, Publishing, Served
<1>2. UNCHANGED <<bookState, sequence, cmds, restarts>>
  BY DEF Record, RecordFails, Publish, PublishFails, Reply, durable
<1>3. UNCHANGED <<levels, index, order, tradeSeq, writer, trades, future, arrivals>>
  BY <1>2 DEF bookState
<1>4. BookPart' /\ AllTrades' = AllTrades
  BY <1>3, SameBookPart DEF CallPart
<1>5. CASE Record(r) \/ Publish(r)
  <2>1. rpc' = [rpc EXCEPT ![r].next = @ + 1] /\ UNCHANGED <<acked, unrecorded>>
    BY <1>5 DEF Record, Publish
  <2>2. PICK c : /\ Serves(r, c) /\ SameCall(c, rpc[r]) /\ c.pc = rpc[r].pc
                 /\ c.next = rpc[r].next + 1
    BY <1>1, <2>1, NextServes DEF CallPart
  <2>3. stream' \in Seq(Trade)
    <3>1. stream \in Seq(Trade)
      BY DEF CallPart, ServiceTypeOK
    <3>2. CASE Record(r)
      BY <3>1, <3>2 DEF Record
    <3>3. CASE Publish(r)
      <4>1. PICK n : n = rpc[r].next - TradeCount(r)
        OBVIOUS
      <4>2. n \in 1..TradeCount(r)
        BY <1>1, <3>3, <4>1, ResultTyped DEF Publish, Publishing
      <4>3. stream' = Append(stream, Result(r).trades[n]) \/ stream' = stream
        BY <3>3, <4>1 DEF Publish
      <4>4. Result(r).trades[n] \in Trade
        BY <1>1, <4>2, ResultTyped
      <4> QED
        BY <3>1, <4>3, <4>4
    <3> QED
      BY <1>5, <3>2, <3>3
  <2>4. acked' \cup unrecorded' \subseteq Trade
    BY <2>1 DEF CallPart, ServiceTypeOK
  <2>5. CallPart'
    BY <1>1, <1>2, <1>3, <1>4, <2>2, <2>3, <2>4, ServedStep
  <2>6. ~ RecordFails(r) /\ ~ PublishFails(r) /\ ~ Reply(r)
    <3>1. rpc'[r] # None
      BY <2>2 DEF Serves, SameCall
    <3>2. RecordFails(r) \/ PublishFails(r) \/ Reply(r) => rpc'[r] = None
      BY DEF RecordFails, PublishFails, Reply, CallPart, ServiceTypeOK
    <3> QED
      BY <3>1, <3>2
  <2> QED
    BY <1>1, <1>3, <1>4, <2>2, <2>5, <2>6
<1>6. CASE RecordFails(r) \/ PublishFails(r) \/ Reply(r)
  <2>1. rpc' = [rpc EXCEPT ![r] = None] /\ UNCHANGED stream
    BY <1>6 DEF RecordFails, PublishFails, Reply, durable
  <2>2. Serves(r, None)
    BY <2>1, ServesCall DEF CallPart
  <2>3. acked \cup unrecorded \subseteq Trade /\ stream' \in Seq(Trade)
    BY <2>1 DEF CallPart, ServiceTypeOK
  <2>4. acked' \cup unrecorded' \subseteq Trade
    <3>1. CASE RecordFails(r)
      <4>1. /\ acked' = acked
            /\ unrecorded' = unrecorded \cup {Result(r).trades[i] : i \in rpc[r].next..TradeCount(r)}
        BY <3>1 DEF RecordFails
      <4>2. \A i \in rpc[r].next..TradeCount(r) : Result(r).trades[i] \in Trade
        BY <1>1, ResultTyped
      <4> QED
        BY <2>3, <4>1, <4>2
    <3>2. CASE Reply(r)
      <4>1. unrecorded' = unrecorded /\ acked' = acked \cup Range(Result(r).trades)
        BY <3>2 DEF Reply
      <4>2. Range(Result(r).trades) \subseteq Trade
        BY <1>1, ResultTyped DEF Range
      <4> QED
        BY <2>3, <4>1, <4>2
    <3>3. CASE PublishFails(r)
      BY <2>3, <3>3 DEF PublishFails
    <3> QED
      BY <1>6, <3>1, <3>2, <3>3
  <2>5. CallPart'
    BY <1>1, <1>2, <1>3, <1>4, <2>2, <2>3, <2>4, ServedStep
  <2>6. ~ Record(r) /\ ~ Publish(r)
    <3>1. rpc'[r] = None
      BY <2>2 DEF Serves
    <3>2. ASSUME Record(r) \/ Publish(r) PROVE FALSE
      <4>1. rpc' = [rpc EXCEPT ![r].next = @ + 1]
        BY <3>2 DEF Record, Publish
      <4>2. \E c : Serves(r, c) /\ SameCall(c, rpc[r])
        BY <1>1, <4>1, NextServes DEF CallPart
      <4> QED
        BY <3>1, <4>2 DEF Serves, SameCall
    <3> QED
      BY <3>2
  <2> QED
    BY <1>1, <1>3, <1>4, <2>2, <2>5, <2>6
<1> QED
  BY <1>5, <1>6

-----------------------------------------------------------------------------
(* The ledger. *)

\* The four postings of a trade carry its id, and determine it with its row.
LEMMA PostingIds ==
  ASSUME NEW t, NEW e \in EntriesFor(t)
  PROVE  e.tradeId = t.tradeId
BY DEF EntriesFor

\* What record() does: nothing, or row and postings of a trade not yet known.
LEMMA RecordWrites ==
  ASSUME CallPart, NEW r \in Rpcs, Record(r)
  PROVE  \E n \in 1..TradeCount(r) : \E t \in Trade :
           /\ n = rpc[r].next /\ t = Result(r).trades[n] /\ t \in AllTrades
           /\ \/ Known(t) /\ UNCHANGED <<rows, entries>>
              \/ /\ ~ Known(t)
                 /\ rows' = rows \cup {RowOf(t)} /\ entries' = entries \cup EntriesFor(t)
<1>1. PICK n : n = rpc[r].next
  OBVIOUS
<1>2. Served(r) /\ n <= TradeCount(r)
  BY <1>1 DEF Record, Recording
<1>3. n \in 1..TradeCount(r)
  BY <1>1, <1>2, ResultTyped
<1>4. PICK t : t = Result(r).trades[n]
  OBVIOUS
<1>5. t \in Trade /\ t \in AllTrades
  BY <1>2, <1>3, <1>4, ResultTyped
<1>6. \/ Known(t) /\ UNCHANGED <<rows, entries>>
      \/ /\ ~ Known(t)
         /\ rows' = rows \cup {RowOf(t)} /\ entries' = entries \cup EntriesFor(t)
  BY <1>1, <1>4 DEF Record
<1> QED
  BY <1>1, <1>3, <1>4, <1>5, <1>6

\* Row and postings go in together.
LEMMA RecordLedger ==
  ASSUME CallPart, LedgerOK, NEW r \in Rpcs, Record(r)
  PROVE  LedgerOK'
<1>1. PICK t \in Trade :
        \/ Known(t) /\ UNCHANGED <<rows, entries>>
        \/ /\ ~ Known(t)
           /\ rows' = rows \cup {RowOf(t)} /\ entries' = entries \cup EntriesFor(t)
  BY RecordWrites
<1>2. CASE UNCHANGED <<rows, entries>>
  BY <1>2 DEF LedgerOK, PostingsOf
<1>3. CASE ~ Known(t) /\ rows' = rows \cup {RowOf(t)} /\ entries' = entries \cup EntriesFor(t)
  <2>1. PICK new : new = RowOf(t)
    OBVIOUS
  <2>2. new.tradeId = t.tradeId
    BY <2>1 DEF RowOf
  <2>3. \A row \in rows : row.tradeId # t.tradeId
    BY <1>3 DEF Known
  <2>4. \A e \in EntriesFor(t) : e.tradeId = t.tradeId
    BY PostingIds
  <2>5. \A e \in entries : e.tradeId # t.tradeId
    BY <2>3 DEF LedgerOK
  <2>6. PostingsOf(t.tradeId)' = EntriesFor(t)
    BY <1>3, <2>4, <2>5 DEF PostingsOf
  <2>7. \A row \in rows : PostingsOf(row.tradeId)' = PostingsOf(row.tradeId)
    BY <1>3, <2>3, <2>4 DEF PostingsOf
  <2>8. ASSUME NEW row \in rows'
        PROVE  \E u \in Trade : row = RowOf(u) /\ PostingsOf(row.tradeId)' = EntriesFor(u)
    <3>1. CASE row \in rows
      BY <2>7, <3>1 DEF LedgerOK
    <3>2. CASE row = new
      BY <2>1, <2>2, <2>6, <3>2
    <3> QED
      BY <1>3, <2>1, <2>8, <3>1, <3>2
  <2>9. \A e \in entries' : \E row \in rows' : row.tradeId = e.tradeId
    BY <1>3, <2>1, <2>2, <2>4 DEF LedgerOK
  <2> QED
    BY <2>8, <2>9 DEF LedgerOK, PostingsOf
<1> QED
  BY <1>1, <1>2, <1>3

\* What LedgerBalanced asks of a trade's postings.
LEMMA PostingsBalance ==
  ASSUME NEW t \in Trade
  PROVE  /\ Cardinality(EntriesFor(t)) = 4
         /\ \E d, e, f, g :
              /\ EntriesFor(t) = {d, e, f, g}
              /\ d # e /\ f # g
              /\ d.asset = "CASH" /\ e.asset = "CASH" /\ f.asset = "SHARES" /\ g.asset = "SHARES"
              /\ e.delta = t.price * t.quantity /\ d.delta = - (t.price * t.quantity)
              /\ f.delta = t.quantity /\ g.delta = - t.quantity
              /\ t.price * t.quantity \in Int /\ t.quantity \in Int
<1>1. PICK cash : cash = t.price * t.quantity
  OBVIOUS
<1>2. t.price \in Nat \ {0} /\ t.quantity \in Nat \ {0}
  <2>1. t.price \in Prices /\ t.quantity \in Nat \ {0}
    BY DEF Trade
  <2> QED
    BY <2>1, OrderBookAssumption
<1>3. cash \in Nat \ {0} /\ cash \in Int /\ t.quantity \in Int
  <2>1. PICK p, q : p = t.price /\ q = t.quantity
    OBVIOUS
  <2>2. p \in Nat /\ q \in Nat /\ p > 0 /\ q > 0
    BY <1>2, <2>1
  <2>3. p * q \in Nat /\ p * q > 0
    BY <2>2
  <2> QED
    BY <1>1, <2>1, <2>2, <2>3
<1>4. PICK d : d = [tradeId |-> t.tradeId, account |-> t.buyAccount, asset |-> "CASH", delta |-> - cash]
  OBVIOUS
<1>5. PICK e : e = [tradeId |-> t.tradeId, account |-> t.sellAccount, asset |-> "CASH", delta |-> cash]
  OBVIOUS
<1>6. PICK f : f = [tradeId |-> t.tradeId, account |-> t.buyAccount, asset |-> "SHARES", delta |-> t.quantity]
  OBVIOUS
<1>7. PICK g : g = [tradeId |-> t.tradeId, account |-> t.sellAccount, asset |-> "SHARES", delta |-> - t.quantity]
  OBVIOUS
<1>8. EntriesFor(t) = {d, f, e, g}
  BY <1>1, <1>4, <1>5, <1>6, <1>7 DEF EntriesFor
<1>9. /\ d.asset = "CASH" /\ e.asset = "CASH" /\ f.asset = "SHARES" /\ g.asset = "SHARES"
      /\ d.delta = - cash /\ e.delta = cash /\ f.delta = t.quantity /\ g.delta = - t.quantity
  BY <1>4, <1>5, <1>6, <1>7
<1>10. d # e /\ f # g
  <2>1. - cash # cash
    BY <1>3
  <2>2. t.quantity # - t.quantity
    BY <1>2
  <2> QED
    BY <1>9, <2>1, <2>2
<1>11. d # f /\ d # g /\ e # f /\ e # g
  BY <1>9
<1>12. Cardinality({d, f, e, g}) = 4
  <2>1. /\ IsFiniteSet({d}) /\ Cardinality({d}) = 1
    BY FS_Singleton
  <2>2. IsFiniteSet({d} \cup {e}) /\ Cardinality({d} \cup {e}) = 2
    <3>1. e \notin {d}
      BY <1>10
    <3> QED
      BY <2>1, <3>1, FS_AddElement
  <2>3. IsFiniteSet({d} \cup {e} \cup {f}) /\ Cardinality({d} \cup {e} \cup {f}) = 3
    <3>1. f \notin {d} \cup {e}
      BY <1>11
    <3> QED
      BY <2>2, <3>1, FS_AddElement
  <2>4. Cardinality({d} \cup {e} \cup {f} \cup {g}) = 4
    <3>1. g \notin {d} \cup {e} \cup {f}
      BY <1>10, <1>11
    <3> QED
      BY <2>3, <3>1, FS_AddElement
  <2>5. {d, f, e, g} = {d} \cup {e} \cup {f} \cup {g}
    OBVIOUS
  <2> QED
    BY <2>4, <2>5
<1>13. EntriesFor(t) = {d, e, f, g}
  BY <1>8
<1> QED
  BY <1>1, <1>3, <1>8, <1>9, <1>10, <1>12, <1>13

\* The sum over a trade's postings of one asset, in the form the sum theorems
\* speak of.
Delta == [e \in entries |-> e.delta]

\* Two postings of an asset add up.
LEMMA TwoPostings ==
  ASSUME NEW asset, NEW id, NEW d, NEW e, d # e,
         {x \in entries : x.asset = asset /\ x.tradeId = id} = {d, e},
         d.delta \in Int, e.delta \in Int
  PROVE  Sum(asset, id) = d.delta + e.delta
<1> DEFINE S == {x \in entries : x.asset = asset /\ x.tradeId = id}
           P(it) == it = [u \in SUBSET S |->
               IF u = {} THEN 0 ELSE Pick(u).delta + it[u \ {Pick(u)}]]
<1>1. Sum(asset, id) = (CHOOSE it : P(it))[S]
  BY Zenon DEF Sum, MapThenSumSet, MapThenFoldSet, Pick
<1>2. d \in entries /\ e \in entries /\ S \subseteq entries /\ S = {d, e}
  OBVIOUS
<1>3. Delta[d] = d.delta /\ Delta[e] = e.delta
  BY <1>2 DEF Delta
<1>4. Summable(Delta, S) /\ Total(Delta, S) = d.delta + e.delta
  <2>1. Total(Delta, {d, e}) = Delta[d] + Delta[e]
    BY <1>3, TotalTwo
  <2>2. IsFiniteSet({d, e})
    <3>1. IsFiniteSet({d} \cup {e}) /\ {d, e} = {d} \cup {e}
      BY FS_Singleton, FS_AddElement
    <3> QED
      BY <3>1
  <2> QED
    BY <1>2, <1>3, <2>1, <2>2 DEF Summable
<1>5. ASSUME NEW it PROVE P(it) <=> SumsOver(it, Delta, SUBSET S)
  <2>1. \A u \in SUBSET S : u # {} => Pick(u).delta = Delta[Pick(u)]
    BY <1>2, PickIn DEF Delta
  <2> QED
    BY <2>1 DEF SumsOver
<1> HIDE DEF P, S
<1>6. P(CHOOSE it : P(it))
  <2>1. \E it : P(it)
    BY <1>4, <1>5, SumsExist
  <2> QED
    BY <2>1
<1> QED
  BY <1>1, <1>4, <1>5, <1>6, IsTotal

\* The ledger's invariant says what LedgerBalanced says.
LEMMA LedgerBalances ==
  ASSUME LedgerOK
  PROVE  LedgerBalanced
<1>1. ASSUME NEW row \in rows
      PROVE  /\ Cardinality(PostingsOf(row.tradeId)) = 4
             /\ Sum("CASH", row.tradeId) = 0 /\ Sum("SHARES", row.tradeId) = 0
             /\ \E e \in PostingsOf(row.tradeId) : e.asset = "CASH" /\ e.delta = row.price * row.quantity
  <2>1. PICK t \in Trade : row = RowOf(t) /\ PostingsOf(row.tradeId) = EntriesFor(t)
    BY DEF LedgerOK
  <2>2. row.price = t.price /\ row.quantity = t.quantity
    BY <2>1 DEF RowOf
  <2>3. PICK d, e, f, g :
              /\ EntriesFor(t) = {d, e, f, g}
              /\ d # e /\ f # g
              /\ d.asset = "CASH" /\ e.asset = "CASH" /\ f.asset = "SHARES" /\ g.asset = "SHARES"
              /\ e.delta = t.price * t.quantity /\ d.delta = - (t.price * t.quantity)
              /\ f.delta = t.quantity /\ g.delta = - t.quantity
              /\ t.price * t.quantity \in Int /\ t.quantity \in Int
    BY PostingsBalance
  <2>4. PICK cash \in Int : cash = t.price * t.quantity
    BY <2>3
  <2>5. /\ {x \in entries : x.asset = "CASH" /\ x.tradeId = row.tradeId} = {d, e}
        /\ {x \in entries : x.asset = "SHARES" /\ x.tradeId = row.tradeId} = {f, g}
    <3>1. \A x : x \in entries /\ x.tradeId = row.tradeId <=> x \in {d, e, f, g}
      BY <2>1, <2>3 DEF PostingsOf
    <3>2. "CASH" # "SHARES"
      OBVIOUS
    <3> QED
      BY <2>3, <3>1, <3>2
  <2>6. Sum("CASH", row.tradeId) = (- cash) + cash
    BY <2>3, <2>4, <2>5, TwoPostings
  <2>7. Sum("SHARES", row.tradeId) = t.quantity + (- t.quantity)
    <3>1. PICK q \in Int : q = t.quantity
      BY <2>3
    <3>2. f.delta = q /\ g.delta = - q /\ f.delta \in Int /\ g.delta \in Int
      BY <2>3, <3>1
    <3> QED
      BY <2>3, <2>5, <3>1, <3>2, TwoPostings
  <2>8. Cardinality(PostingsOf(row.tradeId)) = 4
    BY <2>1, PostingsBalance
  <2>9. Sum("CASH", row.tradeId) = 0 /\ Sum("SHARES", row.tradeId) = 0
    BY <2>3, <2>4, <2>6, <2>7
  <2> QED
    BY <2>1, <2>2, <2>3, <2>8, <2>9
<1> QED
  BY <1>1 DEF LedgerBalanced, LedgerOK, PostingsOf

-----------------------------------------------------------------------------
(* What is settled. *)

\* The ledger only grows: what is settled stays settled.
LEMMA StaysSettled ==
  ASSUME rows \subseteq rows', entries \subseteq entries'
  PROVE  \A t : Settled(t) => Settled(t)'
BY DEF Settled

\* A trade of this run whose id is in the ledger is settled: the row is its own.
LEMMA KnownSettled ==
  ASSUME CallPart, SettledOK, NEW t \in AllTrades, Known(t)
  PROVE  Settled(t)
<1>1. PICK row \in rows : row.tradeId = t.tradeId
  BY DEF Known
<1>2. PICK u \in AllTrades : row = RowOf(u) /\ EntriesFor(u) \subseteq entries
  BY DEF SettledOK
<1>3. u.tradeId = t.tradeId
  BY <1>1, <1>2 DEF RowOf
<1>4. u = t
  BY <1>3 DEF CallPart, BookPart, TradesOwned
<1> QED
  BY <1>2, <1>4 DEF Settled

\* A step of handlers or queue that does not touch results, ledger, topic, or
\* what was answered or given up: SettledOK needs the live submissions to stay
\* what they are, and no answered order to come to life.
LEMMA QuietSettled ==
  ASSUME CallPart, SettledOK, AllTrades' = AllTrades,
         UNCHANGED <<future, rows, entries, stream, acked, unrecorded>>,
         \A i \in OrderIds : future[i] # None => (Live(i)' <=> Live(i)),
         \A r \in Rpcs : Served(r)' => Served(r) /\ rpc'[r] = rpc[r]
  PROVE  SettledOK'
<1>1. \A t : Settled(t)' <=> Settled(t)
  BY DEF Settled
<1>2. \A i, t : Done(i, t)' <=> Done(i, t)
  BY DEF Done
<1>3. \A row \in rows' : \E t \in AllTrades' : row = RowOf(t) /\ EntriesFor(t) \subseteq entries'
  BY DEF SettledOK
<1>4. \A r \in Rpcs : Served(r)' =>
        \A n \in 1..TradeCount(r)' : n < rpc'[r].next => Settled(Result(r).trades[n])'
  BY <1>1 DEF SettledOK, Result, TradeCount, Settled
<1>5. \A t \in acked' \cup Range(stream') : Settled(t)'
  BY <1>1 DEF SettledOK
<1>6. \A i \in OrderIds : future'[i] # None =>
        \A t \in Range(future'[i].trades) : Settled(t)' \/ t \in unrecorded' \/ Live(i)'
  BY <1>1 DEF SettledOK
<1>7. \A t \in acked' \cup unrecorded' : \E i : Done(i, t)'
  BY <1>2 DEF SettledOK
<1>8. acked' \cap unrecorded' = {}
  BY DEF SettledOK
<1> QED
  BY <1>3, <1>4, <1>5, <1>6, <1>7, <1>8 DEF SettledOK

\* The steps of that kind.
LEMMA UntouchedSettled ==
  ASSUME CallPart, SettledOK, AllTrades' = AllTrades,
         UNCHANGED <<future, rpc, rows, entries, stream, acked, unrecorded>>
  PROVE  SettledOK'
<1>1. \A i : Live(i)' <=> Live(i)
  BY DEF Live, Submitting
<1>2. \A r \in Rpcs : Served(r)' => Served(r)
  BY DEF Served, Result
<1> QED
  BY <1>1, <1>2, QuietSettled

\* A submission comes to life with no result yet.
LEMMA SubmitSettled ==
  ASSUME CallPart, SettledOK, NEW r \in Rpcs, NEW k \in 1..MaxRequests, NEW o \in Requests,
         SubmitOrder(r, k, o)
  PROVE  SettledOK'
<1>1. AllTrades' = AllTrades /\ CallPart'
  BY SubmitCallPart
<1>2. /\ UNCHANGED <<future, rows, entries, stream, acked, unrecorded>> /\ rpc[r] = None
      /\ \E id : /\ id \notin DOMAIN order /\ id \in OrderIds
                 /\ rpc' = [rpc EXCEPT ![r] = [op |-> "submit", id |-> id, pc |-> "enqueue", next |-> 1]]
  <2>1. PICK id : id = sequence + 1
    OBVIOUS
  <2>2. id \notin DOMAIN order
    <3>1. id \notin 1..sequence
      BY <2>1 DEF CallPart, ServiceTypeOK
    <3> QED
      BY <3>1 DEF CallPart, CallsOK
  <2> QED
    BY <2>1, <2>2 DEF SubmitOrder, durable
<1>3. PICK id : /\ id \notin DOMAIN order /\ id \in OrderIds
                /\ rpc' = [rpc EXCEPT ![r] = [op |-> "submit", id |-> id, pc |-> "enqueue", next |-> 1]]
  BY <1>2
<1>4. future[id] = None
  BY <1>3 DEF CallPart, BookPart, BookInv, OnWriter
<1>5. /\ rpc'[r].id = id /\ rpc'[r].pc = "enqueue" /\ \A q \in Rpcs : q # r => rpc'[q] = rpc[q]
  BY <1>3 DEF CallPart, ServiceTypeOK
<1>6. \A q \in Rpcs : Served(q)' => Served(q) /\ rpc'[q] = rpc[q]
  BY <1>2, <1>5 DEF Served, Result
<1>7. \A i \in OrderIds : future[i] # None => (Live(i)' <=> Live(i))
  BY <1>2, <1>4, <1>5 DEF Live, Submitting
<1> QED
  BY <1>1, <1>2, <1>6, <1>7, QuietSettled

\* Neither has an order that waits in the queue.
LEMMA EnqueueSettled ==
  ASSUME CallPart, SettledOK, NEW r \in Rpcs, Enqueue(r)
  PROVE  SettledOK'
<1>1. PICK c : Serves(r, c) /\ SameCall(c, rpc[r]) /\ rpc[r] # None
  BY EnqueueCallPart
<1>2. /\ AllTrades' = AllTrades /\ CallPart'
      /\ UNCHANGED <<future, rows, entries, stream, acked, unrecorded>>
  BY EnqueueCallPart DEF Enqueue, durable
<1>3. Submitting(r) /\ future[rpc[r].id] = None
  BY DEF Enqueue, CallPart, CallsOK, Untaken
<1>4. \A q \in Rpcs : Served(q)' => Served(q) /\ rpc'[q] = rpc[q]
  BY <1>1, <1>2, <1>3 DEF Served, Result, Serves, SameCall
<1>5. \A i : Live(i)' <=> Live(i)
  <2>1. \A q \in Rpcs : (Submitting(q)' <=> Submitting(q)) /\ (Submitting(q) => rpc'[q].id = rpc[q].id)
    BY <1>1 DEF Submitting, Serves, SameCall
  <2> QED
    BY <2>1 DEF Live
<1> QED
  BY <1>2, <1>4, <1>5, QuietSettled

\* A cancel has no trades.
LEMMA CancelOrderSettled ==
  ASSUME CallPart, SettledOK, NEW r \in Rpcs, NEW id \in OrderIds, CancelOrder(r, id)
  PROVE  SettledOK'
<1>1. PICK c : Serves(r, c) /\ c # None /\ c.op = "cancel" /\ rpc[r] = None
  BY CancelOrderCallPart
<1>2. /\ AllTrades' = AllTrades
      /\ UNCHANGED <<future, rows, entries, stream, acked, unrecorded>>
  BY CancelOrderCallPart DEF CancelOrder, durable
<1>3. \A q \in Rpcs : Served(q)' => Served(q) /\ rpc'[q] = rpc[q]
  BY <1>1, <1>2 DEF Served, Result, Serves
<1>4. \A i : Live(i)' <=> Live(i)
  BY <1>1 DEF Live, Submitting, Serves
<1> QED
  BY <1>2, <1>3, <1>4, QuietSettled

\* Nor has its end.
LEMMA TakeCancelSettled ==
  ASSUME CallPart, SettledOK, TakeCancel
  PROVE  SettledOK'
<1>1. PICK r \in Rpcs : Serves(r, None) /\ ~ Submitting(r)
  BY TakeCancelCallPart
<1>2. /\ AllTrades' = AllTrades
      /\ UNCHANGED <<future, rows, entries, stream, acked, unrecorded>>
  BY TakeCancelCallPart DEF TakeCancel, durable
<1>3. \A q \in Rpcs : Served(q)' => Served(q) /\ rpc'[q] = rpc[q]
  BY <1>1, <1>2 DEF Served, Result, Serves
<1>4. \A i : Live(i)' <=> Live(i)
  BY <1>1 DEF Live, Submitting, Serves
<1> QED
  BY <1>2, <1>3, <1>4, QuietSettled

\* The writer brings results in; their handlers are there and have looked at
\* none of the trades.
LEMMA WriterRunsSettled ==
  ASSUME CallPart, SettledOK, WriterRuns
  PROVE  SettledOK'
<1>1. WriterMoves /\ CallPart'
  BY WriterRunsCallPart
<1>2. UNCHANGED <<rpc, rows, entries, stream, acked, unrecorded>>
  BY DEF WriterRuns, memory, durable
<1>3. \A t : Settled(t)' <=> Settled(t)
  BY <1>2 DEF Settled
<1>4. \A i : Live(i)' <=> Live(i)
  BY <1>2 DEF Live, Submitting
<1>5. Live(writer.id)
  BY <1>1 DEF WriterMoves, CallPart, QueueOK, Live
<1>6. \A i \in OrderIds : future[i] # None => future'[i] = future[i]
  BY <1>1 DEF WriterMoves
<1>7. \A row \in rows' : \E t \in AllTrades' : row = RowOf(t) /\ EntriesFor(t) \subseteq entries'
  BY <1>1, <1>2 DEF SettledOK, WriterMoves
<1>8. ASSUME NEW r \in Rpcs, Served(r)', NEW n \in 1..TradeCount(r)', n < rpc'[r].next
      PROVE  Settled(Result(r).trades[n])'
  <2>1. rpc[r] # None /\ rpc[r].op = "submit" /\ rpc[r].pc = "wait" /\ rpc'[r] = rpc[r]
        /\ rpc[r].id \in OrderIds
    BY <1>2, <1>8, CallTyped DEF Served, CallPart
  <2>2. CASE future[rpc[r].id] = None
    <3>1. rpc[r].next = 1
      BY <2>1, <2>2 DEF CallPart, CallsOK, Submitting
    <3>2. n >= 1
      BY <1>8
    <3> QED
      BY <1>8, <2>1, <3>1, <3>2
  <2>3. CASE future[rpc[r].id] # None
    <3>1. Served(r) /\ Result(r)' = Result(r)
      BY <1>6, <2>1, <2>3 DEF Served, Result
    <3>2. PICK m : m = n
      OBVIOUS
    <3>3. m \in 1..TradeCount(r) /\ m < rpc[r].next
      BY <1>8, <2>1, <3>1, <3>2 DEF TradeCount
    <3>4. Settled(Result(r).trades[m])
      BY <3>1, <3>3 DEF SettledOK
    <3> QED
      BY <1>2, <3>1, <3>2, <3>4 DEF Settled
  <2> QED
    BY <2>2, <2>3
<1>9. ASSUME NEW i \in OrderIds, future'[i] # None, NEW t \in Range(future'[i].trades)
      PROVE  Settled(t)' \/ t \in unrecorded' \/ Live(i)'
  <2>1. CASE future[i] = None
    <3>1. i = writer.id
      BY <1>1, <1>9, <2>1 DEF WriterMoves
    <3> QED
      BY <1>4, <1>5, <3>1
  <2>2. CASE future[i] # None
    BY <1>2, <1>3, <1>4, <1>6, <1>9, <2>2 DEF SettledOK
  <2> QED
    BY <2>1, <2>2
<1>10. \A t \in acked' \cup unrecorded' : \E i : Done(i, t)'
  BY <1>2, <1>4, <1>6 DEF SettledOK, Done
<1>11. /\ \A t \in acked' \cup Range(stream') : Settled(t)'
       /\ acked' \cap unrecorded' = {}
  BY <1>2, <1>3 DEF SettledOK
<1> QED
  BY <1>7, <1>8, <1>9, <1>10, <1>11 DEF SettledOK

\* A handler that moves on with its trades is as alive as before.
LEMMA OnwardLive ==
  ASSUME NEW r \in Rpcs, Served(r), NEW c, Serves(r, c), SameCall(c, rpc[r])
  PROVE  \A i : Live(i)' <=> Live(i)
<1>1. \A q \in Rpcs : (Submitting(q)' <=> Submitting(q)) /\ (Submitting(q) => rpc'[q].id = rpc[q].id)
  BY DEF Submitting, Serves, SameCall, Served
<1> QED
  BY <1>1 DEF Live

\* A trade recorded is settled, be it now or before.
LEMMA RecordSettled ==
  ASSUME CallPart, SettledOK, NEW r \in Rpcs, Record(r)
  PROVE  SettledOK'
<1>1. Served(r) /\ CallPart' /\ AllTrades' = AllTrades /\ UNCHANGED future
  BY ServedCallPart
<1>2. PICK c : Serves(r, c) /\ SameCall(c, rpc[r]) /\ c.next = rpc[r].next + 1
  BY ServedCallPart
<1>3. UNCHANGED <<stream, acked, unrecorded>>
  BY DEF Record
<1>4. PICK n \in 1..TradeCount(r), t \in Trade :
           /\ n = rpc[r].next /\ t = Result(r).trades[n] /\ t \in AllTrades
           /\ \/ Known(t) /\ UNCHANGED <<rows, entries>>
              \/ /\ ~ Known(t)
                 /\ rows' = rows \cup {RowOf(t)} /\ entries' = entries \cup EntriesFor(t)
  BY RecordWrites
<1>5. rows \subseteq rows' /\ entries \subseteq entries'
  BY <1>4
<1>6. \A u : Settled(u) => Settled(u)'
  BY <1>5, StaysSettled
<1>7. Settled(t)'
  <2>1. CASE Known(t)
    BY <1>4, <1>6, <2>1, KnownSettled
  <2>2. CASE ~ Known(t)
    BY <1>4, <2>2 DEF Settled
  <2> QED
    BY <2>1, <2>2
<1>8. \A i : Live(i)' <=> Live(i)
  BY <1>1, <1>2, OnwardLive
<1>9. \A row \in rows' : \E u \in AllTrades' : row = RowOf(u) /\ EntriesFor(u) \subseteq entries'
  BY <1>1, <1>4, <1>5 DEF SettledOK
<1>10. ASSUME NEW q \in Rpcs, Served(q)', NEW m \in 1..TradeCount(q)', m < rpc'[q].next
       PROVE  Settled(Result(q).trades[m])'
  <2>0. PICK j : j = m
    OBVIOUS
  <2>1. CASE q = r
    <3>1. Result(r)' = Result(r) /\ TradeCount(r)' = TradeCount(r)
      BY <1>1, <1>2 DEF Result, TradeCount, Serves, SameCall
    <3>2. j \in 1..TradeCount(r) /\ j < n + 1 /\ n \in Nat
      BY <1>2, <1>4, <1>10, <2>0, <2>1, <3>1 DEF Serves
    <3>3. CASE j = n
      BY <1>4, <1>7, <2>0, <2>1, <3>1, <3>3 DEF Settled
    <3>4. CASE j # n
      <4>1. j < rpc[r].next
        BY <1>4, <3>2, <3>4
      <4>2. Settled(Result(r).trades[j])
        BY <1>1, <3>2, <4>1 DEF SettledOK
      <4>3. PICK u : u = Result(r).trades[j]
        OBVIOUS
      <4>4. Settled(u)'
        BY <1>6, <4>2, <4>3
      <4> QED
        BY <2>0, <2>1, <3>1, <4>3, <4>4 DEF Settled
    <3> QED
      BY <3>3, <3>4
  <2>2. CASE q # r
    <3>1. rpc'[q] = rpc[q] /\ Served(q) /\ Result(q)' = Result(q) /\ TradeCount(q)' = TradeCount(q)
      BY <1>1, <1>2, <1>10, <2>2 DEF Served, Result, TradeCount, Serves
    <3>2. Settled(Result(q).trades[j])
      BY <1>10, <2>0, <3>1 DEF SettledOK
    <3>3. PICK u : u = Result(q).trades[j]
      OBVIOUS
    <3>4. Settled(u)'
      BY <1>6, <3>2, <3>3
    <3> QED
      BY <2>0, <3>1, <3>3, <3>4 DEF Settled
  <2> QED
    BY <2>1, <2>2
<1>11. \A u \in acked' \cup Range(stream') : Settled(u)'
  BY <1>3, <1>6 DEF SettledOK
<1>12. \A i \in OrderIds : future'[i] # None =>
         \A u \in Range(future'[i].trades) : Settled(u)' \/ u \in unrecorded' \/ Live(i)'
  BY <1>1, <1>3, <1>6, <1>8 DEF SettledOK
<1>13. \A u \in acked' \cup unrecorded' : \E i : Done(i, u)'
  BY <1>1, <1>3, <1>8 DEF SettledOK, Done
<1>14. acked' \cap unrecorded' = {}
  BY <1>3 DEF SettledOK
<1> QED
  BY <1>9, <1>10, <1>11, <1>12, <1>13, <1>14 DEF SettledOK

\* Only a trade that is settled is published.
LEMMA PublishSettled ==
  ASSUME CallPart, SettledOK, NEW r \in Rpcs, Publish(r)
  PROVE  SettledOK'
<1>1. Served(r) /\ CallPart' /\ AllTrades' = AllTrades /\ UNCHANGED future
  BY ServedCallPart
<1>2. PICK c : Serves(r, c) /\ SameCall(c, rpc[r]) /\ c.next = rpc[r].next + 1
  BY ServedCallPart
<1>3. UNCHANGED <<rows, entries, acked, unrecorded>>
  BY DEF Publish
<1>4. \A u : Settled(u)' <=> Settled(u)
  BY <1>3 DEF Settled
<1>5. \A i : Live(i)' <=> Live(i)
  BY <1>1, <1>2, OnwardLive
<1>6. \A n \in 1..TradeCount(r) : Settled(Result(r).trades[n])
  <2>1. \A n \in 1..TradeCount(r) : n < rpc[r].next
    BY <1>1, ResultTyped DEF Publish, Publishing
  <2> QED
    BY <1>1, <2>1 DEF SettledOK
<1>7. \A u \in Range(stream') : Settled(u)
  <2>1. PICK n : n = rpc[r].next - TradeCount(r)
    OBVIOUS
  <2>2. n \in 1..TradeCount(r)
    BY <1>1, <2>1, ResultTyped DEF Publish, Publishing
  <2>3. PICK t : t = Result(r).trades[n]
    OBVIOUS
  <2>4. t \in Trade /\ Settled(t)
    BY <1>1, <1>6, <2>2, <2>3, ResultTyped
  <2>5. stream' = Append(stream, t) \/ stream' = stream
    BY <2>1, <2>3 DEF Publish
  <2>6. stream \in Seq(Trade) /\ \A u \in Range(stream) : Settled(u)
    BY DEF CallPart, ServiceTypeOK, SettledOK
  <2>7. Range(Append(stream, t)) = Range(stream) \cup {t}
    BY <2>4, <2>6, RangeGrows
  <2> QED
    BY <2>4, <2>5, <2>6, <2>7
<1>8. ASSUME NEW q \in Rpcs, Served(q)', NEW m \in 1..TradeCount(q)', m < rpc'[q].next
      PROVE  Settled(Result(q).trades[m])'
  <2>0. PICK j : j = m
    OBVIOUS
  <2>1. Result(q)' = Result(q) /\ TradeCount(q)' = TradeCount(q)
    BY <1>1, <1>2 DEF Result, TradeCount, Serves, SameCall
  <2>2. Settled(Result(q).trades[j])
    <3>1. CASE q = r
      BY <1>6, <1>8, <2>0, <2>1, <3>1
    <3>2. CASE q # r
      <4>1. rpc'[q] = rpc[q] /\ Served(q)
        BY <1>1, <1>2, <1>8, <3>2 DEF Served, Result, Serves
      <4> QED
        BY <1>8, <2>0, <2>1, <4>1 DEF SettledOK
    <3> QED
      BY <3>1, <3>2
  <2> QED
    BY <1>3, <2>0, <2>1, <2>2 DEF Settled
<1>9. \A row \in rows' : \E u \in AllTrades' : row = RowOf(u) /\ EntriesFor(u) \subseteq entries'
  BY <1>1, <1>3 DEF SettledOK
<1>10. \A u \in acked' \cup Range(stream') : Settled(u)'
  BY <1>3, <1>4, <1>7 DEF SettledOK
<1>11. \A i \in OrderIds : future'[i] # None =>
         \A u \in Range(future'[i].trades) : Settled(u)' \/ u \in unrecorded' \/ Live(i)'
  BY <1>1, <1>3, <1>4, <1>5 DEF SettledOK
<1>12. \A u \in acked' \cup unrecorded' : \E i : Done(i, u)'
  BY <1>1, <1>3, <1>5 DEF SettledOK, Done
<1>13. acked' \cap unrecorded' = {}
  BY <1>3 DEF SettledOK
<1> QED
  BY <1>8, <1>9, <1>10, <1>11, <1>12, <1>13 DEF SettledOK

\* A call ends, with an answer or INTERNAL: every trade of its result is settled
\* or given up, and is no other call's.
LEMMA EndSettled ==
  ASSUME CallPart, SettledOK, NEW r \in Rpcs, RecordFails(r) \/ PublishFails(r) \/ Reply(r)
  PROVE  SettledOK'
<1>1. Served(r) /\ CallPart' /\ AllTrades' = AllTrades /\ UNCHANGED future /\ Serves(r, None)
  BY ServedCallPart
<1>2. UNCHANGED <<rows, entries, stream>>
  BY DEF RecordFails, PublishFails, Reply, durable
<1>3. \A u : Settled(u)' <=> Settled(u)
  BY <1>2 DEF Settled
<1>4. PICK id \in OrderIds : /\ id = rpc[r].id /\ future[id] # None /\ Result(r) = future[id]
                             /\ Submitting(r) /\ Live(id)
  <2>1. rpc[r].id \in OrderIds /\ future[rpc[r].id] # None /\ Result(r) = future[rpc[r].id]
    BY <1>1, ResultTyped
  <2>2. Submitting(r) /\ Live(rpc[r].id)
    BY <1>1 DEF Served, Submitting, Live
  <2> QED
    BY <2>1, <2>2
<1>5. \A q \in Rpcs : q # r /\ Submitting(q) => rpc[q].id # id
  BY <1>4 DEF CallPart, CallsOK
<1>6. /\ ~ Live(id)'
      /\ \A i : i # id => (Live(i)' <=> Live(i))
  BY <1>1, <1>4, <1>5 DEF Live, Submitting, Serves
<1>7. PICK ours : ours = Range(future[id].trades)
  OBVIOUS
<1>8. \A u \in ours : u \notin acked /\ u \notin unrecorded
  <2>1. SUFFICES ASSUME NEW u \in ours, NEW i, Done(i, u) PROVE FALSE
    BY DEF SettledOK
  <2>2. i \in OrderIds /\ i # id /\ u \in Reports(i) /\ u \in Reports(id)
    BY <1>4, <1>7, <2>1 DEF Done, Reports
  <2> QED
    BY <2>2 DEF CallPart, BookPart, TradesOwned
<1>9. \A u \in ours : \E n \in 1..TradeCount(r) : u = Result(r).trades[n]
  <2>1. DOMAIN Result(r).trades = 1..TradeCount(r)
    BY <1>1, ResultTyped
  <2> QED
    BY <1>4, <1>7, <2>1 DEF Range
<1>10. \A n \in 1..TradeCount(r) : Result(r).trades[n] \in ours
  BY <1>1, <1>4, <1>7, ResultTyped
<1>11. \A n \in 1..TradeCount(r) : n < rpc[r].next => Settled(Result(r).trades[n])
  BY <1>1 DEF SettledOK
<1>12. \E gone, told \in SUBSET ours :
         /\ unrecorded' = unrecorded \cup gone /\ acked' = acked \cup told
         /\ gone \cap told = {}
         /\ \A u \in ours : Settled(u) \/ u \in gone
         /\ \A u \in told : Settled(u)
  <2>1. CASE RecordFails(r)
    <3>1. PICK gone : gone = {Result(r).trades[i] : i \in rpc[r].next..TradeCount(r)}
      OBVIOUS
    <3>2. unrecorded' = unrecorded \cup gone /\ acked' = acked \cup {}
      BY <2>1, <3>1 DEF RecordFails
    <3>3. rpc[r].next \in Nat \ {0} /\ TradeCount(r) \in Nat
      BY <1>1, ResultTyped
    <3>4. gone \subseteq ours
      BY <1>10, <3>1, <3>3
    <3>5. \A u \in ours : Settled(u) \/ u \in gone
      <4>1. SUFFICES ASSUME NEW n \in 1..TradeCount(r)
                     PROVE  Settled(Result(r).trades[n]) \/ Result(r).trades[n] \in gone
        BY <1>9
      <4>2. n < rpc[r].next \/ n \in rpc[r].next..TradeCount(r)
        BY <3>3
      <4> QED
        BY <1>11, <3>1, <4>2
    <3>6. PICK told \in SUBSET ours : told = {}
      OBVIOUS
    <3>7. acked' = acked \cup told /\ gone \cap told = {} /\ \A u \in told : Settled(u)
      BY <3>2, <3>6
    <3> QED
      BY <3>2, <3>4, <3>5, <3>7
  <2>2. CASE Reply(r)
    <3>1. unrecorded' = unrecorded \cup {} /\ acked' = acked \cup ours
      BY <1>4, <1>7, <2>2 DEF Reply
    <3>2. \A n \in 1..TradeCount(r) : n < rpc[r].next
      BY <1>1, <2>2, ResultTyped DEF Reply
    <3>3. \A u \in ours : Settled(u)
      BY <1>9, <1>11, <3>2
    <3> QED
      BY <3>1, <3>3
  <2>3. CASE PublishFails(r)
    <3>1. unrecorded' = unrecorded \cup {} /\ acked' = acked \cup {}
      BY <2>3 DEF PublishFails
    <3>2. \A n \in 1..TradeCount(r) : n < rpc[r].next
      BY <1>1, <2>3, ResultTyped DEF PublishFails, Publishing
    <3>3. \A u \in ours : Settled(u)
      BY <1>9, <1>11, <3>2
    <3>4. PICK gone \in SUBSET ours : gone = {}
      OBVIOUS
    <3>5. unrecorded' = unrecorded \cup gone /\ acked' = acked \cup gone
      BY <3>1, <3>4
    <3> QED
      BY <3>3, <3>4, <3>5
  <2> QED
    BY <2>1, <2>2, <2>3
<1>13. PICK gone, told \in SUBSET ours :
         /\ unrecorded' = unrecorded \cup gone /\ acked' = acked \cup told
         /\ gone \cap told = {}
         /\ \A u \in ours : Settled(u) \/ u \in gone
         /\ \A u \in told : Settled(u)
  BY <1>12
<1>14. \A row \in rows' : \E u \in AllTrades' : row = RowOf(u) /\ EntriesFor(u) \subseteq entries'
  BY <1>1, <1>2 DEF SettledOK
<1>15. ASSUME NEW q \in Rpcs, Served(q)', NEW m \in 1..TradeCount(q)', m < rpc'[q].next
       PROVE  Settled(Result(q).trades[m])'
  <2>0. PICK j : j = m
    OBVIOUS
  <2>1. q # r
    BY <1>1, <1>15 DEF Served, Serves
  <2>2. /\ rpc'[q] = rpc[q] /\ Served(q)
        /\ Result(q)' = Result(q) /\ TradeCount(q)' = TradeCount(q)
    BY <1>1, <1>15, <2>1 DEF Served, Result, TradeCount, Serves
  <2>3. Settled(Result(q).trades[j])
    BY <1>15, <2>0, <2>2 DEF SettledOK
  <2> QED
    BY <1>2, <2>0, <2>2, <2>3 DEF Settled
<1>16. \A u \in acked' \cup Range(stream') : Settled(u)'
  BY <1>2, <1>3, <1>13 DEF SettledOK
<1>17. ASSUME NEW i \in OrderIds, future'[i] # None, NEW u \in Range(future'[i].trades)
       PROVE  Settled(u)' \/ u \in unrecorded' \/ Live(i)'
  <2>1. CASE i = id
    BY <1>1, <1>3, <1>7, <1>13, <1>17, <2>1
  <2>2. CASE i # id
    BY <1>1, <1>3, <1>6, <1>13, <1>17, <2>2 DEF SettledOK
  <2> QED
    BY <2>1, <2>2
<1>18. ASSUME NEW u \in acked' \cup unrecorded' PROVE \E i : Done(i, u)'
  <2>1. CASE u \in ours
    <3>1. Done(id, u)'
      BY <1>1, <1>4, <1>6, <1>7, <2>1 DEF Done
    <3> QED
      BY <3>1
  <2>2. CASE u \notin ours
    <3>1. u \in acked \cup unrecorded
      BY <1>13, <1>18, <2>2
    <3>2. PICK i : Done(i, u)
      BY <3>1 DEF SettledOK
    <3>3. i # id
      BY <1>4, <3>2 DEF Done
    <3>4. Done(i, u)'
      BY <1>1, <1>6, <3>2, <3>3 DEF Done
    <3> QED
      BY <3>4
  <2> QED
    BY <2>1, <2>2
<1>19. acked' \cap unrecorded' = {}
  BY <1>8, <1>13 DEF SettledOK
<1> QED
  BY <1>14, <1>15, <1>16, <1>17, <1>18, <1>19 DEF SettledOK

-----------------------------------------------------------------------------
(* The service as a whole. *)

\* Handlers, queue and book; the ledger; and, until the first crash, what the
\* clients were told.
ServiceParts == CallPart /\ LedgerOK /\ (restarts = 0 => SettledOK)

\* The service at its start.
LEMMA InitServiceParts == Init => ServiceParts
<1> SUFFICES ASSUME Init PROVE ServiceParts
  OBVIOUS
<1>1. BookInit /\ BookPart
  BY InitBookPart DEF Init
<1>2. writer = None /\ DOMAIN order = {} /\ \A i \in OrderIds : future[i] = None
  BY <1>1 DEF BookInit
<1>3. /\ sequence = 0 /\ cmds = <<>> /\ stream = <<>> /\ restarts = 0
      /\ rows = {} /\ entries = {} /\ acked = {} /\ unrecorded = {}
      /\ rpc = [r \in Rpcs |-> None]
  BY DEF Init
<1>4. DOMAIN cmds = {} /\ cmds \in Seq(Commands) /\ stream \in Seq(Trade) /\ Range(stream) = {}
  BY <1>3 DEF Range
<1>5. \A r \in Rpcs : rpc[r] = None
  BY <1>3
<1>6. BookTypeOK
  BY <1>1 DEF BookPart, BookInv
<1>7. ServiceTypeOK
  BY <1>3, <1>4, <1>5, <1>6 DEF ServiceTypeOK
<1>8. CallsOK /\ QueueOK
  BY <1>2, <1>4, <1>5 DEF CallsOK, QueueOK, Submitting
<1>9. LedgerOK
  BY <1>3 DEF LedgerOK
<1>10. SettledOK
  BY <1>2, <1>3, <1>4, <1>5 DEF SettledOK, Served
<1> QED
  BY <1>1, <1>7, <1>8, <1>9, <1>10 DEF ServiceParts, CallPart

\* A crash empties the memory: book, queue and handlers are those of the start.
LEMMA CrashBook == (BookInit => BookPart)'
BY InitBookPart, PTL

\* What survives is the ledger, with its invariant; the promises to clients
\* are those of one run of the engine.
LEMMA CrashServiceParts ==
  ASSUME ServiceParts, Crash
  PROVE  ServiceParts'
<1>1. BookInit'
  BY DEF Crash, BookInit
<1>2. BookPart'
  BY <1>1, CrashBook
<1>3. writer' = None /\ DOMAIN order' = {} /\ \A i \in OrderIds : future'[i] = None
  BY DEF Crash
<1>4. /\ sequence' = 0 /\ cmds' = <<>> /\ stream' = stream /\ restarts' = restarts + 1
      /\ rows' = rows /\ entries' = entries /\ acked' = acked /\ unrecorded' = {}
      /\ rpc' = [r \in Rpcs |-> None]
  BY DEF Crash, durable
<1>5. DOMAIN cmds' = {} /\ cmds' \in Seq(Commands)
  BY <1>4
<1>6. \A r \in Rpcs : rpc'[r] = None
  BY <1>4
<1>7. BookTypeOK'
  BY <1>2 DEF BookPart, BookInv
<1>8. restarts \in Nat /\ stream \in Seq(Trade) /\ acked \subseteq Trade
  BY DEF ServiceParts, CallPart, ServiceTypeOK
<1>9. ServiceTypeOK'
  BY <1>4, <1>5, <1>6, <1>7, <1>8 DEF ServiceTypeOK
<1>10. CallsOK' /\ QueueOK'
  BY <1>3, <1>5, <1>6 DEF CallsOK, QueueOK, Submitting
<1>11. LedgerOK'
  BY <1>4 DEF ServiceParts, LedgerOK, PostingsOf
<1>12. restarts' # 0
  BY <1>4, <1>8
<1> QED
  BY <1>2, <1>9, <1>10, <1>11, <1>12 DEF ServiceParts, CallPart

\* Every step keeps the service's invariant.
LEMMA NextServiceParts ==
  ASSUME ServiceParts, [Next]_vars
  PROVE  ServiceParts'
<1>0. CallPart /\ LedgerOK /\ (restarts = 0 => SettledOK)
  BY DEF ServiceParts
<1>0a. UNCHANGED <<rows, entries>> => LedgerOK'
  BY <1>0 DEF LedgerOK, PostingsOf
<1>1. ASSUME NEW r \in Rpcs, NEW o \in Requests, NEW k \in 1..MaxRequests, SubmitOrder(r, k, o)
      PROVE  ServiceParts'
  <2>1. UNCHANGED <<rows, entries, restarts>>
    BY <1>1 DEF SubmitOrder, durable
  <2> QED
    BY <1>0, <1>0a, <1>1, <2>1, SubmitCallPart, SubmitSettled DEF ServiceParts
<1>2. ASSUME NEW r \in Rpcs, SubmitInvalid(r) PROVE ServiceParts'
  <2>1. /\ UNCHANGED <<bookState, cmds, rpc, rows, entries, stream, acked, unrecorded, restarts>>
        /\ sequence' = sequence + 1
    BY <1>2 DEF SubmitInvalid, durable
  <2>2. UNCHANGED <<levels, index, order, tradeSeq, writer, trades, future, arrivals>>
    BY <2>1 DEF bookState
  <2>3. BookPart' /\ AllTrades' = AllTrades
    BY <1>0, <2>2, SameBookPart DEF CallPart
  <2>4. sequence' \in Nat /\ sequence <= sequence' /\ restarts' \in Nat
    BY <1>0, <2>1 DEF CallPart, ServiceTypeOK
  <2>5. CallPart'
    BY <1>0, <2>1, <2>2, <2>3, <2>4, SameCallPart
  <2> QED
    BY <1>0, <1>0a, <2>1, <2>2, <2>3, <2>5, UntouchedSettled DEF ServiceParts
<1>3. ASSUME NEW r \in Rpcs, Enqueue(r) PROVE ServiceParts'
  <2>1. UNCHANGED <<rows, entries, restarts>>
    BY <1>3 DEF Enqueue, durable
  <2> QED
    BY <1>0, <1>0a, <1>3, <2>1, EnqueueCallPart, EnqueueSettled DEF ServiceParts
<1>4. ASSUME NEW r \in Rpcs, Record(r) PROVE ServiceParts'
  <2>1. UNCHANGED restarts
    BY <1>4 DEF Record
  <2> QED
    BY <1>0, <1>4, <2>1, ServedCallPart, RecordLedger, RecordSettled DEF ServiceParts
<1>5. ASSUME NEW r \in Rpcs, Publish(r) PROVE ServiceParts'
  <2>1. UNCHANGED <<rows, entries, restarts>>
    BY <1>5 DEF Publish
  <2> QED
    BY <1>0, <1>0a, <1>5, <2>1, ServedCallPart, PublishSettled DEF ServiceParts
<1>6. ASSUME NEW r \in Rpcs, RecordFails(r) \/ PublishFails(r) \/ Reply(r)
      PROVE  ServiceParts'
  <2>1. UNCHANGED <<rows, entries, restarts>>
    BY <1>6 DEF RecordFails, PublishFails, Reply, durable
  <2> QED
    BY <1>0, <1>0a, <1>6, <2>1, ServedCallPart, EndSettled DEF ServiceParts
<1>7. ASSUME NEW r \in Rpcs, NEW id \in OrderIds, CancelOrder(r, id) PROVE ServiceParts'
  <2>1. UNCHANGED <<rows, entries, restarts>>
    BY <1>7 DEF CancelOrder, durable
  <2> QED
    BY <1>0, <1>0a, <1>7, <2>1, CancelOrderCallPart, CancelOrderSettled DEF ServiceParts
<1>8. CASE TakeSubmit
  <2>1. UNCHANGED <<future, rpc, rows, entries, stream, acked, unrecorded, restarts>>
    BY <1>8 DEF TakeSubmit, StartSubmit, durable
  <2> QED
    BY <1>0, <1>0a, <1>8, <2>1, TakeSubmitCallPart, UntouchedSettled DEF ServiceParts
<1>9. CASE TakeCancel
  <2>1. UNCHANGED <<rows, entries, restarts>>
    BY <1>9 DEF TakeCancel, durable
  <2> QED
    BY <1>0, <1>0a, <1>9, <2>1, TakeCancelCallPart, TakeCancelSettled DEF ServiceParts
<1>10. CASE WriterRuns
  <2>1. UNCHANGED <<rows, entries, restarts>>
    BY <1>10 DEF WriterRuns, durable
  <2> QED
    BY <1>0, <1>0a, <1>10, <2>1, WriterRunsCallPart, WriterRunsSettled DEF ServiceParts
<1>11. CASE Crash
  BY <1>11, CrashServiceParts
<1>12. CASE UNCHANGED vars
  <2>1. UNCHANGED <<bookState, sequence, cmds, rpc, rows, entries, stream, acked, unrecorded, restarts>>
    BY <1>12 DEF vars
  <2>2. UNCHANGED <<levels, index, order, tradeSeq, writer, trades, future, arrivals>>
    BY <2>1 DEF bookState
  <2>3. BookPart' /\ AllTrades' = AllTrades
    BY <1>0, <2>2, SameBookPart DEF CallPart
  <2>4. sequence' \in Nat /\ sequence <= sequence' /\ restarts' \in Nat
    BY <1>0, <2>1 DEF CallPart, ServiceTypeOK
  <2>5. CallPart'
    BY <1>0, <2>1, <2>2, <2>3, <2>4, SameCallPart
  <2> QED
    BY <1>0, <1>0a, <2>1, <2>2, <2>3, <2>5, UntouchedSettled DEF ServiceParts
<1> QED
  BY <1>1, <1>2, <1>3, <1>4, <1>5, <1>6, <1>7, <1>8, <1>9, <1>10, <1>11, <1>12
     DEF Next, Handler, Writer

\* The invariant holds throughout.
LEMMA SpecServiceParts == Spec => []ServiceParts
<1>1. Init => ServiceParts
  BY InitServiceParts
<1>2. ServiceParts /\ [Next]_vars => ServiceParts'
  BY NextServiceParts
<1> QED
  BY <1>1, <1>2, PTL DEF Spec

-----------------------------------------------------------------------------
(* The properties of the run. *)

\* When every call has ended there is nothing on the writer and nobody to wait
\* for.
LEMMA AllEndedSettled ==
  ASSUME CallPart, SettledOK, \A r \in Rpcs : rpc[r] = None
  PROVE  /\ \A t \in AllTrades \ unrecorded : Settled(t)
         /\ unrecorded \cap acked = {}
<1>1. \A i : ~ Live(i)
  BY DEF Live, Submitting
<1>2. writer = None
  BY DEF CallPart, QueueOK, Submitting
<1>3. ASSUME NEW t \in AllTrades, t \notin unrecorded PROVE Settled(t)
  <2>1. PICK i \in OrderIds : t \in Reports(i)
    BY <1>3, AllTradesReported DEF CallPart, BookPart
  <2>2. future[i] # None /\ t \in Range(future[i].trades)
    BY <1>2, <2>1 DEF Reports
  <2> QED
    BY <1>1, <1>3, <2>2 DEF SettledOK
<1> QED
  BY <1>3 DEF SettledOK

\* Handlers, queue and book of the Java engine are well typed throughout,
\* crashes included: the type invariant.
THEOREM ServiceTyped == Spec => []ServiceTypeOK
<1>1. ServiceParts => ServiceTypeOK
  BY DEF ServiceParts, CallPart
<1> QED
  BY <1>1, SpecServiceParts, PTL

\* JdbcTradeLedger.record() writes a trade's row and its postings as one: in
\* every state, whatever failed or crashed, the ledger balances per trade and
\* asset.
THEOREM LedgerAlwaysBalances == Spec => []LedgerBalanced
<1>1. ServiceParts => LedgerBalanced
  BY LedgerBalances DEF ServiceParts
<1> QED
  BY <1>1, SpecServiceParts, PTL

\* submitOrder() answers OK, and publishes, only what is in the ledger: as long
\* as the engine has not been restarted, for any number of handlers in any
\* interleaving.
THEOREM DurableBeforeTold == Spec => []FillsDurableFirst
<1>1. ServiceParts => FillsDurableFirst
  BY DEF ServiceParts, SettledOK, FillsDurableFirst
<1> QED
  BY <1>1, SpecServiceParts, PTL

\* submitOrder() drops no fill silently: once its handlers are done, a trade of
\* the book is in the ledger or its call ended INTERNAL, and never both
\* answered OK and given up.
THEOREM NoFillDropped == Spec => []NothingSilentlyUnsettled
<1>1. ServiceParts => NothingSilentlyUnsettled
  BY AllEndedSettled DEF ServiceParts, NothingSilentlyUnsettled
<1> QED
  BY <1>1, SpecServiceParts, PTL

\* The book keeps its promises within the service: handlers that construct
\* orders while the writer matches, cancels between two submissions and crashes
\* leave OrderBook's index, queues and answers as consistent as on its own.
THEOREM BookSoundInService == Spec => [](IndexMatchesQueues /\ TimeSlotsKept /\ FillsMatchTrades)
<1>1. ServiceParts => BookInv /\ Reported
  BY DEF ServiceParts, CallPart, BookPart
<1>2. BookInv /\ Reported => IndexMatchesQueues /\ TimeSlotsKept /\ FillsMatchTrades
  BY InvIndexMatches, InvTimeSlots, ReportedMatches
<1> QED
  BY <1>1, <1>2, SpecServiceParts, PTL
=============================================================================
