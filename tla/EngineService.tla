---------------------------- MODULE EngineService ----------------------------
(***************************************************************************)
(* The Java engine as a service, for one symbol: gRPC handler threads       *)
(* (MatchingEngineService), the symbol's command queue and single writer    *)
(* (MatchingEngine), its OrderBook, the Postgres ledger (JdbcTradeLedger,   *)
(* DoubleEntry) and the Kafka `trades' topic (KafkaTradePublisher).         *)
(*                                                                          *)
(* A handler stamps the order with the next sequence number, constructs it, *)
(* hands it to the writer, waits for the result, records its trades one     *)
(* transaction each, publishes them, and answers.  Handlers interleave      *)
(* between any two of these steps.  A crash loses everything in memory, the *)
(* counters behind order and trade ids included; the ledger and the topic   *)
(* survive.                                                                 *)
(***************************************************************************)
EXTENDS OrderBook

CONSTANTS
  Rpcs,          \* handler threads
  Requests,      \* valid orders the clients may send
  MaxLong,       \* largest long: multiplyExact throws above it
  MaxRequests,   \* bound: distinct requests the clients send
  MaxSends,      \* bound: times a client sends the same request
  MaxRestarts    \* bound: crashes

ASSUME EngineServiceAssumption ==
  /\ Requests \subseteq NewOrders
  /\ MaxLong \in Nat /\ MaxRequests \in Nat /\ MaxSends \in Nat /\ MaxRestarts \in Nat

VARIABLES
  sequence,      \* MatchingEngine.sequence
  cmds,          \* the writer's queue of commands
  rpc,           \* per handler thread, the call it serves, or None
  rows,          \* table trades
  entries,       \* table ledger_entries
  stream,        \* topic trades, this symbol's partition
  requests,      \* number of distinct requests the clients sent (auxiliary)
  acked,         \* trades of submissions answered OK (auxiliary)
  unrecorded,    \* trades whose recording failed or was given up (auxiliary)
  restarts

memory == <<sequence, cmds, rpc>>
durable == <<rows, entries, stream>>
vars == <<bookState, sequence, cmds, rpc, rows, entries, stream, requests, acked, unrecorded, restarts>>

Init ==
  /\ BookInit
  /\ sequence = 0
  /\ cmds = <<>>
  /\ rpc = [r \in Rpcs |-> None]
  /\ rows = {} /\ entries = {}
  /\ stream = <<>>
  /\ requests = 0
  /\ acked = {} /\ unrecorded = {}
  /\ restarts = 0

-----------------------------------------------------------------------------
(* The handler threads *)

\* A client sends a new request, or one this engine process already got from it
\* under the same client_order_id (a retry after a lost or late answer).
Copies(k) == {i \in DOMAIN order : order[i].client = k}

SameRequest(i, o) ==
  /\ order[i].account = o.account /\ order[i].side = o.side /\ order[i].type = o.type
  /\ order[i].price = o.price /\ order[i].quantity = o.quantity

Sends(k, o) ==
  \/ /\ k = requests + 1 /\ k <= MaxRequests
     /\ requests' = k
  \/ /\ Cardinality(Copies(k)) \in 1..(MaxSends - 1)
     /\ \A i \in Copies(k) : SameRequest(i, o)
     /\ UNCHANGED requests

\* submitOrder(): stamp the sequence, construct the Order.
SubmitOrder(r, k, o) ==
  /\ rpc[r] = None
  /\ sequence + 1 \in OrderIds
  /\ Sends(k, o)
  /\ sequence' = sequence + 1
  /\ Construct(sequence', k, o)
  /\ rpc' = [rpc EXCEPT ![r] = [op |-> "submit", id |-> sequence', pc |-> "enqueue", next |-> 1]]
  /\ UNCHANGED <<levels, index, tradeSeq, writer, trades, future, arrivals, cmds, durable,
                 acked, unrecorded, restarts>>

\* submitOrder() of a non-positive quantity or limit price: the constructor
\* throws, the call ends INVALID_ARGUMENT, the sequence number is used up.
SubmitInvalid(r) ==
  /\ rpc[r] = None
  /\ sequence + 1 \in OrderIds
  /\ sequence' = sequence + 1
  /\ UNCHANGED <<bookState, cmds, rpc, durable, requests, acked, unrecorded, restarts>>

\* Mutant: the handler submits again while it waits.
MutEnqueue(r) ==
  /\ rpc[r] # None
  /\ rpc[r].pc = "enqueue"
  /\ Len(cmds) < 2
  /\ cmds' = Append(cmds, [op |-> "submit", id |-> rpc[r].id, rpc |-> r])
  /\ UNCHANGED <<bookState, sequence, rpc, durable, requests, acked, unrecorded, restarts>>

\* engine.submit(): hand the order to the symbol's executor.
Enqueue(r) ==
  /\ rpc[r] # None
  /\ rpc[r].pc = "enqueue"
  /\ cmds' = Append(cmds, [op |-> "submit", id |-> rpc[r].id, rpc |-> r])
  /\ rpc' = [rpc EXCEPT ![r].pc = "wait"]
  /\ UNCHANGED <<bookState, sequence, durable, requests, acked, unrecorded, restarts>>

\* cancelOrder(): of an id handed out, whatever became of it since; the account
\* is not looked at.
CancelOrder(r, id) ==
  /\ rpc[r] = None
  /\ id <= sequence
  /\ cmds' = Append(cmds, [op |-> "cancel", id |-> id, rpc |-> r])
  /\ rpc' = [rpc EXCEPT ![r] = [op |-> "cancel", id |-> id, pc |-> "wait", next |-> 1]]
  /\ UNCHANGED <<bookState, sequence, durable, requests, acked, unrecorded, restarts>>

Result(r) == future[rpc[r].id]

\* engine.submit(order).get() has returned.  `next' counts through the two loops
\* that follow: the trades are recorded one by one, then published one by one.
Served(r) == rpc[r] # None /\ rpc[r].op = "submit" /\ rpc[r].pc = "wait" /\ Result(r) # None
TradeCount(r) == Len(Result(r).trades)
Recording(r) == Served(r) /\ rpc[r].next <= TradeCount(r)
Publishing(r) == Served(r) /\ rpc[r].next \in TradeCount(r) + 1 .. 2 * TradeCount(r)

\* The row of table trades: no accounts.
RowOf(t) == [tradeId |-> t.tradeId, price |-> t.price, quantity |-> t.quantity,
             buyOrder |-> t.buyOrder, sellOrder |-> t.sellOrder]

\* Mutant: the seller's shares are posted with the buyer's sign.
MutEntriesFor(t) ==
  LET cash == t.price * t.quantity
      post(account, asset, delta) ==
        [tradeId |-> t.tradeId, account |-> account, asset |-> asset, delta |-> delta]
  IN {post(t.buyAccount, "CASH", -cash), post(t.buyAccount, "SHARES", t.quantity),
      post(t.sellAccount, "CASH", cash), post(t.sellAccount, "SHARES", t.quantity)}

\* DoubleEntry.entriesFor().
EntriesFor(t) ==
  LET cash == t.price * t.quantity
      post(account, asset, delta) ==
        [tradeId |-> t.tradeId, account |-> account, asset |-> asset, delta |-> delta]
  IN {post(t.buyAccount, "CASH", -cash), post(t.buyAccount, "SHARES", t.quantity),
      post(t.sellAccount, "CASH", cash), post(t.sellAccount, "SHARES", -t.quantity)}

Fits(t) == t.price * t.quantity <= MaxLong

\* Mutant: idempotent on the buy order instead of the trade.
MutKnown(t) == \E row \in rows : row.buyOrder = t.buyOrder

Known(t) == \E row \in rows : row.tradeId = t.tradeId

\* JdbcTradeLedger.record(), committed: a row with this id already there makes
\* it do nothing, otherwise row and postings go in together.
Record(r) ==
  /\ Recording(r)
  /\ LET t == Result(r).trades[rpc[r].next] IN
     \/ Known(t) /\ UNCHANGED <<rows, entries>>
     \/ /\ ~ Known(t) /\ Fits(t)
        /\ rows' = rows \cup {RowOf(t)}
        /\ entries' = entries \cup EntriesFor(t)
  /\ rpc' = [rpc EXCEPT ![r].next = @ + 1]
  /\ UNCHANGED <<bookState, sequence, cmds, stream, requests, acked, unrecorded, restarts>>

\* Mutant: a failed record() is logged and the loop goes on.
MutRecordFailsIgnored(r) ==
  /\ Recording(r)
  /\ unrecorded' = unrecorded \cup {Result(r).trades[rpc[r].next]}
  /\ rpc' = [rpc EXCEPT ![r].next = @ + 1]
  /\ UNCHANGED <<bookState, sequence, cmds, durable, requests, acked, restarts>>

\* record() throws, for a database error or an overflow, and is rolled back:
\* the call ends INTERNAL, the rest of its trades is neither recorded nor
\* published, and the book keeps the fills.
RecordFails(r) ==
  /\ Recording(r)
  /\ unrecorded' = unrecorded \cup {Result(r).trades[i] : i \in rpc[r].next..TradeCount(r)}
  /\ rpc' = [rpc EXCEPT ![r] = None]
  /\ UNCHANGED <<bookState, sequence, cmds, durable, requests, acked, restarts>>

\* publish() returns, the send goes on by itself: the broker gets the trade, or
\* the failure is logged and the trade is missing from the topic.
Publish(r) ==
  /\ Publishing(r)
  /\ \/ stream' = Append(stream, Result(r).trades[rpc[r].next - TradeCount(r)])
     \/ UNCHANGED stream
  /\ rpc' = [rpc EXCEPT ![r].next = @ + 1]
  /\ UNCHANGED <<bookState, sequence, cmds, rows, entries, requests, acked, unrecorded, restarts>>

\* Mutant: the handler swallows the exception and never completes the call.
MutPublishFails(r) ==
  /\ Publishing(r)
  /\ rpc' = [rpc EXCEPT ![r].pc = "failed"]
  /\ UNCHANGED <<bookState, sequence, cmds, durable, requests, acked, unrecorded, restarts>>

\* kafka.send() itself throws (no metadata of the topic in time, a full buffer),
\* outside any try of publish(): the call ends INTERNAL though its trades are in
\* the ledger, this one and the ones after it are not published.
PublishFails(r) ==
  /\ Publishing(r)
  /\ rpc' = [rpc EXCEPT ![r] = None]
  /\ UNCHANGED <<bookState, sequence, cmds, durable, requests, acked, unrecorded, restarts>>

\* onNext(ack), onCompleted().
Reply(r) ==
  /\ Served(r)
  /\ rpc[r].next > 2 * TradeCount(r)
  /\ acked' = acked \cup Range(Result(r).trades)
  /\ rpc' = [rpc EXCEPT ![r] = None]
  /\ UNCHANGED <<bookState, sequence, cmds, durable, requests, unrecorded, restarts>>

-----------------------------------------------------------------------------
(* The writer thread *)

\* It takes the next command when it is done with the previous one; a cancel is
\* one step and completes its call (nothing follows the answer).
TakeSubmit ==
  /\ cmds # <<>>
  /\ Head(cmds).op = "submit"
  /\ StartSubmit(Head(cmds).id)
  /\ cmds' = Tail(cmds)
  /\ UNCHANGED <<sequence, rpc, durable, requests, acked, unrecorded, restarts>>

TakeCancel ==
  /\ cmds # <<>>
  /\ Head(cmds).op = "cancel"
  /\ CancelById(Head(cmds).id)
  /\ cmds' = Tail(cmds)
  /\ rpc' = [rpc EXCEPT ![Head(cmds).rpc] = None]
  /\ UNCHANGED <<sequence, durable, requests, acked, unrecorded, restarts>>

WriterRuns ==
  /\ WriterStep
  /\ UNCHANGED <<memory, durable, requests, acked, unrecorded, restarts>>

-----------------------------------------------------------------------------
\* The process dies and starts again with empty books and counters at zero.
\* Trades it had executed and not recorded are gone.
Crash ==
  /\ restarts < MaxRestarts
  /\ restarts' = restarts + 1
  /\ levels' = [s \in Sides |-> <<>>] /\ index' = {} /\ order' = <<>>
  /\ tradeSeq' = 0 /\ writer' = None /\ trades' = <<>>
  /\ future' = [i \in OrderIds |-> None] /\ arrivals' = <<>>
  /\ sequence' = 0 /\ cmds' = <<>> /\ rpc' = [r \in Rpcs |-> None]
  /\ unrecorded' = {}
  /\ UNCHANGED <<durable, requests, acked>>

Handler(r) ==
  \/ Enqueue(r) \/ Record(r) \/ RecordFails(r)
  \/ Publish(r) \/ PublishFails(r) \/ Reply(r)

Writer == TakeSubmit \/ TakeCancel \/ WriterRuns

Next ==
  \/ \E r \in Rpcs, o \in Requests : \E k \in 1..MaxRequests : SubmitOrder(r, k, o)
  \/ \E r \in Rpcs : SubmitInvalid(r) \/ Handler(r)
  \/ \E r \in Rpcs, id \in OrderIds : CancelOrder(r, id)
  \/ Writer
  \/ Crash

\* Handler threads run, and the executor works through its queue; clients and
\* crashes are not obliged to anything.
Fairness == (\A r \in Rpcs : WF_vars(Handler(r))) /\ WF_vars(Writer)

Spec == Init /\ [][Next]_vars /\ Fairness

-----------------------------------------------------------------------------
(* Properties *)

\* The call a handler serves, and a command of the writer's queue.
Calls == [op : {"submit", "cancel"}, id : OrderIds, pc : {"enqueue", "wait"}, next : Nat \ {0}]

Commands == [op : {"submit", "cancel"}, id : OrderIds, rpc : Rpcs]

\* A handler without a call is told apart from one with a call.
ASSUME NoneIsNoCall == None \notin Calls

\* Type invariant: a handler that waits or works serves an order that exists,
\* and every command in the queue belongs to a waiting handler.
ServiceTypeOK ==
  /\ BookTypeOK
  /\ sequence \in Nat /\ restarts \in Nat
  /\ rpc \in [Rpcs -> Calls \cup {None}]
  /\ cmds \in Seq(Commands)
  /\ \A r \in Rpcs : rpc[r] # None /\ rpc[r].op = "submit" => rpc[r].id \in DOMAIN order
  /\ \A i \in DOMAIN cmds : rpc[cmds[i].rpc] # None /\ rpc[cmds[i].rpc].pc = "wait"
  /\ stream \in Seq(Trade)
  /\ acked \cup unrecorded \subseteq Trade

Sum(asset, tradeId) ==
  MapThenSumSet(LAMBDA e : e.delta,
                {e \in entries : e.asset = asset /\ e.tradeId = tradeId})

\* DoubleEntry: "no money or shares are created or destroyed".  Whatever fails
\* or crashes in between, each recorded trade has its four postings, they sum to
\* zero per asset, the cash moved is price times quantity, and no posting is
\* without its trade ("the ledger never ends up half-written").
LedgerBalanced ==
  /\ \A row \in rows :
       LET mine == {e \in entries : e.tradeId = row.tradeId} IN
       /\ Cardinality(mine) = 4
       /\ Sum("CASH", row.tradeId) = 0 /\ Sum("SHARES", row.tradeId) = 0
       /\ \E e \in mine : e.asset = "CASH" /\ e.delta = row.price * row.quantity
  /\ \A e \in entries : \E row \in rows : row.tradeId = e.tradeId

\* The ledger holds this very trade: its row and the postings of its accounts.
Settled(t) == RowOf(t) \in rows /\ EntriesFor(t) \subseteq entries

\* MatchingEngineService: "a \"filled\" response must mean the double-entry
\* ledger already recorded it durably", and a trade is on the topic only after
\* it is in the ledger.  As long as the engine has not been restarted, whatever
\* the handlers' interleaving, failed transactions and lost sends.
FillsDurableFirst ==
  restarts = 0 => \A t \in acked \cup Range(stream) : Settled(t)

\* The same promise, restarts included.
AckedFillsRecorded == \A t \in acked : Settled(t)

\* When all calls have ended, the ledger has every trade the book executed but
\* the ones a failed record() gave up, whose call ended INTERNAL: a fill is never
\* dropped silently.
NothingSilentlyUnsettled ==
  restarts = 0 /\ (\A r \in Rpcs : rpc[r] = None) =>
    /\ \A t \in AllTrades \ unrecorded : Settled(t)
    /\ unrecorded \cap acked = {}

\* KafkaTradePublisher: all trades of a symbol "stay strictly ordered" on their
\* partition: the topic has them in the order in which the book made them.
StreamInExecutionOrder ==
  restarts = 0 =>
    \A i, j \in DOMAIN stream : i < j => stream[i].tradeId < stream[j].tradeId

ExecutedFor(k) ==
  MapThenSumSet(LAMBDA i : order[i].quantity - order[i].remaining, Copies(k))

\* web/README: the engine dedupes on client_order_id, "so a retry never double-
\* submits": what is executed for one request is at most its quantity.
ExecutedOncePerRequest ==
  \A i \in DOMAIN order : ExecutedFor(order[i].client) <= order[i].quantity

\* Every call ends: when record() throws, when publish() throws, when a send is
\* lost, and whatever the other handlers and the writer do meanwhile.
CallsEnd == \A r \in Rpcs : rpc[r] # None ~> rpc[r] = None
=============================================================================
