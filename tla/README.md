# TLA+ models of OpenExchange

OpenExchange is a demo exchange: a Go gateway (REST, WebSocket, and an in-process
matching engine), a Java matching engine behind gRPC with a Postgres ledger and
a Kafka trade stream, a Python risk service, and a web dashboard. This directory
models the parts that decide who trades with whom and what is booked for it, and
the gateway around them: its edge, its order path with the risk loop, and its
market data. TLC checks the models on small instances; TLAPS proves the central
properties for every instance.

## 1. Inventory

| Component | State | Operations | Interacts with |
|---|---|---|---|
| In-process engine, `gateway/internal/engine/local.go` | books, accounts, last prices, three atomic counters, one mutex | SubmitOrder, CancelOrder, GetBook, GetAccount | HTTP goroutines, market simulator |
| Its ledger, `ledger.go` | cash, realised P&L, positions with exact cost basis | applyFill, GetAccount | called under the engine's mutex |
| Java book, `OrderBook.java` | two sorted maps of FIFO levels, index by id, trade counter | submit, cancel, snapshot | run by one writer thread per symbol |
| Java service: `MatchingEngine`, `MatchingEngineService`, `JdbcTradeLedger`, `DoubleEntry`, `KafkaTradePublisher` | sequence counter, executor queues, tables `trades` and `ledger_entries`, topic `trades` | submitOrder, cancelOrder, getBook | gateway over gRPC; Postgres; Kafka |
| Gateway order path, `api/handlers.go`, `engine/grpc_client.go`, shutdown in `cmd/gateway/main.go` | requests in flight | handleSubmit, handleCancel, handleBook, handleAccount, broadcastFills | gate, engine, order feed, hub, cache |
| WebSocket hub, `ws/hub.go` | client set, bounded channels | Run, Broadcast, ServeWS, pumps | tape, risk consumer, handlers |
| Book cache, `cache/cache.go` | Redis keys with a TTL | GetBook, SetBook | handleBook, broadcastBook |
| Risk gate, `risksignal.go` | blocked accounts | apply, Blocked | topic `risk-signals`, handleSubmit |
| Order feed / tape | Kafka positions | PublishSubmit, PublishCancel / Run | topics `orders`, `trades` |
| Rate limiter, `middleware/ratelimit.go` | bucket per client | allow | every route |
| Accounts and sessions, `auth_handlers.go`, `auth/`, `middleware/auth.go` | users, account seeds, tokens handed out | signup, login, refresh, demo session | Postgres, every protected route |
| Market simulator, `api/simulator.go` | open quotes, pause flag | step, pause, resume | in-process engine, hub |
| Risk service, `risk/app` | exposure and order-flow windows | consume trades/orders, emit signals | Kafka |
| Web client, `web/src` | session, socket, book, tape | reconnect, render, submit | gateway |

What is hard here: orders arrive on many threads and are serialised by a mutex
(Go) or a per-symbol queue (Java), with ids and sequence numbers handed out
*before* that point; self-match prevention skips the taker's own orders in the
middle of a FIFO; partial closes round; the Java engine matches in memory first
and records and publishes afterwards, from another thread; a restart forgets
every counter; answers, market data and risk signals are asynchronous, may be
dropped, and race one another.

What makes each part correct: the book never crossed, price-time priority, cash
and positions conserved and reconciled, answers that stay true, every call
answered (engines); balanced, whole, durable-before-acknowledged postings, in
execution order, once per request (service); no send on a closed channel and no
producer blocked (hub); a gate that follows the exposure it was last told of, and
events that tell what happened (order path and risk loop); at most burst plus
refill (limiter); one account per mailbox, sessions that end, views that read
one's writes (edge); snapshots out of date for a bounded time only (book feed).
`PROJECT.json` lists the hazards at their lines.

## 2. Plan

Done: the engines (`Ledger`, `PriceTimeBook`, `LocalEngine`, `OrderBook`,
`EngineService`), the hub (`Hub`), the edge (`RateLimiter`, `Sessions`), market data
(`BookFeed`), the order path with the risk loop (`OrderPath`), and a proof of every
safety property, action property and refinement that the passing runs check.

How they fit together: `EngineService` EXTENDS `OrderBook`, `Sessions` EXTENDS
`RateLimiter`; both engines refine `PriceTimeBook`. `OrderPath` and `BookFeed` see
the engines only through what an answer carries, and `BookFeed` the hub only
through its bounded queue; what the hub does with an accepted message is `Hub`.

Left, in this order:

1. The safety half of the liveness properties: for each of them a measure that no
   step of the system raises and every helpful step lowers (WriterReturns first:
   what the taker and the levels ahead of it still hold).
2. Redelivery after a gateway restart in `BookFeed`'s tape; a restart of the risk
   service in `OrderPath` (both keep state in memory against committed offsets).
3. A `Ledger` with int64 arithmetic.

## 3. Modules

- **`Ledger`** - `applyFill` and its helpers as operators, one per idea: what a
  fill opens, closes, realises, and what the cost basis is afterwards. Integer
  division is the code's rounding (operands are non-negative where it is used).
- **`PriceTimeBook`** - the abstract book of one symbol (`resting`, `taker`):
  Arrive, Fill (best price, then earliest, never the taker's own account), Leave
  (only when used up or nothing eligible crosses; a LIMIT remainder rests behind
  everything), Cancel.
- **`LocalEngine`** - `SubmitOrder(t, o)` is the part before the mutex (id taken,
  validation), `Lock(t)`, `Match(t)` one round of the loop (maker, tape, both
  ledgers, mark), `Finish(t)` resting, answer and unlock; `CancelOrder` is one
  critical section. `book` is a set of orders: the slice's order is never used,
  `seq` is. `accounts` is total, an unknown account being the one `account()`
  would open. `history` is auxiliary: what each id was answered, and how much of it
  cancels took, so that a remainder nobody cancelled must still be in the book.
  Sides and types of requests are strings the code does not check, so they are
  constants.
- **`OrderBook`** - one action per step of `submit()`: `NextLevel` (iterator),
  `HoldOwn`, `TradeFront`, `CloseLevel` (restore held orders, drop an empty
  level), `Finalize`; `CancelById`. Queues and index hold ids, `order` is the
  heap of shared Order objects.
- **`EngineService`** EXTENDS `OrderBook` - handler threads (`SubmitOrder`,
  `Enqueue`, `Record`, `RecordFails`, `Publish`, `PublishFails`, `Reply`,
  `CancelOrder`, `SubmitInvalid`), the writer (`TakeSubmit`, `TakeCancel`, `WriterRuns`) and
  `Crash`, which keeps the tables and the topic. Clients may send a request
  again under its client_order_id. A transaction is one step; it may fail for
  any reason, or must, when price times quantity exceeds `MaxLong`. A send may be
  lost (its callback only logs) or throw, which ends the call as INTERNAL with its
  trades in the ledger and the rest of them unpublished.
- **`Hub`** - `Run`'s select, one action per case (`Register`, `Unregister`,
  `TakeMessage`), the fan-out client by client (`Deliver`, `Drop`, `EndFanOut`),
  since pumps run meanwhile; `Broadcast`; `ServeWS` and `StartPumps`; the pumps
  (`ReadFails`, `Write`, `SeesClosed`, `PingFails`). The unbuffered channels are
  joint steps of the hub and the goroutine that sends. A message is its number
  in the order of acceptance. Sending on or closing a closed channel sets
  `panicked`. A slot of `Clients` is used again when its pumps ended.
- **`RateLimiter`** - `Allow` and `Deny` are the two outcomes of `Allow()`, one
  critical section each; `Refilled` is the lazy refill. Tokens are integer units
  (`Unit` to a token). `granted` and `mark` count what was let through, for windows.
- **`Sessions`** EXTENDS `RateLimiter` - every route takes a token or is turned away
  (`TooMany`), then one action per handler or, where a handler calls the database,
  per statement: `Signup`, `Create`, `Seed`, `IssueTokens`; `Login`; `Refresh`;
  `DemoSession`; `Account` and the three `Query` steps of `accountFromDB`, `Reply`.
  `Refuse` is every refusal that changes nothing. An address is a mailbox and a
  spelling, a token its claims. `PostTrade` is the Java engine committing a trade.
- **`BookFeed`** - a goroutine is a record with its next step: an order's broadcasts
  (`BroadcastTrades`, then `CacheGet`, `EngineGet`, `CacheSet`, `Send`), a GET /book
  (the same without `BroadcastTrades`), or a tick of the simulator (`SimQuote`,
  `SimTake`, `SimCheck` before them). `mode` is the engine in use: in process the ack
  carries the trades, over gRPC the tape does (`TapeRead`). `unheard` (auxiliary) are
  the trades nobody is told of: those whose send to the topic was lost, and those a
  quote of the simulator made, whose ack it does not look at. One symbol, one
  depth, and at most one trade per order, taker or round of quotes.
  Snapshots are abstracted to how long they have been out of date and whether they
  were taken since an arbitrary change of the book (`probe`).
- **`OrderPath`** - `Submit` (with the gate's refusal) and `Cancel`, `EngineRun`,
  then `Answer`, or `GiveUp` and perhaps `LateRun`; `Flush` (the writer's batches);
  `RiskTrade`, `RiskOrder`, `ScoreOrder`, `Age` (the risk service); `Apply` (signal
  consumer and gate); `Stop`, `EndDrain`, `ClosePublisher`, `Exit`, `Crash`, `Restart`
  (main). Topics are sequences per partition key. A gate entry is the last signal
  applied, since the last one decides. Nothing on the loop is reliable: a fill may
  not reach the topic (`Run`), fills may overtake one another and come twice
  (`RiskTrade`), order events may be given up (`Flush`) or come twice (`RiskOrder`), any
  verdict may not get out (publish_signal swallows errors, a handler that raises
  ends its message), a signal may be written again behind later ones (`Resend`).
  Prices are left out, so whether the gross notional is over its cap is a choice
  for every position but 0. Auxiliary: `forced`, `discarded`, `owed`; `missed`, an
  account whose last fill has no verdict on its way; `astray`, an account one of
  whose fills was lost or counted twice.
- **`MC*`** - constants of the runs. **`SumTheorems`** - sums over finite sets and
  what adding to them does. **`LocalEngineProofs`** (with the ledger's lemmas),
  **`OrderBookProofs`**, **`EngineServiceProofs`**, **`HubProofs`**,
  **`SessionsProofs`** (with the limiter's), **`BookFeedProofs`**,
  **`OrderPathProofs`** - theorems.

Operators whose names begin with `Mut` are deliberate mistakes: each is a
variant of the definition below it that some property must reject.

## 4. Runs

| Run | Instance | Shows |
|---|---|---|
| `local_engine` | 2 goroutines, market maker and 2 traders, one symbol seeded two levels deep, 2 further orders, prices {0, 2, 4}, quantities 1..3, LIMIT and MARKET, cancels by both traders | TypeOK, BookNotCrossed, CashConserved, AccountReconciles, PositionsMatchTape, BasisWithinTradedPrices, AnswersStayTrue, PriceTimePriority (refinement), Answered |
| `order_book` | any 3 orders of 2 accounts, 2 prices, quantities 1..2, MARKET included, any cancels | BookTypeOK, IndexMatchesQueues, TimeSlotsKept, FillsMatchTrades, PriceTimePriority (refinement), WriterReturns |
| `engine_service` | 2 handlers, 3 requests, 1 crash, quantity 2 overflows | ServiceTypeOK, LedgerBalanced, FillsDurableFirst, NothingSilentlyUnsettled, CallsEnd |
| `hub` | 2 connection slots, used again and again, 3 accepted messages, client buffer 1, broadcast buffer 2 | HubTypeOK, NoPanic, NoGaps, Delivered, DisconnectedIsCleanedUp |
| `sessions` | 1 client key, 2 concurrent requests, one mailbox in two spellings, 2 account ids to draw, 1 demo id, burst of 2 tokens, half a token per tick, 4 ticks, lifetimes 1, 2 and 2 | SessionsTypeOK, WithinBurstAndRate, MailboxNamesOneAccount, ViewReadsYourWrites, SessionsExpire |
| `book_feed` | both engines; 1 order or reader and the simulator, cache lifetime 2, deadline 1, a queue of 1, 1 trade | FeedTypeOK, CacheLagBounded, TradesAnnouncedOnce, LadderCatchesUp |
| `order_path` | 1 request in flight (and late ones at the engine), a client and a counterparty, caps 1 (position) and 0 (velocity), 2 orders, 1 further event: a call of /score-order, a message read or written twice, a stop or a crash | PathTypeOK, EventsTellTheTruth, GateFollowsExposure, DrainedOrdersPublished, RefusedIsRejudged |
| `order_feed` | 1 request in flight, 2 orders, no stop | OrdersReachFeed fails |
| `local_missing_side` | as `local_engine`, with the side `""` | CashConserved fails |
| `engine_restart` | 1 handler, 4 requests, 1 crash | AckedFillsRecorded fails |
| `engine_stream_order` | 2 handlers, 3 requests | StreamInExecutionOrder fails |
| `engine_retry` | 1 handler, one request sent twice | ExecutedOncePerRequest fails |

Why the bounds are enough for what they show: in `local_engine` one order of
quantity 3 crosses one or two seeded levels (one, then two shares), leaves a
remainder, and meets the other trader's order; two orders reach partial
closes of the market maker's position, a flip past flat, the same
price level twice (time priority) and own orders (skip). The three orders of
`order_book` are one taker and two makers, the smallest book in which an own
order stands before or behind somebody else's at a level. Two handlers are the
smallest number that can overtake one another between queue, ledger and topic.
In `hub` three messages are one more than a client can take without its write
pump running, so it is dropped during a fan-out, before, while and after either
pump notices; buffers of other sizes are covered by the proofs. The counters are
bounded by `MaxOrders`, `OrderIds`, `MaxRequests`, `MaxSends`, `MaxRestarts` and
`MaxMessages`.

In `sessions` two requests are the smallest race of two signups, and four ticks
outlast every lifetime and the refill of the whole burst (`MaxTime`, `MaxTrades`);
its safety properties hold for every instance by proof, so this one only has to
reach the cases. In `book_feed` a cache lifetime longer than the deadline lets a late write
be read by a later request, a queue of one is full whenever the hub lags, and one
trade suffices because TradesAnnouncedOnce speaks of each trade by itself
(`MaxTrades`). In `order_path` any order breaches the velocity cap until a minute
has passed, the second fill the position cap, and a fill may breach the gross
notional, so that blocks are set and cleared for each reason with two orders
(`MaxOrders`). `MaxExtras` bounds calls of /score-order, messages that come twice,
stops and crashes together; losses are not bounded. With two requests in flight
the instance grows past what a run of minutes can do; one suffices for the
liveness property, which is about the queues behind the handlers, and the safety
properties are proved for any number of handlers, orders and further events.

Deadlock is checked except in `sessions` and `order_path`, whose inputs are used up
(clock, tokens and trades there, orders here): the system may then stop. In the
other runs cancels, reads and reconnects stay possible.

**Fairness.** `LocalEngine`: strong fairness of `Lock` per goroutine, because
`sync.Mutex` switches to handing itself to the longest waiter after 1 ms of
starvation; weak fairness of the holder's steps, because a runnable goroutine is
scheduled. `OrderBook` and `EngineService`: weak fairness of the writer
(a thread of a single-thread executor) and of each handler thread. `Hub`: weak
fairness of the fan-out and of the pumps (a write ends within `writeWait`, a read
of a closed connection returns), strong fairness of registering and
unregistering, because `select` picks at random among its ready cases. `BookFeed`:
weak fairness of the clock, of every goroutine, of the hub's loop and of the
tape's loop, and of the simulator's steps (a `time.Ticker` drives it); strong fairness
of its cache and engine reads within their deadline (seconds for a local call) and
of its broadcasts when the queue has room (256 places, drained by the hub):
without it a ladder could miss its deadline, or meet a full queue, every single
time. `OrderPath`: weak fairness of the feed's writer, the risk service's loop and
the signal consumer, each for every client's queue, and of main's shutdown and
the supervisor's restart. Clients, peers, cancels, pauses, stops, crashes, late
engine answers and failing transactions are never assumed to act.

### Where code and documentation disagree

The five violation runs are recorded under `findings`: an order without a side
books both parties as buyers; trade ids start over after a restart while the
ledger takes them for idempotency keys; trades of a symbol may reach the topic
in another order than they were executed; `client_order_id` is not used to
recognise a retry; an order whose handler met its deadline is missing in the
order feed although the engine executed it.

Two more have no run of their own, because the models follow the code and their
properties except what the code does not do. `simulator.go:67-69` says that a tick
"Returns the executions produced ... for broadcasting", and `simulator.go:36` that a
batch "is the executions produced for one symbol in a single tick"; the trades of
the quotes (lines 95-106, which can execute against a visitor's resting order) are
dropped and no dashboard hears of them (`unheard` in `BookFeed`). And
`docs/adr/0005-risk-signal-gating.md:30-31` says that with the broker or the risk
service down "no account is blocked", while the gate keeps the blocks it has, since
only a signal clears one (`Apply` in `OrderPath` is the gate's only change but for a
restart of the gateway).

## 5. Proofs

| Theorem | Statement | Assumes |
|---|---|---|
| `TypeCorrect` | `Spec => []TypeOK` | the in-process engine's constants |
| `NeverCrossed` | `Spec => []BookNotCrossed` | the same |
| `AveragesBounded` | `Spec => []BasisWithinTradedPrices` | the same |
| `AccountsReconcile` | `Spec => []AccountReconciles` | the same |
| `NoCashCreated` | `Spec => []CashConserved` | requests say BUY or SELL |
| `TapeExplainsPositions` | `Spec => []PositionsMatchTape` | requests say BUY or SELL |
| `FillsAreTransfers` | `Spec => [][Transfer]_vars` | requests say BUY or SELL |
| `EngineKeepsPriority` | `Spec => PriceTimePriority` (refinement, every symbol) | requests say BUY or SELL |
| `AnswersRemainTrue` | `Spec => []AnswersStayTrue` | requests say LIMIT or MARKET |
| `BookTyped` | `BookSpec => []BookTypeOK` | the Java book's constants |
| `IndexAndQueuesAgree` | `BookSpec => []IndexMatchesQueues` | the same |
| `QueuesInArrivalOrder` | `BookSpec => []TimeSlotsKept` | the same |
| `NothingLostOrDuplicated` | `BookSpec => []FillsMatchTrades` | the same |
| `BookIsPriceTime` | `BookSpec => PriceTimePriority` (refinement) | the same |
| `ServiceTyped` | `Spec => []ServiceTypeOK` | the book's and the service's constants |
| `LedgerAlwaysBalances` | `Spec => []LedgerBalanced` | the same |
| `DurableBeforeTold` | `Spec => []FillsDurableFirst` | the same |
| `NoFillDropped` | `Spec => []NothingSilentlyUnsettled` | the same |
| `BookSoundInService` | index, time slots and fills of the book, within the service | the same |
| `HubTyped` | `Spec => []HubTypeOK` | `HubAssumption` |
| `HubNeverPanics` | `Spec => []NoPanic` | `HubAssumption` |
| `FeedsHaveNoGaps` | `Spec => []NoGaps` | `HubAssumption` |
| `LimiterBound` | `LimiterSpec => []WithinBurstAndRate` | `LimiterAssumption` |
| `EdgeBound` | `Spec => []WithinBurstAndRate` | `LimiterAssumption`, `SessionsAssumption` |
| `EdgeTypes` | `Spec => []SessionsTypeOK` | the same |
| `OneAccountPerMailbox` | `Spec => []MailboxNamesOneAccount` | the same |
| `ViewsReadYourWrites` | `Spec => []ViewReadsYourWrites` | the same |
| `SessionsDoExpire` | `Spec => SessionsExpire` | the same |
| `FeedTypes` | `Spec => []FeedTypeOK` | `FeedAssumption` |
| `CacheLag` | `Spec => []CacheLagBounded` | `FeedAssumption` |
| `PathTyped` | `Spec => []PathTypeOK` | `PathAssumption` |
| `GateAgrees` | `Spec => []GateFollowsExposure` | `PathAssumption` |
| `DrainPublishes` | `Spec => []DrainedOrdersPublished` | `PathAssumption` |
| `EventsTrue` | `Spec => []EventsTellTheTruth` | `PathAssumption` |

**What is assumed.** The in-process engine: `LocalEngineAssumption` (typed constants,
finitely many accounts and symbols, a positive seeded price range) and
`NoneIsNoCall`; the Java book: `OrderBookAssumption` (positive prices and quantities,
which the constructor of Order sees to) and `NoneIsAbsent`; the service:
`EngineServiceAssumption` and `NoneIsNoCall`. The assumptions on `None` say that it is
no price, call or result. The assumption on sides is needed: `local_missing_side`
shows what happens without it. AnswersRemainTrue needs the types because an order
of another type that matches nothing is answered as if it rested, and does not.
A burst of less than a token (RATE_LIMIT_BURST=0) is outside `LimiterAssumption`.

**Sums.** The models add up with MapThenSumSet, which takes the members of a set in
an order of CHOOSE's. `SumTheorems` proves that the sum exists for every finite
set, does not depend on that order, and what adding a member or changing one
value does to it. The inductions this takes are arguments by a least
counterexample (`NatMin`), over sets of numbers instead of predicates. They carry
CashConserved, AccountReconciles, PositionsMatchTape, AnswersStayTrue,
FillsMatchTrades and LedgerBalanced.

**In-process engine.** A position is `Sound` when its basis is non-negative and zero
when flat. `FillReconciles`: a fill of a sound position changes cash plus signed
basis by exactly the realised P&L, rounding included. `FillKeepsAverageWithin`: if
the average cost lay between two prices that also bound the fill price, it
still does. The invariant is

    Inv == TypeOK /\ QueuePositions /\ SoundPositions /\ BookNotCrossed

BookNotCrossed is not inductive alone: that the loop stops only when nothing
crosses (`StopsUncrossed`) needs a best order to exist in a finite book
(`BestExists`), which needs queue positions to be distinct (`QueuePositions`,
handed out under the mutex) and prices to be typed; the ledger results need
`SoundPositions`. Cash, positions against the tape and answers each add the
account of what the trades did so far.

**Java book.** `OrderBookProofs` works with the LINE of a level: the orders the writer
holds aside, then those in the queue. While a level is worked on neither the
queue nor the index tells the whole story, but the line is at every step the
level's resting orders in the order of their arrival (`QueuesLineUp`). Beside it:
what rested did so once and has something left (`Arrived`); what is held aside is
the taker's own (`OnWriter`); the levels the iterator has passed hold nothing else
if the taker still wants to trade (`PassedAreOwn`), which the refinement needs when
a remainder comes to rest; each side has a best level (`PricesBounded`); and the
reported trades add up to what the orders lost (`Reported`). The refinement maps the
index to the resting orders, each at its place of arrival, `TradeFront` to Fill and
the last step, which reports and rests a remainder, to Leave; opening, holding
aside and closing a level are stutters.

**Java service.** Every step of the book is taken with the same preconditions, so its
lemmas carry over. On top come `TradesOwned` (a trade has an id of its own and
belongs to one submission), `CallsOK` (each submission has its own order, numbered
by the sequence), `QueueOK` (what is queued or on the writer belongs to one waiting
handler: a result is put into an unfinished future), `LedgerOK` (a row has all its
postings, a posting its row), and until the first restart `SettledOK` (a trade of an
answered order is recorded, given up, or its live handler's to record). Across a
crash only the tables and the topic have to be accounted for, since the book
begins as in `BookInit`; that later runs use trade ids again is the violation run
`engine_restart`, and why the last two theorems of the service stop at a restart.

**Hub.** `HubInv`: the map holds exactly clients with an open channel that
have not left and a fan-out only visits the map (`Ownership`); the messages in
the broadcast channel are numbered on from the last one taken (`Numbered`); and a
client of the map has, received or queued, everything taken since it joined, but
for the message being fanned out (`Contiguous`). NoGaps needs all three: the
message appended to a queue must be the one the queue expects.

**Limiter and edge.** `LimiterInv`: for every client and every start of a window,
what was let through since plus what the bucket would hold now is at most the
burst plus the refill of the window (`Budget`). WithinBurstAndRate alone is not
inductive: it does not say what is left in the bucket. `SessionsProofs` adds four
invariants: `Types`; `OneOwner` (emails in the table and in the handlers' hands are
canonical, an email has one account, and tokens go to the owner only); `Snapshots`
(what a view under way has read lies between what was committed when it came and
what is committed now); `Minted` (a token ends within its kind's lifetime after
the last minting for its account, and demo accounts have demo tokens only). The
limiter's bound is taken over by showing that each step of the edge is a step of
the limiter or leaves it alone.

**Book feed.** `FeedInv`: a snapshot on its way to the cache is out of date for
no longer than its request has run (`Young`), one in the cache for no longer than
the deadline plus the time it has been there (`Kept`). The second needs the first,
and that an expired context writes nothing.

**Order path and risk loop.** `PathInv`: what handlers hold is typed and carries a
status of the engine (`ReqInv`); and when the publisher is closing or closed without
force, no request is in flight (`DrainInv`), so nothing is published to a closed
writer. `LoopInv` adds the rest. The messages and signals under way are typed
(`FlowTyped`), and life and handlers fit together (`LifeInv`). The youngest word on an
account's exposure, under way or applied, is about the position the risk service
has of it now, unless the account is `missed` (`VerdictsCurrent`); a crash loses gate
and signals, never makes a verdict wrong. One chain of positions leads through
the fills still in the topic from the risk service's position to the engine's,
unless the account is `astray` (`Booked`). The chain stands for a sum over the topic:
it grows at one end when the engine runs an order, and loses a link, wherever it
is, when the risk service reads a fill, the links behind it moving up; with the
topic empty its two ends meet, which is what GateFollowsExposure needs. And
positions are bounded by the orders the engine is done with, the risk service's by
those and the messages that came twice (`Bounded`), which PathTypeOK needs.

**Only model-checked:** liveness (Answered, WriterReturns, CallsEnd, Delivered,
DisconnectedIsCleanedUp, TradesAnnouncedOnce, LadderCatchesUp, RefusedIsRejudged),
which rests on fairness and so on ENABLED, out of the prover's reach.

## 6. Not modelled

`PROJECT.json` lists every component with its reason.

- Integers are unbounded: int64 overflow in the Go ledger and float64 rounding in
  the limiter are left out.
- The Java engine's `getBook` reads unsynchronised collections while the writer
  changes them; what their iterators then return is not specified, so it is one
  step here. The in-process `GetBook` takes the mutex and is one step in the code.
- The tape after a restart of the gateway (records read again) and records that do
  not decode; the first start of a Kafka consumer group is the start of a behaviour.
- The risk service's scores and models (floating point; an anomaly signal may say
  anything), its read-only API, and a restart of it: positions and windows start
  from nothing and the consumer at its committed offset, or at the end of the
  topics, so what the gate then hears is about the fills since.
- The symbol and order id of a cancel on their way through the gateway.
- WebSocket connections check a token when they are opened and outlive it;
  SessionsExpire is about requests.
- CORS and security headers, password hashing and token signatures, client
  addresses behind proxies, the retries inside the Redis and Kafka clients.
- Logging, metrics, JSON and protobuf encoding, configuration, generated code
  (`gateway/genproto`) and rendering in the web client carry no protocol.
