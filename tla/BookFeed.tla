------------------------------ MODULE BookFeed ------------------------------
(***************************************************************************)
(* How trades and depth ladders reach the dashboards: the broadcasts of     *)
(* submitted orders, GET /book, the Redis cache they share, the market      *)
(* simulator, the Kafka trade tape and the hub's bounded queue (gateway/    *)
(* internal/api, cache, tape).  One symbol, one cached depth.               *)
(*                                                                         *)
(* A snapshot is kept as what the properties tell apart: how long ago the   *)
(* book moved past it, and whether it was taken since a book change that    *)
(* the behaviour picked (probe).  The pick is arbitrary, so what holds of   *)
(* it holds of every change.                                                *)
(***************************************************************************)
EXTENDS Naturals, Sequences

CONSTANTS
  Tasks,        \* goroutines of orders and of GET /book
  Sim,          \* the simulator's goroutine
  TTL,          \* CacheTTL, in ticks
  Timeout,      \* EngineTimeout, in ticks
  QueueCap,     \* capacity of the hub's broadcast channel
  MaxTrades,    \* bound: trades of a behaviour
  None

ASSUME FeedAssumption ==
  /\ TTL \in Nat \ {0} /\ Timeout \in Nat \ {0} /\ QueueCap \in Nat \ {0} /\ MaxTrades \in Nat
  /\ Sim \notin Tasks

AllTasks == Tasks \union {Sim}
Trades == 1..MaxTrades
\* Ages are not told apart beyond this.
MaxAge == TTL + Timeout + 1

VARIABLES
  mode,         \* "local" (LocalEngine and simulator) or "grpc" (Java engine and tape)
  task,         \* what each goroutine is about to do, None when it does not run
  cache,        \* the cached snapshot and the time it has left, or None
  queue,        \* hub.broadcast
  shown,        \* the ladder of a dashboard: taken since the probe?
  paused,       \* marketSim.paused
  topic,        \* trades the tape has not read
  nextTrade,    \* the next trade's id
  announced,    \* calls of Broadcast for a trade (auxiliary)
  unheard,      \* trades dropped on the way here: see Execute, SimQuote (auxiliary)
  probe         \* the change has been picked (auxiliary)

vars == <<mode, task, cache, queue, shown, paused, topic, nextTrade, announced, unheard, probe>>

Init ==
  /\ mode \in {"local", "grpc"}
  /\ task = [b \in AllTasks |-> None]
  /\ cache = None /\ queue = <<>> /\ shown = FALSE /\ paused = FALSE
  /\ topic = <<>> /\ nextTrade = 1 /\ announced = [t \in Trades |-> 0]
  /\ unheard = {} /\ probe = FALSE

\* A goroutine: its step, what it has to announce, the time its context has left,
\* the snapshot it holds (stale: ticks since the book moved past it, kept until
\* the snapshot is in the cache).
Run(kind, step, trades) ==
  [kind |-> kind, step |-> step, trades |-> trades, left |-> IF step = "get" THEN Timeout ELSE 0,
   current |-> FALSE, stale |-> 0, new |-> FALSE]

At(b, s) == task[b] # None /\ task[b].step = s
Goto(b, r) == task' = [task EXCEPT ![b] = r]
Moved(b, s) == [task[b] EXCEPT !.step = s]
\* The snapshot is on its way to the readers.
Sending(kind, new) == [Run(kind, "send", <<>>) EXCEPT !.new = new]
-----------------------------------------------------------------------------
\* Time passes: contexts and the cache entry run out, superseded snapshots age.
Older(s) == [s EXCEPT !.stale = IF s.current \/ @ = MaxAge THEN @ ELSE @ + 1]
Later(r) == [(IF r.step = "set" THEN Older(r) ELSE r) EXCEPT !.left = IF @ > 0 THEN @ - 1 ELSE 0]

Tick ==
  /\ task' = [b \in AllTasks |-> IF task[b] = None THEN None ELSE Later(task[b])]
  /\ cache' = IF cache = None \/ cache.ttl = 1 THEN None
              ELSE [Older(cache) EXCEPT !.ttl = @ - 1]
  /\ UNCHANGED <<mode, queue, shown, paused, topic, nextTrade, announced, unheard, probe>>

\* The book changes: what was read before is superseded.  The change may be the
\* one the behaviour picks.
Superseded(s) == IF s = None THEN None ELSE [s EXCEPT !.current = FALSE]
BookChange ==
  /\ cache' = Superseded(cache)
  /\ probe' \in {probe, TRUE}

\* Mutant: the ack carries the executions in both modes.
MutAckTrades(ts) == ts
\* The executions in an ack: LocalEngine returns them, fromProtoAck has none.
AckTrades(ts) == IF mode = "local" THEN ts ELSE <<>>

\* The trades an engine may print in one order, and what becomes of them there:
\* the Java engine publishes them to the topic, where a failed send is only
\* logged.  dropped: trades no one hears of.
Fills == {<<>>} \union (IF nextTrade \in Trades THEN {<<nextTrade>>} ELSE {})
Execute(ts, dropped) ==
  /\ nextTrade' = nextTrade + Len(ts)
  /\ topic' = IF mode = "grpc" /\ ~dropped THEN topic \o ts ELSE topic
  /\ unheard' = IF dropped THEN unheard \union {ts[i] : i \in DOMAIN ts} ELSE unheard

\* handleSubmit: the engine executes the order; the ack starts broadcastFills.
\* Over gRPC the handler may have given up, then there is no ack to broadcast.
Submit(b) ==
  /\ task[b] = None
  /\ \E ts \in Fills :
       /\ Execute(ts, FALSE) \/ (mode = "grpc" /\ Execute(ts, TRUE))
       /\ \/ task' = [[c \in AllTasks |-> Superseded(task[c])]
                        EXCEPT ![b] = Run("order", "trades", AckTrades(ts))]
          \/ mode = "grpc" /\ task' = [c \in AllTasks |-> Superseded(task[c])]
  /\ BookChange
  /\ UNCHANGED <<mode, queue, shown, paused, announced>>

\* A rejected order: nothing changes, the broadcast starts all the same.
SubmitRejected(b) ==
  /\ task[b] = None
  /\ Goto(b, Run("order", "trades", <<>>))
  /\ UNCHANGED <<mode, cache, queue, shown, paused, topic, nextTrade, announced, unheard, probe>>

\* handleCancel: the book changes and nobody is told.
Cancel ==
  /\ task' = [c \in AllTasks |-> Superseded(task[c])]
  /\ BookChange
  /\ UNCHANGED <<mode, queue, shown, paused, topic, nextTrade, announced, unheard>>

\* handleBook starts.
ReadBook(b) ==
  /\ task[b] = None
  /\ Goto(b, Run("read", "get", <<>>))
  /\ UNCHANGED <<mode, cache, queue, shown, paused, topic, nextTrade, announced, unheard, probe>>
-----------------------------------------------------------------------------
\* Mutant: the channel has no bound.
MutBroadcast(ms) == queue' = queue \o ms
\* Hub.Broadcast: a full channel drops the message.
Broadcast(ms) == queue' = IF Len(queue) + Len(ms) <= QueueCap THEN queue \o ms ELSE queue

\* broadcastTrades; broadcastBook then starts with a context of its own.
BroadcastTrades(b) ==
  /\ At(b, "trades")
  /\ LET ts == task[b].trades IN
     /\ Broadcast([i \in DOMAIN ts |-> "trade"])
     /\ announced' = [t \in Trades |-> announced[t] + Len(SelectSeq(ts, LAMBDA x : x = t))]
  /\ Goto(b, Run(task[b].kind, "get", <<>>))
  /\ UNCHANGED <<mode, cache, shown, paused, topic, nextTrade, unheard, probe>>

\* Mutant: a hit renews the entry.
MutOnHit == cache' = [cache EXCEPT !.ttl = TTL]
\* A hit leaves the entry to expire when it was to.
OnHit == UNCHANGED cache

\* cache.GetBook: an error is a miss, and so is an expired context.
CacheGet(b) ==
  /\ At(b, "get")
  /\ \/ /\ cache # None /\ task[b].left > 0
        /\ Goto(b, Sending(task[b].kind, cache.new))
        /\ OnHit
     \/ Goto(b, Moved(b, "engine")) /\ UNCHANGED cache
  /\ UNCHANGED <<mode, queue, shown, paused, topic, nextTrade, announced, unheard, probe>>

\* The engine's GetBook answers within the context's time ...
EngineGet(b) ==
  /\ At(b, "engine") /\ task[b].left > 0
  /\ Goto(b, [Moved(b, "set") EXCEPT !.current = TRUE, !.new = probe])
  /\ UNCHANGED <<mode, cache, queue, shown, paused, topic, nextTrade, announced, unheard, probe>>

\* ... or fails: no broadcast, or 502 for GET /book.  The in-process engine fails
\* only when the context has expired.
EngineGetFails(b) ==
  /\ At(b, "engine") /\ (mode = "local" => task[b].left = 0)
  /\ Goto(b, None)
  /\ UNCHANGED <<mode, cache, queue, shown, paused, topic, nextTrade, announced, unheard, probe>>

\* cache.SetBook: errors, an expired context's among them, are swallowed.
CacheSet(b) ==
  /\ At(b, "set")
  /\ \/ /\ task[b].left > 0
        /\ cache' = [current |-> task[b].current, stale |-> task[b].stale,
                     new |-> task[b].new, ttl |-> TTL]
     \/ UNCHANGED cache
  /\ Goto(b, Sending(task[b].kind, task[b].new))
  /\ UNCHANGED <<mode, queue, shown, paused, topic, nextTrade, announced, unheard, probe>>

\* The snapshot is broadcast, or answered to GET /book.
Send(b) ==
  /\ At(b, "send")
  /\ IF task[b].kind = "read" THEN UNCHANGED queue
     ELSE Broadcast(<<IF task[b].new THEN "new" ELSE "old">>)
  /\ Goto(b, None)
  /\ UNCHANGED <<mode, cache, shown, paused, topic, nextTrade, announced, unheard, probe>>

\* The hub's loop and the dashboard: ladders replace what is shown.
Deliver ==
  /\ queue # <<>>
  /\ queue' = Tail(queue)
  /\ shown' = IF Head(queue) = "trade" THEN shown ELSE Head(queue) = "new"
  /\ UNCHANGED <<mode, task, cache, paused, topic, nextTrade, announced, unheard, probe>>

\* TradeConsumer.Run: one record is read and broadcast.
TapeRead ==
  /\ topic # <<>>
  /\ topic' = Tail(topic)
  /\ Broadcast(<<"trade">>)
  /\ announced' = [announced EXCEPT ![Head(topic)] = @ + 1]
  /\ UNCHANGED <<mode, task, cache, shown, paused, nextTrade, unheard, probe>>
-----------------------------------------------------------------------------
\* A tick of the simulator that is not paused cancels and renews the quotes.  A
\* quote may execute against an order in its way; only the quotes' ids are kept,
\* their executions (bid.Trades, ask.Trades) are dropped.
SimQuote ==
  /\ mode = "local" /\ ~paused /\ task[Sim] = None
  /\ \E ts \in Fills : Execute(ts, TRUE)
  /\ task' = [[c \in AllTasks |-> Superseded(task[c])] EXCEPT ![Sim] = Run("sim", "take", <<>>)]
  /\ BookChange
  /\ UNCHANGED <<mode, queue, shown, paused, announced>>

\* Most ticks a taker crosses the spread.
SimTake ==
  /\ At(Sim, "take")
  /\ \E ts \in Fills :
       /\ Execute(ts, FALSE)
       /\ IF ts = <<>>
            THEN Goto(Sim, Moved(Sim, "check")) /\ UNCHANGED <<cache, probe>>
            ELSE /\ task' = [[c \in AllTasks |-> Superseded(task[c])]
                              EXCEPT ![Sim] = Run("sim", "check", ts)]
                 /\ BookChange
  /\ UNCHANGED <<mode, queue, shown, paused, announced>>

\* Mutant: a tick without a trade has nothing to show.
MutNothingToShow == task[Sim].trades = <<>>
\* batches == nil && paused: the tick is taken for a skipped one.
NothingToShow == task[Sim].trades = <<>> /\ paused

SimCheck ==
  /\ At(Sim, "check")
  /\ Goto(Sim, IF NothingToShow THEN None ELSE Moved(Sim, "trades"))
  /\ UNCHANGED <<mode, cache, queue, shown, paused, topic, nextTrade, announced, unheard, probe>>

\* POST /sim/pause and /sim/resume.
SimPause(p) ==
  /\ mode = "local"
  /\ paused' = p
  /\ UNCHANGED <<mode, task, cache, queue, shown, topic, nextTrade, announced, unheard, probe>>

Advance(b) ==
  \/ BroadcastTrades(b) \/ CacheGet(b) \/ EngineGet(b) \/ EngineGetFails(b) \/ CacheSet(b) \/ Send(b)

Next ==
  \/ Tick \/ Cancel \/ Deliver \/ TapeRead
  \/ \E b \in Tasks : Submit(b) \/ SubmitRejected(b) \/ ReadBook(b)
  \/ \E b \in AllTasks : Advance(b)
  \/ SimQuote \/ SimTake \/ SimCheck \/ \E p \in BOOLEAN : SimPause(p)

\* Every goroutine, the hub, the tape's loop and the clock keep running.  The
\* simulator's ticker makes its goroutine start again; SF: its cache and engine
\* reads do not miss their deadline for ever, and its broadcasts do not find the
\* channel full for ever (a deadline of seconds, 256 places).
Fairness ==
  /\ WF_vars(Tick) /\ WF_vars(Deliver) /\ WF_vars(TapeRead)
  /\ \A b \in AllTasks : WF_vars(Advance(b))
  /\ WF_vars(SimQuote) /\ WF_vars(SimTake) /\ WF_vars(SimCheck)
  /\ SF_vars(CacheGet(Sim) /\ task[Sim].left > 0)
  /\ SF_vars(EngineGet(Sim))
  /\ SF_vars(Send(Sim) /\ Len(queue) < QueueCap)

Spec == Init /\ [][Next]_vars /\ Fairness
-----------------------------------------------------------------------------
\* Every variable stays in its type.
FeedTypeOK ==
  /\ mode \in {"local", "grpc"} /\ shown \in BOOLEAN /\ paused \in BOOLEAN
  /\ \A b \in AllTasks : task[b] # None =>
       /\ task[b].kind \in {"order", "read", "sim"}
       /\ task[b].step \in {"trades", "get", "engine", "set", "send", "take", "check"}
       /\ task[b].left \in 0..Timeout /\ task[b].stale \in 0..MaxAge
  /\ cache # None => cache.ttl \in 1..TTL /\ cache.stale \in 0..MaxAge
  /\ Len(queue) <= QueueCap /\ Len(topic) <= MaxTrades
  /\ nextTrade \in 1..(MaxTrades + 1) /\ unheard \subseteq Trades /\ probe \in BOOLEAN

\* A cached ladder is out of date by at most the cache's lifetime plus the
\* lifetime of the request that stored it, however slow that request was and
\* however often the entry is read: the TTL counts from the write, and an
\* expired context writes nothing (SetBook, handleBook, broadcastBook).
CacheLagBounded == cache # None => cache.stale <= Timeout + TTL - cache.ttl

\* Each trade is announced to the dashboards once, for ever: over gRPC by the
\* tape only ("ack.Trades is empty and this loop is a no-op"), in process by the
\* order or the taker's tick that made it, also when the bots are paused right
\* then.  The exceptions are never announced by anyone: a trade whose send to the
\* topic failed, and the trades made by the simulator's quotes (step() says that
\* it returns "the executions produced ... for broadcasting" and returns the
\* taker's only).
TradesAnnouncedOnce ==
  \A t \in Trades :
    (nextTrade > t) ~> [](announced[t] = IF t \in unheard THEN 0 ELSE 1)

\* While the bots run, the dashboards' ladder comes to show every change of the
\* book: through cache hits, late cache writes and dropped broadcasts.
LadderCatchesUp ==
  (mode = "local" /\ probe) ~> (shown \/ paused)
=============================================================================
