--------------------------- MODULE BookFeedProofs ---------------------------
(***************************************************************************)
(* How old a cached ladder can be, for any number of goroutines and trades, *)
(* any cache lifetime and any request deadline.  The bound on the cache     *)
(* rests on one for the snapshots that are still on their way to it: one    *)
(* that can still be stored is no older than its request.                   *)
(***************************************************************************)
EXTENDS BookFeed, TLAPS

Kinds == {"order", "read", "sim"}
Steps == {"trades", "get", "engine", "set", "send", "take", "check"}

TaskRec == [kind : Kinds, step : Steps, trades : Seq(Trades), left : 0..Timeout,
            current : BOOLEAN, stale : 0..MaxAge, new : BOOLEAN]
CacheRec == [current : BOOLEAN, stale : 0..MaxAge, new : BOOLEAN, ttl : 1..TTL]

Young(r) ==
  /\ (r.step # "set" \/ r.current) => r.stale = 0
  /\ r.left > 0 => r.stale <= Timeout - r.left
Kept(s) ==
  /\ s.current => s.stale = 0
  /\ s.stale <= Timeout + (TTL - s.ttl)

GoodTasks == {r \in TaskRec : Young(r)}
GoodCaches == {s \in CacheRec : Kept(s)}

FeedInv ==
  /\ mode \in {"local", "grpc"} /\ shown \in BOOLEAN /\ paused \in BOOLEAN /\ probe \in BOOLEAN
  /\ task \in [AllTasks -> GoodTasks \union {None}]
  /\ cache \in GoodCaches \union {None}
  /\ queue \in Seq({"trade", "new", "old"}) /\ Len(queue) <= QueueCap
  /\ topic \in Seq(Trades) /\ nextTrade \in 1..(MaxTrades + 1) /\ Len(topic) < nextTrade
  /\ unheard \subseteq Trades
-----------------------------------------------------------------------------
(* Records. *)

\* A goroutine at its start holds no snapshot yet, so nothing too old.
LEMMA RunGood ==
  ASSUME NEW kind \in Kinds, NEW step \in Steps, NEW ts \in Seq(Trades)
  PROVE  Run(kind, step, ts) \in GoodTasks
<1> USE FeedAssumption
<1>1. Run(kind, step, ts) \in TaskRec
  BY DEF Run, TaskRec, MaxAge
<1>2. /\ Run(kind, step, ts).stale = 0
      /\ Run(kind, step, ts).left \in 0..Timeout
  BY DEF Run
<1> QED  BY <1>1, <1>2 DEF GoodTasks, Young

\* A goroutine about to broadcast holds no snapshot any more.
LEMMA SendingGood ==
  ASSUME NEW kind \in Kinds, NEW new \in BOOLEAN
  PROVE  Sending(kind, new) \in GoodTasks
<1> USE FeedAssumption
<1>1. Run(kind, "send", <<>>) \in GoodTasks
  <2>1. "send" \in Steps /\ <<>> \in Seq(Trades)
    BY DEF Steps
  <2> QED  BY <2>1, RunGood
<1>2. ASSUME NEW r \in GoodTasks PROVE [r EXCEPT !.new = new] \in GoodTasks
  BY DEF GoodTasks, TaskRec, Young
<1> QED  BY <1>1, <1>2 DEF Sending

\* That the book changes does not make a snapshot older.
LEMMA SupersededGood ==
  /\ \A r \in GoodTasks \union {None} : Superseded(r) \in GoodTasks \union {None}
  /\ \A s \in GoodCaches \union {None} : Superseded(s) \in GoodCaches \union {None}
<1>1. ASSUME NEW r \in GoodTasks PROVE [r EXCEPT !.current = FALSE] \in GoodTasks
  BY DEF GoodTasks, TaskRec, Young
<1>2. ASSUME NEW s \in GoodCaches PROVE [s EXCEPT !.current = FALSE] \in GoodCaches
  BY DEF GoodCaches, CacheRec, Kept
<1> QED  BY <1>1, <1>2 DEF Superseded

\* A tick ages a snapshot by one and takes one from its request's time.
LEMMA LaterGood ==
  ASSUME NEW r \in GoodTasks
  PROVE  Later(r) \in GoodTasks
<1> USE FeedAssumption
<1>1. r \in TaskRec /\ Young(r)
  BY DEF GoodTasks
<1> DEFINE l == IF r.left > 0 THEN r.left - 1 ELSE 0
           a == IF r.step # "set" \/ r.current \/ r.stale = MaxAge THEN r.stale ELSE r.stale + 1
<1>2. Later(r) = [r EXCEPT !.stale = a, !.left = l]
  <2>1. CASE r.step = "set"
    BY <1>1, <2>1 DEF Later, Older, TaskRec
  <2>2. CASE r.step # "set"
    BY <1>1, <2>2 DEF Later, Older, TaskRec
  <2> QED  BY <2>1, <2>2
<1>3. l \in 0..Timeout /\ a \in 0..MaxAge
  BY <1>1 DEF TaskRec, MaxAge
<1>4. (r.step # "set" \/ r.current => a = 0) /\ (l > 0 => a <= Timeout - l)
  BY <1>1 DEF TaskRec, Young, MaxAge
<1> HIDE DEF l, a
<1> QED  BY <1>1, <1>2, <1>3, <1>4 DEF GoodTasks, TaskRec, Young

\* A cached ladder whose lifetime goes on ages no faster than that lifetime ends.
LEMMA CacheAges ==
  ASSUME NEW s \in GoodCaches, s.ttl # 1
  PROVE  [Older(s) EXCEPT !.ttl = @ - 1] \in GoodCaches
<1> USE FeedAssumption
<1>1. s \in CacheRec /\ Kept(s)
  BY DEF GoodCaches
<1> DEFINE a == IF s.current \/ s.stale = MaxAge THEN s.stale ELSE s.stale + 1
<1>2. [Older(s) EXCEPT !.ttl = @ - 1] = [s EXCEPT !.stale = a, !.ttl = s.ttl - 1]
  BY <1>1 DEF Older, CacheRec
<1>3. a \in 0..MaxAge /\ s.ttl - 1 \in 1..TTL
  BY <1>1 DEF CacheRec, MaxAge
<1>4. (s.current => a = 0) /\ a <= Timeout + (TTL - (s.ttl - 1))
  BY <1>1 DEF CacheRec, Kept, MaxAge
<1> HIDE DEF a
<1> QED  BY <1>1, <1>2, <1>3, <1>4 DEF GoodCaches, CacheRec, Kept

\* The channel keeps its bound, whatever is offered.
LEMMA BroadcastGood ==
  ASSUME FeedInv, NEW ms \in Seq({"trade", "new", "old"}), Broadcast(ms)
  PROVE  queue' \in Seq({"trade", "new", "old"}) /\ Len(queue') <= QueueCap
  BY FeedAssumption DEF FeedInv, Broadcast

\* A change of the book leaves the cache within its bound.
LEMMA ChangeGood ==
  ASSUME FeedInv, BookChange
  PROVE  cache' \in GoodCaches \union {None} /\ probe' \in BOOLEAN
  BY SupersededGood DEF FeedInv, BookChange

\* An order's trades are numbered on, and go to the topic when the tape carries them.
LEMMA ExecuteGood ==
  ASSUME FeedInv, NEW ts \in Fills, NEW dropped \in BOOLEAN, Execute(ts, dropped)
  PROVE  /\ ts \in Seq(Trades)
         /\ topic' \in Seq(Trades) /\ nextTrade' \in 1..(MaxTrades + 1) /\ Len(topic') < nextTrade'
         /\ unheard' \subseteq Trades
<1> USE FeedAssumption
<1>1. ts = <<>> \/ (nextTrade \in Trades /\ ts = <<nextTrade>>)
  BY DEF Fills
<1>2. ts \in Seq(Trades) /\ Len(ts) \in {0, 1} /\ (Len(ts) = 1 => nextTrade \in Trades)
  <2>1. CASE ts = <<>>
    BY <2>1
  <2>2. CASE nextTrade \in Trades /\ ts = <<nextTrade>>
    BY <2>2
  <2> QED  BY <1>1, <2>1, <2>2
<1>3. nextTrade' \in 1..(MaxTrades + 1) /\ nextTrade' = nextTrade + Len(ts)
  <2>1. nextTrade' = nextTrade + Len(ts) /\ nextTrade \in 1..(MaxTrades + 1)
    BY DEF Execute, FeedInv
  <2>2. CASE Len(ts) = 0
    BY <2>1, <2>2
  <2>3. CASE Len(ts) = 1
    <3>1. nextTrade \in 1..MaxTrades
      BY <1>2, <2>3 DEF Trades
    <3> QED  BY <2>1, <2>3, <3>1
  <2> QED  BY <1>2, <2>2, <2>3
<1>4. topic' \in Seq(Trades) /\ Len(topic') <= Len(topic) + Len(ts)
  BY <1>2 DEF Execute, FeedInv
<1>5. unheard' \subseteq Trades
  <2>1. \A i \in DOMAIN ts : ts[i] \in Trades
    BY <1>2
  <2>2. unheard \subseteq Trades
    BY DEF FeedInv
  <2> QED  BY <2>1, <2>2 DEF Execute
<1> QED  BY <1>2, <1>3, <1>4, <1>5 DEF FeedInv

\* All snapshots superseded, and one goroutine put to something new.
LEMMA AllSuperseded ==
  ASSUME FeedInv, NEW b \in AllTasks, NEW r \in GoodTasks
  PROVE  /\ [c \in AllTasks |-> Superseded(task[c])] \in [AllTasks -> GoodTasks \union {None}]
         /\ [[c \in AllTasks |-> Superseded(task[c])] EXCEPT ![b] = r]
              \in [AllTasks -> GoodTasks \union {None}]
<1>1. [c \in AllTasks |-> Superseded(task[c])] \in [AllTasks -> GoodTasks \union {None}]
  BY SupersededGood DEF FeedInv
<1> QED  BY <1>1

\* A goroutine that moves to a good state leaves all of them good.
LEMMA GotoGood ==
  ASSUME FeedInv, NEW b \in AllTasks, NEW r \in GoodTasks \union {None}, Goto(b, r)
  PROVE  task' \in [AllTasks -> GoodTasks \union {None}]
  BY DEF FeedInv, Goto

\* What a goroutine at a step is known to hold.
LEMMA AtGood ==
  ASSUME FeedInv, NEW b \in AllTasks, NEW s, At(b, s)
  PROVE  task[b] \in GoodTasks /\ task[b] \in TaskRec /\ Young(task[b]) /\ task[b].step = s
  BY DEF FeedInv, At, GoodTasks

\* A move to another step than "set" of a goroutine that holds no snapshot.
LEMMA MovedGood ==
  ASSUME FeedInv, NEW b \in AllTasks, NEW s \in Steps, task[b] \in GoodTasks, task[b].step # "set"
  PROVE  Moved(b, s) \in GoodTasks
  BY DEF Moved, GoodTasks, TaskRec, Young, Steps
-----------------------------------------------------------------------------
(* Steps. *)

\* The invariant holds at the start.
LEMMA InitGood == Init => FeedInv
<1> SUFFICES ASSUME Init PROVE FeedInv
  OBVIOUS
<1>1. queue \in Seq({"trade", "new", "old"}) /\ Len(queue) = 0 /\ topic \in Seq(Trades) /\ Len(topic) = 0
  BY DEF Init
<1>2. Len(queue) <= QueueCap /\ nextTrade \in 1..(MaxTrades + 1) /\ Len(topic) < nextTrade
  BY <1>1, FeedAssumption DEF Init
<1>3. task \in [AllTasks -> GoodTasks \union {None}] /\ cache \in GoodCaches \union {None}
  BY DEF Init
<1> QED  BY <1>1, <1>2, <1>3 DEF Init, FeedInv

\* Time passes: requests age, cached ladders expire.
LEMMA TickGood ==
  ASSUME FeedInv, Tick
  PROVE  FeedInv'
<1>1. task' \in [AllTasks -> GoodTasks \union {None}]
  BY LaterGood DEF FeedInv, Tick
<1>2. cache' \in GoodCaches \union {None}
  BY CacheAges DEF FeedInv, Tick
<1> QED  BY <1>1, <1>2 DEF FeedInv, Tick

\* An order executes (handleSubmit).
LEMMA SubmitGood ==
  ASSUME FeedInv, NEW b \in AllTasks, Submit(b)
  PROVE  FeedInv'
<1>1. PICK ts \in Fills :
        /\ \E dropped \in BOOLEAN : Execute(ts, dropped)
        /\ \/ task' = [[c \in AllTasks |-> Superseded(task[c])]
                         EXCEPT ![b] = Run("order", "trades", AckTrades(ts))]
           \/ mode = "grpc" /\ task' = [c \in AllTasks |-> Superseded(task[c])]
  BY DEF Submit
<1>2. ts \in Seq(Trades) /\ topic' \in Seq(Trades)
      /\ nextTrade' \in 1..(MaxTrades + 1) /\ Len(topic') < nextTrade' /\ unheard' \subseteq Trades
  BY <1>1, ExecuteGood
<1>3. AckTrades(ts) \in Seq(Trades)
  BY <1>2 DEF AckTrades
<1>4. Run("order", "trades", AckTrades(ts)) \in GoodTasks
  BY <1>3, RunGood DEF Kinds, Steps
<1>5. task' \in [AllTasks -> GoodTasks \union {None}]
  BY <1>1, <1>4, AllSuperseded
<1>6. cache' \in GoodCaches \union {None} /\ probe' \in BOOLEAN
  BY ChangeGood DEF Submit
<1> QED  BY <1>2, <1>5, <1>6 DEF FeedInv, Submit

\* The trades of an answer are broadcast (broadcastFills).
LEMMA TradesGood ==
  ASSUME FeedInv, NEW b \in AllTasks, BroadcastTrades(b)
  PROVE  FeedInv'
<1>1. task[b] \in TaskRec
  BY AtGood DEF BroadcastTrades
<1>2. task[b].trades \in Seq(Trades) /\ task[b].kind \in Kinds
  BY <1>1 DEF TaskRec
<1>3. [i \in DOMAIN task[b].trades |-> "trade"] \in Seq({"trade", "new", "old"})
  BY <1>2
<1>4. queue' \in Seq({"trade", "new", "old"}) /\ Len(queue') <= QueueCap
  BY <1>3, BroadcastGood DEF BroadcastTrades
<1>5. Run(task[b].kind, "get", <<>>) \in GoodTasks
  <2>1. "get" \in Steps /\ <<>> \in Seq(Trades)
    BY DEF Steps
  <2> QED  BY <1>2, <2>1, RunGood
<1>6. task' \in [AllTasks -> GoodTasks \union {None}]
  BY <1>5, GotoGood DEF BroadcastTrades
<1> QED  BY <1>4, <1>6 DEF FeedInv, BroadcastTrades

\* A ladder is read from the cache or from the engine.
LEMMA ReadGood ==
  ASSUME FeedInv, NEW b \in AllTasks, CacheGet(b) \/ EngineGet(b) \/ EngineGetFails(b)
  PROVE  FeedInv'
<1>1. ASSUME CacheGet(b) PROVE FeedInv'
  <2>1. task[b] \in GoodTasks /\ task[b].step = "get" /\ task[b].kind \in Kinds
    BY <1>1, AtGood DEF CacheGet, TaskRec
  <2>2. cache # None => cache.new \in BOOLEAN
    BY DEF FeedInv, GoodCaches, CacheRec
  <2>3. Moved(b, "engine") \in GoodTasks
    BY <2>1, MovedGood DEF Steps
  <2>4. task' \in [AllTasks -> GoodTasks \union {None}]
    BY <1>1, <2>1, <2>2, <2>3, SendingGood, GotoGood DEF CacheGet
  <2> QED  BY <1>1, <2>4 DEF FeedInv, CacheGet, OnHit
<1>2. ASSUME EngineGet(b) PROVE FeedInv'
  <2>1. task[b] \in TaskRec /\ Young(task[b]) /\ task[b].step = "engine" /\ probe \in BOOLEAN
    BY <1>2, AtGood DEF EngineGet, FeedInv
  <2>2. [Moved(b, "set") EXCEPT !.current = TRUE, !.new = probe] \in GoodTasks
    BY <2>1 DEF Moved, GoodTasks, TaskRec, Young, Steps
  <2>3. task' \in [AllTasks -> GoodTasks \union {None}]
    BY <1>2, <2>2, GotoGood DEF EngineGet
  <2> QED  BY <1>2, <2>3 DEF FeedInv, EngineGet
<1>3. ASSUME EngineGetFails(b) PROVE FeedInv'
  <2>1. task' \in [AllTasks -> GoodTasks \union {None}]
    BY <1>3, GotoGood DEF EngineGetFails
  <2> QED  BY <1>3, <2>1 DEF FeedInv, EngineGetFails
<1> QED  BY <1>1, <1>2, <1>3

\* A write of an expired request does not happen, so what is stored is young.
LEMMA CacheSetGood ==
  ASSUME FeedInv, NEW b \in AllTasks, CacheSet(b)
  PROVE  FeedInv'
<1> USE FeedAssumption
<1>1. task[b] \in TaskRec /\ Young(task[b]) /\ task[b].step = "set"
  BY AtGood DEF CacheSet
<1>2. task[b].left > 0 =>
        [current |-> task[b].current, stale |-> task[b].stale, new |-> task[b].new, ttl |-> TTL] \in GoodCaches
  BY <1>1 DEF TaskRec, Young, GoodCaches, CacheRec, Kept
<1>3. cache' \in GoodCaches \union {None}
  BY <1>2 DEF CacheSet, FeedInv
<1>4. Sending(task[b].kind, task[b].new) \in GoodTasks
  BY <1>1, SendingGood DEF TaskRec
<1>5. task' \in [AllTasks -> GoodTasks \union {None}]
  BY <1>4, GotoGood DEF CacheSet
<1> QED  BY <1>3, <1>5 DEF FeedInv, CacheSet

\* A ladder is broadcast.
LEMMA SendGood ==
  ASSUME FeedInv, NEW b \in AllTasks, Send(b)
  PROVE  FeedInv'
<1>1. <<IF task[b].new THEN "new" ELSE "old">> \in Seq({"trade", "new", "old"})
  OBVIOUS
<1>2. queue' \in Seq({"trade", "new", "old"}) /\ Len(queue') <= QueueCap
  BY <1>1, BroadcastGood DEF Send, FeedInv
<1>3. task' \in [AllTasks -> GoodTasks \union {None}]
  BY GotoGood DEF Send
<1> QED  BY <1>2, <1>3 DEF FeedInv, Send

\* The hub takes a message, or the tape a trade.
LEMMA QueuesGood ==
  ASSUME FeedInv, Deliver \/ TapeRead
  PROVE  FeedInv'
<1> USE FeedAssumption
<1>1. ASSUME Deliver PROVE FeedInv'
  <2>1. queue' \in Seq({"trade", "new", "old"}) /\ Len(queue') <= QueueCap
    BY <1>1 DEF FeedInv, Deliver
  <2>2. shown' \in BOOLEAN
    BY <1>1 DEF FeedInv, Deliver
  <2> QED  BY <1>1, <2>1, <2>2 DEF FeedInv, Deliver
<1>2. ASSUME TapeRead PROVE FeedInv'
  <2>1. <<"trade">> \in Seq({"trade", "new", "old"})
    OBVIOUS
  <2>2. queue' \in Seq({"trade", "new", "old"}) /\ Len(queue') <= QueueCap
    BY <1>2, <2>1, BroadcastGood DEF TapeRead
  <2>3. topic' \in Seq(Trades) /\ Len(topic') < nextTrade
    BY <1>2 DEF FeedInv, TapeRead
  <2> QED  BY <1>2, <2>2, <2>3 DEF FeedInv, TapeRead
<1> QED  BY <1>1, <1>2

\* The simulator's tick (simulator.go step).
LEMMA SimGood ==
  ASSUME FeedInv, SimQuote \/ SimTake \/ SimCheck
  PROVE  FeedInv'
<1>0. Sim \in AllTasks /\ <<>> \in Seq(Trades)
  BY DEF AllTasks
<1>1. ASSUME SimQuote PROVE FeedInv'
  <2>1. Run("sim", "take", <<>>) \in GoodTasks
    BY <1>0, RunGood DEF Kinds, Steps
  <2>2. task' \in [AllTasks -> GoodTasks \union {None}]
    BY <1>0, <1>1, <2>1, AllSuperseded DEF SimQuote
  <2>3. cache' \in GoodCaches \union {None} /\ probe' \in BOOLEAN
    BY <1>1, ChangeGood DEF SimQuote
  <2>4. PICK ts \in Fills : Execute(ts, TRUE)
    BY <1>1 DEF SimQuote
  <2>5. ts \in Seq(Trades) /\ topic' \in Seq(Trades) /\ unheard' \subseteq Trades
        /\ nextTrade' \in 1..(MaxTrades + 1) /\ Len(topic') < nextTrade'
    BY <2>4, ExecuteGood
  <2> QED  BY <1>1, <2>2, <2>3, <2>5 DEF FeedInv, SimQuote
<1>2. ASSUME SimTake PROVE FeedInv'
  <2>1. PICK ts \in Fills :
          /\ Execute(ts, FALSE)
          /\ IF ts = <<>>
               THEN Goto(Sim, Moved(Sim, "check")) /\ UNCHANGED <<cache, probe>>
               ELSE /\ task' = [[c \in AllTasks |-> Superseded(task[c])]
                                 EXCEPT ![Sim] = Run("sim", "check", ts)]
                    /\ BookChange
    BY <1>2 DEF SimTake
  <2>2. ts \in Seq(Trades) /\ topic' \in Seq(Trades) /\ unheard' \subseteq Trades
        /\ nextTrade' \in 1..(MaxTrades + 1) /\ Len(topic') < nextTrade'
    BY <2>1, ExecuteGood
  <2>3. task[Sim] \in GoodTasks /\ task[Sim].step = "take"
    BY <1>0, <1>2, AtGood DEF SimTake
  <2>4. Moved(Sim, "check") \in GoodTasks
    BY <1>0, <2>3, MovedGood DEF Steps
  <2>5. Run("sim", "check", ts) \in GoodTasks
    BY <2>2, RunGood DEF Kinds, Steps
  <2>6. task' \in [AllTasks -> GoodTasks \union {None}]
    BY <1>0, <2>1, <2>4, <2>5, GotoGood, AllSuperseded
  <2>7. cache' \in GoodCaches \union {None} /\ probe' \in BOOLEAN
    BY <2>1, ChangeGood DEF FeedInv
  <2> QED  BY <1>2, <2>2, <2>6, <2>7 DEF FeedInv, SimTake
<1>3. ASSUME SimCheck PROVE FeedInv'
  <2>1. task[Sim] \in GoodTasks /\ task[Sim].step = "check"
    BY <1>0, <1>3, AtGood DEF SimCheck
  <2>2. Moved(Sim, "trades") \in GoodTasks
    BY <1>0, <2>1, MovedGood DEF Steps
  <2>3. task' \in [AllTasks -> GoodTasks \union {None}]
    BY <1>0, <1>3, <2>2, GotoGood DEF SimCheck
  <2> QED  BY <1>3, <2>3 DEF FeedInv, SimCheck
<1> QED  BY <1>1, <1>2, <1>3

\* Every step keeps the invariant.
LEMMA NextGood == FeedInv /\ [Next]_vars => FeedInv'
<1> SUFFICES ASSUME FeedInv, [Next]_vars PROVE FeedInv'
  OBVIOUS
<1>1. CASE Tick
  BY <1>1, TickGood
<1>2. CASE Cancel
  <2>1. task' \in [AllTasks -> GoodTasks \union {None}]
    BY <1>2, SupersededGood DEF Cancel, FeedInv
  <2>2. cache' \in GoodCaches \union {None} /\ probe' \in BOOLEAN
    BY <1>2, ChangeGood DEF Cancel
  <2> QED  BY <1>2, <2>1, <2>2 DEF FeedInv, Cancel
<1>3. CASE Deliver \/ TapeRead
  BY <1>3, QueuesGood
<1>4. ASSUME NEW b \in Tasks, Submit(b) \/ SubmitRejected(b) \/ ReadBook(b) PROVE FeedInv'
  <2>1. b \in AllTasks /\ <<>> \in Seq(Trades)
    BY DEF AllTasks
  <2>2. Run("order", "trades", <<>>) \in GoodTasks /\ Run("read", "get", <<>>) \in GoodTasks
    BY <2>1, RunGood DEF Kinds, Steps
  <2>3. ASSUME SubmitRejected(b) \/ ReadBook(b) PROVE FeedInv'
    <3>1. task' \in [AllTasks -> GoodTasks \union {None}]
      BY <2>1, <2>2, <2>3, GotoGood DEF SubmitRejected, ReadBook
    <3> QED  BY <2>3, <3>1 DEF FeedInv, SubmitRejected, ReadBook
  <2> QED  BY <1>4, <2>1, <2>3, SubmitGood
<1>5. ASSUME NEW b \in AllTasks, Advance(b) PROVE FeedInv'
  BY <1>5, TradesGood, ReadGood, CacheSetGood, SendGood DEF Advance
<1>6. CASE SimQuote \/ SimTake \/ SimCheck
  BY <1>6, SimGood
<1>7. ASSUME NEW p \in BOOLEAN, SimPause(p) PROVE FeedInv'
  BY <1>7 DEF FeedInv, SimPause
<1>8. CASE UNCHANGED vars
  BY <1>8 DEF FeedInv, vars
<1> QED  BY <1>1, <1>2, <1>3, <1>4, <1>5, <1>6, <1>7, <1>8 DEF Next

\* The feed's types; the hub's channel never grows past its capacity.
THEOREM FeedTypes == Spec => []FeedTypeOK
<1>1. FeedInv => FeedTypeOK
  <2> SUFFICES ASSUME FeedInv PROVE FeedTypeOK
    OBVIOUS
  <2>1. \A b \in AllTasks : task[b] # None =>
          /\ task[b].kind \in Kinds /\ task[b].step \in Steps
          /\ task[b].left \in 0..Timeout /\ task[b].stale \in 0..MaxAge
    BY DEF FeedInv, GoodTasks, TaskRec
  <2>2. cache # None => cache.ttl \in 1..TTL /\ cache.stale \in 0..MaxAge
    BY DEF FeedInv, GoodCaches, CacheRec
  <2>3. Len(topic) <= MaxTrades
    BY FeedAssumption DEF FeedInv
  <2> QED  BY <2>1, <2>2, <2>3 DEF FeedInv, FeedTypeOK, Kinds, Steps
<1> QED  BY <1>1, InitGood, NextGood, PTL DEF Spec

\* A cached ladder is out of date by at most the request's deadline plus the time
\* it has been in the cache (SetBook's TTL, EngineTimeout's context).
THEOREM CacheLag == Spec => []CacheLagBounded
<1>1. FeedInv => CacheLagBounded
  BY FeedAssumption DEF FeedInv, GoodCaches, CacheRec, Kept, CacheLagBounded
<1> QED  BY <1>1, InitGood, NextGood, PTL DEF Spec
=============================================================================
