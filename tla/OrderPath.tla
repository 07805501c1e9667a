------------------------------ MODULE OrderPath ------------------------------
(***************************************************************************)
(* The gateway's order path and the risk loop it closes: POST and DELETE     *)
(* /orders, the risk gate, the engine behind a deadline, the asynchronous    *)
(* order feed, the risk service and its signals, and the gateway's graceful  *)
(* shutdown (gateway/internal/api, orderfeed, risksignal, engine/grpc_client,*)
(* cmd/gateway, risk/app).  An order fills one lot against another account   *)
(* or none; the engine is modelled by OrderBook and EngineService.           *)
(***************************************************************************)
EXTENDS Integers, Sequences, SequencesExt, FiniteSets

CONSTANTS
  MaxHandlers,   \* bound: requests in flight at once
  Accounts,
  Clients,       \* accounts that trade through this gateway; the others rest orders
  PositionCap,   \* max_position_per_symbol
  VelocityCap,   \* max_orders_per_min
  MaxOrders,     \* bound: orders and cancels sent
  MaxExtras,     \* bound: calls of /score-order, messages the risk service is given
                 \* or sends once more, stops and crashes of the gateway, together
  None

ASSUME PathAssumption ==
  /\ MaxHandlers \in Nat /\ PositionCap \in Nat /\ VelocityCap \in Nat
  /\ Clients \subseteq Accounts

\* Places for requests in flight; a request takes the first free one.
Handlers == 1..MaxHandlers

VARIABLES
  req,           \* each handler's order; "late": the engine still has it, nobody waits
  sent,          \* orders sent so far
  pos,           \* the engine's positions
  trades,        \* fills on their way to the risk service: engine, `trades` topic
  outbox,        \* events the async writer holds, per account
  orders,        \* the `orders` topic, per account (the partition key)
  riskPos,       \* the risk service's positions
  recent,        \* its orders of the last minute, per account
  signals,       \* the `risk-signals` topic, per account
  gate,          \* the last signal applied, per account
  life,          \* "up", "draining", "closing", "closed" (orderPub) or "down"
  extras,        \* counts towards MaxExtras
  forced,        \* this life of the process ended by its drain's timeout or a crash (auxiliary)
  discarded,     \* it threw away an event of an answered order (auxiliary)
  owed,          \* a refused attempt has not led to a new verdict (auxiliary)
  missed,        \* the verdict on an account's last fill was not sent, or an older
                 \* one was sent again behind it (auxiliary)
  astray         \* a fill of an account was lost, or read twice (auxiliary)

gatewayVars == <<req, outbox, gate, life, forced, discarded>>
engineVars == <<pos, trades, astray>>
riskVars == <<riskPos, recent, signals, missed>>
vars == <<gatewayVars, engineVars, riskVars, sent, orders, extras, owed>>

Unjudged == [kind |-> "none", action |-> "ALLOW"]

Init ==
  /\ req = [h \in Handlers |-> None] /\ sent = 0
  /\ pos = [a \in Accounts |-> 0] /\ trades = <<>>
  /\ outbox = [a \in Accounts |-> <<>>] /\ orders = [a \in Accounts |-> <<>>]
  /\ riskPos = [a \in Accounts |-> 0] /\ recent = [a \in Accounts |-> 0]
  /\ signals = [a \in Accounts |-> <<>>]
  /\ gate = [a \in Accounts |-> Unjudged]
  /\ life = "up" /\ extras = 0
  /\ forced = FALSE /\ discarded = FALSE
  /\ owed = [a \in Accounts |-> FALSE] /\ missed = [a \in Accounts |-> FALSE]
  /\ astray = [a \in Accounts |-> FALSE]

\* One of the bounded events.
Extra == extras < MaxExtras /\ extras' = extras + 1

At(h, s) == req[h] # None /\ req[h].step = s
Free(h) == req[h] = None /\ \A g \in 1..(h - 1) : req[g] # None
Goto(h, r) == req' = [req EXCEPT ![h] = r]
-----------------------------------------------------------------------------
(* Conversions between the gateway's and the wire's enumerations. *)

\* engine/grpc_client.go: what the engine is asked to do.
toProtoSide(s) == IF s = "SELL" THEN "SELL" ELSE "BUY"

\* engine/grpc_client.go: the engine's answer.
fromProtoStatus(s) ==
  IF s \in {"ACCEPTED", "PARTIALLY_FILLED", "FILLED", "CANCELLED"} THEN s ELSE "REJECTED"

\* orderfeed.go: what the feed says of an order.
protoSide(s) == IF s \in {"BUY", "SELL"} THEN s ELSE "SIDE_UNSPECIFIED"

\* Mutant: an order that filled in part is reported by no case of its own.
MutProtoStatus(s) ==
  IF s \in {"ACCEPTED", "FILLED", "CANCELLED", "REJECTED"} THEN s ELSE "ORDER_STATUS_UNSPECIFIED"
protoStatus(s) ==
  IF s \in {"ACCEPTED", "PARTIALLY_FILLED", "FILLED", "CANCELLED", "REJECTED"} THEN s
  ELSE "ORDER_STATUS_UNSPECIFIED"

\* buildSubmitEvent, buildCancelEvent, for an order the engine answered.
Event(r) ==
  [cancel |-> r.cancel, side |-> IF r.cancel THEN "SIDE_UNSPECIFIED" ELSE protoSide(r.side),
   status |-> protoStatus(fromProtoStatus(r.status))]
-----------------------------------------------------------------------------
(* The gateway's handlers. *)

Blocked(a) == gate[a].action = "REJECT"

\* KafkaPublisher.publish: queued, or refused by a closed writer and only logged.
Publish(a, e) ==
  /\ outbox' = IF life = "closed" THEN outbox ELSE [outbox EXCEPT ![a] = Append(@, e)]
  /\ discarded' = (discarded \/ life = "closed")

Order(step, a, side, cancel) ==
  [step |-> step, account |-> a, side |-> side, cancel |-> cancel, status |-> None]

\* Mutant: a refused attempt is not published.
MutPublishRefused(a) == UNCHANGED <<outbox, discarded>>
\* The blocked branch: the attempt is part of the account's order flow.
PublishRefused(a) == Publish(a, [cancel |-> FALSE, refused |-> TRUE])

\* handleSubmit: the gate refuses with 422, or lets the order on to the engine.
Submit(h, a, side) ==
  /\ life = "up" /\ Free(h) /\ sent < MaxOrders
  /\ sent' = sent + 1
  /\ IF Blocked(a)
       THEN /\ PublishRefused(a)
            /\ owed' = [owed EXCEPT ![a] = TRUE]
            /\ UNCHANGED req
       ELSE /\ Goto(h, Order("call", a, side, FALSE))
            /\ UNCHANGED <<outbox, discarded, owed>>
  /\ UNCHANGED <<engineVars, riskVars, gate, life, forced, orders, extras>>

\* handleCancel asks no gate.
Cancel(h, a) ==
  /\ life = "up" /\ Free(h) /\ sent < MaxOrders
  /\ sent' = sent + 1
  /\ Goto(h, Order("call", a, "BUY", TRUE))
  /\ UNCHANGED <<engineVars, riskVars, outbox, gate, life, forced, discarded,
                 orders, extras, owed>>

\* External: the engine runs an order; a fill moves a lot between two accounts,
\* and is published after it was recorded, unless that or the send fails.
Outcomes(r) == IF r.cancel THEN {"CANCELLED", "REJECTED"}
               ELSE {"ACCEPTED", "PARTIALLY_FILLED", "FILLED", "REJECTED"}
Stray(t) == astray' = [astray EXCEPT ![t.buyer] = TRUE, ![t.seller] = TRUE]
Run(r, status) ==
  IF status \in {"PARTIALLY_FILLED", "FILLED"}
    THEN \E c \in Accounts \ {r.account} :
           LET t == IF toProtoSide(r.side) = "BUY" THEN [buyer |-> r.account, seller |-> c]
                    ELSE [buyer |-> c, seller |-> r.account]
           IN /\ pos' = [pos EXCEPT ![t.buyer] = @ + 1, ![t.seller] = @ - 1]
              /\ \/ trades' = Append(trades, t) /\ UNCHANGED astray
                 \/ UNCHANGED trades /\ Stray(t)
    ELSE UNCHANGED engineVars

EngineRun(h) ==
  /\ At(h, "call")
  /\ \E status \in Outcomes(req[h]) :
       /\ Run(req[h], status)
       /\ Goto(h, [req[h] EXCEPT !.step = "ran", !.status = status])
  /\ UNCHANGED <<riskVars, outbox, gate, life, forced, discarded,
                 sent, orders, extras, owed>>

\* The ack arrives in time: the event is published, the client answered.
Answer(h) ==
  /\ At(h, "ran")
  /\ Publish(req[h].account, [cancel |-> req[h].cancel, refused |-> FALSE])
  /\ Goto(h, None)
  /\ UNCHANGED <<engineVars, riskVars, gate, life, forced, sent, orders, extras, owed>>

\* The deadline passes, or the connection fails: 502, whatever the engine does.
GiveUp(h) ==
  /\ At(h, "call") \/ At(h, "ran")
  /\ \/ Goto(h, None)
     \/ At(h, "call") /\ Goto(h, [req[h] EXCEPT !.step = "late"])
  /\ UNCHANGED <<engineVars, riskVars, outbox, gate, life, forced, discarded,
                 sent, orders, extras, owed>>

\* External: the engine gets to an order nobody waits for any more.
LateRun(h) ==
  /\ At(h, "late")
  /\ \E status \in Outcomes(req[h]) : Run(req[h], status)
  /\ Goto(h, None)
  /\ UNCHANGED <<riskVars, outbox, gate, life, forced, discarded, sent, orders, extras, owed>>

\* The writer's batches: an account's oldest event is delivered, or given up and
\* logged.
Flush(a) ==
  /\ outbox[a] # <<>>
  /\ outbox' = [outbox EXCEPT ![a] = Tail(@)]
  /\ \/ orders' = [orders EXCEPT ![a] = Append(@, Head(outbox[a]))] /\ UNCHANGED owed
     \/ /\ UNCHANGED orders
        /\ owed' = [owed EXCEPT ![a] = @ /\ ~Head(outbox[a]).refused]
  /\ UNCHANGED <<engineVars, riskVars, req, gate, life, forced, discarded,
                 sent, extras>>
-----------------------------------------------------------------------------
(* The risk service (risk/app): one consumer thread, and the API beside it. *)

Over(p) == p > PositionCap \/ -p > PositionCap

\* RiskScorer.score: is any limit breached?  heavy: the gross notional is over its
\* cap, which with prices left out can be so of any position but 0.
Breach(p, n, heavy) == Over(p) \/ n > VelocityCap \/ heavy
MayBeHeavy(p) == p # 0

\* _evaluate_and_signal: a verdict on an account's exposure.  other: it rejects
\* for another limit than the position; about: it has seen a refused attempt
\* (auxiliary).
Verdict(p, n, heavy, about) ==
  [kind |-> "exposure", action |-> IF Breach(p, n, heavy) THEN "REJECT" ELSE "ALLOW",
   other |-> ~Over(p) /\ Breach(p, n, heavy), about |-> about]

\* Mutant: only the account whose order took liquidity is judged again.
MutAffected(t) == {t.buyer}
\* A fill moves both sides' positions.
Affected(t) == {t.buyer, t.seller}

\* Mutant: a fill is counted twice.
MutApplyTrade(t) == [riskPos EXCEPT ![t.buyer] = @ + 2, ![t.seller] = @ - 2]
\* Store.apply_trade: the fill in both accounts' positions.
ApplyTrade(t) == [riskPos EXCEPT ![t.buyer] = @ + 1, ![t.seller] = @ - 1]

\* handle_message for a trade: both positions, then a verdict on both accounts.
\* Either verdict may not get out: publish_signal swallows a failed produce and a
\* lost one is not asked after, and the loop skips the rest of a message when the
\* scorer raises (it walks the deque the API appends to).  Fills may overtake one
\* another on the way, and a message whose offset was not committed comes again.
RiskTrade ==
  \E i \in DOMAIN trades :
    LET t == trades[i]
        p == ApplyTrade(t)
    IN /\ riskPos' = p
       /\ \E told \in SUBSET Affected(t) :
            /\ \E heavy \in SUBSET {a \in told : MayBeHeavy(p[a])} :
                 signals' = [a \in Accounts |-> IF a \in told
                   THEN Append(signals[a], Verdict(p[a], recent[a], a \in heavy, FALSE))
                   ELSE signals[a]]
            /\ missed' = [a \in Accounts |-> (missed[a] \/ a \in Affected(t)) /\ a \notin told]
       /\ \/ trades' = RemoveAt(trades, i) /\ UNCHANGED <<astray, extras>>
          \/ Extra /\ UNCHANGED trades /\ Stray(t)
       /\ UNCHANGED <<gatewayVars, pos, recent, sent, orders, owed>>

\* record_order; counts past the cap are not told apart.
Counted(n) == IF n > VelocityCap THEN n ELSE n + 1

\* handle_message for an order event: submissions count for the velocity, both
\* kinds lead to a verdict, which may not get out.  The event may come again.
RiskOrder(a) ==
  /\ orders[a] # <<>>
  /\ LET e == Head(orders[a])
         n == IF e.cancel THEN recent[a] ELSE Counted(recent[a])
     IN /\ recent' = [recent EXCEPT ![a] = n]
        /\ \/ /\ \E heavy \in {FALSE, MayBeHeavy(riskPos[a])} :
                  signals' = [signals EXCEPT ![a] =
                                Append(@, Verdict(riskPos[a], n, heavy, e.refused))]
              /\ missed' = [missed EXCEPT ![a] = FALSE]
              /\ UNCHANGED owed
           \/ /\ owed' = [owed EXCEPT ![a] = @ /\ ~e.refused]
              /\ UNCHANGED <<signals, missed>>
  /\ \/ orders' = [orders EXCEPT ![a] = Tail(@)] /\ UNCHANGED extras
     \/ Extra /\ UNCHANGED orders
  /\ UNCHANGED <<gatewayVars, engineVars, riskPos, sent>>

\* POST /score-order: the order is counted and an ANOMALY signal sent, for better
\* or worse, if it gets out.
ScoreOrder(a, action) ==
  /\ Extra
  /\ recent' = [recent EXCEPT ![a] = Counted(@)]
  /\ \/ signals' = [signals EXCEPT ![a] = Append(@, [kind |-> "anomaly", action |-> action,
                                                    other |-> FALSE, about |-> FALSE])]
     \/ UNCHANGED signals
  /\ UNCHANGED <<gatewayVars, engineVars, riskPos, missed, sent, orders, owed>>

\* The signals' producer is not an idempotent one: a signal whose acknowledgement
\* was lost is written again, behind those that followed it.
Resend(a) ==
  /\ Extra
  /\ \E sig \in (Range(signals[a]) \union {gate[a]}) \ {Unjudged} :
       signals' = [signals EXCEPT ![a] = Append(@, [sig EXCEPT !.about = FALSE])]
  /\ missed' = [missed EXCEPT ![a] = TRUE]
  /\ UNCHANGED <<gatewayVars, engineVars, riskPos, recent, sent, orders, owed>>

\* A minute passes for an account: its orders leave the window.
Age(a) ==
  /\ recent[a] > 0
  /\ recent' = [recent EXCEPT ![a] = 0]
  /\ UNCHANGED <<gatewayVars, engineVars, riskPos, signals, missed, sent, orders, extras, owed>>

\* Consumer.Run: a signal is read, its offset committed, and applied (Gate.apply):
\* REJECT blocks, anything else clears, whatever its kind.
Apply(a) ==
  /\ life \in {"up", "draining"} /\ signals[a] # <<>>
  /\ LET sig == Head(signals[a]) IN
     /\ gate' = [gate EXCEPT ![a] = sig]
     /\ owed' = [owed EXCEPT ![a] = @ /\ ~sig.about]
  /\ signals' = [signals EXCEPT ![a] = Tail(@)]
  /\ UNCHANGED <<engineVars, req, outbox, life, forced, discarded,
                 riskPos, recent, missed, sent, orders, extras>>
-----------------------------------------------------------------------------
(* main(): start, graceful shutdown, crash. *)

\* SIGTERM: Shutdown stops accepting.
Stop ==
  /\ life = "up" /\ Extra
  /\ life' = "draining"
  /\ UNCHANGED <<engineVars, riskVars, req, outbox, gate, forced, discarded,
                 sent, orders, owed>>

\* Mutant: Shutdown is not waited for.
MutDrained == TRUE
\* Shutdown returns once no request is in flight ...
Drained == \A h \in Handlers : req[h] = None \/ At(h, "late")

\* ... or after ten seconds, with requests still running.  The deferred calls
\* follow, the consumer's stop before the publisher's Close.
EndDrain ==
  /\ life = "draining"
  /\ life' = "closing"
  /\ \/ Drained /\ UNCHANGED forced
     \/ forced' = TRUE
  /\ UNCHANGED <<engineVars, riskVars, req, outbox, gate, discarded,
                 sent, orders, extras, owed>>

\* orderPub.Close takes no more events and flushes those it has.
ClosePublisher ==
  /\ life = "closing"
  /\ life' = "closed"
  /\ UNCHANGED <<engineVars, riskVars, req, outbox, gate, forced, discarded,
                 sent, orders, extras, owed>>

\* The process ends: what it held in memory is gone, the engine may still get to
\* the calls it was sent.
Gone ==
  /\ life' = "down"
  /\ req' \in {[h \in Handlers |-> IF At(h, "late") \/ (At(h, "call") /\ kept)
                                     THEN [req[h] EXCEPT !.step = "late"] ELSE None] :
                kept \in BOOLEAN}
  /\ outbox' = [a \in Accounts |-> <<>>]
  /\ gate' = [a \in Accounts |-> Unjudged]
  /\ owed' = [a \in Accounts |-> FALSE]

Exit ==
  /\ life = "closed" /\ \A a \in Accounts : outbox[a] = <<>>
  /\ Gone
  /\ UNCHANGED <<engineVars, riskVars, forced, discarded, sent, orders, extras>>

\* A crash, at any time; a signal whose offset is committed may be lost with it.
Crash ==
  /\ life # "down" /\ Extra
  /\ Gone
  /\ forced' = TRUE
  /\ \/ UNCHANGED signals
     \/ \E a \in Accounts : signals[a] # <<>> /\ signals' = [signals EXCEPT ![a] = Tail(@)]
  /\ UNCHANGED <<engineVars, riskPos, recent, missed, discarded, sent, orders>>

Restart ==
  /\ life = "down"
  /\ life' = "up" /\ forced' = FALSE /\ discarded' = FALSE
  /\ UNCHANGED <<engineVars, riskVars, req, outbox, gate, sent, orders, extras, owed>>

Main == EndDrain \/ ClosePublisher \/ Exit \/ Restart

Next ==
  \/ \E h \in Handlers :
       \/ EngineRun(h) \/ Answer(h) \/ GiveUp(h) \/ LateRun(h)
       \/ \E a \in Clients : Cancel(h, a) \/
            \E side \in {"BUY", "SELL", "other"} : Submit(h, a, side)
  \/ \E a \in Accounts : Flush(a) \/ RiskOrder(a) \/ Apply(a) \/ Age(a) \/ Resend(a)
  \/ RiskTrade
  \/ \E a \in Clients, action \in {"ALLOW", "REJECT"} : ScoreOrder(a, action)
  \/ Stop \/ Crash \/ Main

\* What the liveness property needs of the scheduling: the feed's writer, the risk
\* service's loop and the signal consumer get to every client's queue, and main's
\* shutdown and the supervisor that starts the gateway again go on.
Fairness ==
  /\ \A a \in Clients : WF_vars(Flush(a)) /\ WF_vars(RiskOrder(a)) /\ WF_vars(Apply(a))
  /\ WF_vars(Main)

Spec == Init /\ [][Next]_vars /\ Fairness
-----------------------------------------------------------------------------
Signals == [kind : {"exposure", "anomaly"}, action : {"ALLOW", "REJECT"},
            other : BOOLEAN, about : BOOLEAN]
Events == [cancel : BOOLEAN, refused : BOOLEAN]

\* Every variable stays in its type; no handler outlives the process, the engine
\* books no more lots than orders were sent, and the risk service no more than
\* that and what it was given twice.
PathTypeOK ==
  /\ \A h \in Handlers : req[h] # None =>
       req[h].step = "late" \/ (req[h].step \in {"call", "ran"} /\ life # "down")
  /\ \A a \in Accounts :
       /\ pos[a] \in -sent..sent /\ riskPos[a] \in -(sent + extras)..(sent + extras)
       /\ outbox[a] \in Seq(Events) /\ orders[a] \in Seq(Events) /\ signals[a] \in Seq(Signals)
       /\ gate[a] = Unjudged \/ gate[a] \in Signals
       /\ recent[a] \in 0..(VelocityCap + 1)
  /\ life \in {"up", "draining", "closing", "closed", "down"}

\* The feed tells what happened: through the three enumerations an order's status
\* passes, the event carries the engine's answer, and the side the engine traded,
\* unless the client named neither side (toProtoSide takes that for BUY).
EventsTellTheTruth ==
  \A h \in Handlers : At(h, "ran") =>
    LET e == Event(req[h]) IN
    /\ e.status = req[h].status
    /\ (~req[h].cancel /\ req[h].side \in {"BUY", "SELL"}) => e.side = toProtoSide(req[h].side)

\* Once its signals are applied, an account whose exposure was judged last is
\* blocked exactly if the risk service has it over the position cap, or the
\* verdict found another limit breached (velocity, gross notional); and once no
\* fill is under way, if the engine has it over the cap.  This is through fills
\* and orders in any order, refusals, events given twice, crashes of the gateway
\* and losses of order events and signals.  The exceptions: the verdict on the
\* account's last fill did not get out, or was followed by an older one (missed),
\* until the next verdict; for the engine's position, one of its fills was lost
\* or counted twice before (astray), which nothing mends; its last signal is
\* about an anomaly, or it has none since the gateway started.
GateFollowsExposure ==
  \A a \in Accounts :
    (signals[a] = <<>> /\ ~missed[a] /\ gate[a].kind = "exposure") =>
      /\ Blocked(a) <=> (Over(riskPos[a]) \/ gate[a].other)
      /\ (trades = <<>> /\ ~astray[a]) => (Blocked(a) <=> (Over(pos[a]) \/ gate[a].other))

\* A refused attempt brings its account a new verdict, unless its event, the
\* verdict or the gateway is lost on the way: for an account with nothing in the
\* book its own attempts are all that gets it judged again (handleSubmit's
\* blocked branch publishes; risksignal.go: the next ALLOW clears the block).
RefusedIsRejudged == \A a \in Clients : owed[a] ~> ~owed[a]

\* A shutdown that drains in time throws away no event of an answered order:
\* requests end before the publisher closes, and it flushes before the exit.
DrainedOrdersPublished == ~forced => ~discarded

\* What orderfeed.go says of the feed: "publishes an OrderEvent ... for every
\* order the gateway processes": a handler whose order the engine has run ends by
\* giving the feed its event, as long as the gateway is up.
OrdersReachFeed ==
  [][\A h \in Handlers : (At(h, "ran") /\ req'[h] = None /\ life' = "up") =>
       Len(outbox'[req[h].account]) > Len(outbox[req[h].account])]_vars
=============================================================================
