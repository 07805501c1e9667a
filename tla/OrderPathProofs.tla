--------------------------- MODULE OrderPathProofs ---------------------------
(***************************************************************************)
(* The gateway's shutdown, its order events and the risk loop, for any      *)
(* number of requests, accounts, stops and crashes.  That a clean shutdown  *)
(* throws no event away is inductive only with the reason: once the drain   *)
(* has ended by itself no handler waits for the engine any more, and none   *)
(* can start.  That the gate follows the exposure needs two reasons: the    *)
(* youngest verdict on an account, unless a later one did not get out, was  *)
(* passed on the position the risk service has of it now; and that position *)
(* and the engine's, unless a fill of the account was lost or read twice,   *)
(* are the two ends of one chain of fills, the ones under way.              *)
(***************************************************************************)
EXTENDS OrderPath, FiniteSetTheorems, TLAPS

Statuses == {"ACCEPTED", "PARTIALLY_FILLED", "FILLED", "CANCELLED", "REJECTED"}
OrderRec == [step : {"call", "ran", "late"}, account : Accounts, side : {"BUY", "SELL", "other"},
             cancel : BOOLEAN, status : Statuses \union {None}]

ReqInv ==
  /\ req \in [Handlers -> OrderRec \union {None}]
  /\ \A h \in Handlers : At(h, "ran") => req[h].status \in Statuses

DrainInv ==
  /\ (life \in {"closing", "closed"} /\ ~forced) => Drained
  /\ ~forced => ~discarded

PathInv == ReqInv /\ DrainInv

\* What the handlers hold after one of them moves.
LEMMA GotoOne ==
  ASSUME ReqInv, NEW h \in Handlers, NEW r, Goto(h, r)
  PROVE  /\ req'[h] = r
         /\ \A g \in Handlers : g # h => req'[g] = req[g]
         /\ r \in OrderRec \union {None} => req' \in [Handlers -> OrderRec \union {None}]
  BY DEF ReqInv, Goto

\* A handler that moves keeps both invariants if it comes to hold nothing that
\* waits, or if the drain has not ended.
LEMMA MoveKeeps ==
  ASSUME ReqInv, DrainInv, NEW h \in Handlers, NEW r \in OrderRec \union {None}, Goto(h, r),
         (r # None /\ r.step = "ran") => r.status \in Statuses,
         UNCHANGED <<life, forced, discarded>>,
         (r = None \/ r.step = "late") \/ life \notin {"closing", "closed"} \/ At(h, "call")
  PROVE  PathInv'
<1>1. /\ req'[h] = r
      /\ \A g \in Handlers : g # h => req'[g] = req[g]
      /\ req' \in [Handlers -> OrderRec \union {None}]
  BY GotoOne
<1>2. ReqInv'
  BY <1>1 DEF ReqInv, At
<1>3. DrainInv'
  <2> SUFFICES ASSUME life \in {"closing", "closed"}, ~forced PROVE Drained'
    BY DEF DrainInv
  <2>1. \A g \in Handlers : req[g] = None \/ At(g, "late")
    BY DEF DrainInv, Drained
  <2>2. ~At(h, "call")
    BY <2>1 DEF At
  <2>3. r = None \/ r.step = "late"
    BY <2>2
  <2> QED  BY <1>1, <2>1, <2>3 DEF Drained, At
<1> QED  BY <1>2, <1>3 DEF PathInv

\* Handlers and the engine keep the invariant.
LEMMA HandlerSteps ==
  ASSUME PathInv, NEW h \in Handlers, EngineRun(h) \/ Answer(h) \/ GiveUp(h) \/ LateRun(h)
  PROVE  PathInv'
<1>0. ReqInv /\ DrainInv /\ (req[h] = None \/ req[h] \in OrderRec)
  BY DEF PathInv, ReqInv
<1>1. ASSUME EngineRun(h) PROVE PathInv'
  <2>1. PICK status \in Outcomes(req[h]) : Goto(h, [req[h] EXCEPT !.step = "ran", !.status = status])
    BY <1>1 DEF EngineRun
  <2>2. status \in Statuses /\ At(h, "call") /\ req[h] \in OrderRec /\ UNCHANGED <<life, forced, discarded>>
    BY <1>0, <1>1 DEF EngineRun, Outcomes, Statuses, At
  <2>3. [req[h] EXCEPT !.step = "ran", !.status = status] \in OrderRec
        /\ [req[h] EXCEPT !.step = "ran", !.status = status].status = status
    BY <2>2 DEF OrderRec
  <2> QED  BY <1>0, <2>1, <2>2, <2>3, MoveKeeps
<1>2. ASSUME Answer(h) PROVE PathInv'
  <2>1. req'[h] = None /\ (\A g \in Handlers : g # h => req'[g] = req[g])
        /\ req' \in [Handlers -> OrderRec \union {None}] /\ UNCHANGED <<life, forced>>
    BY <1>0, <1>2, GotoOne DEF Answer
  <2>2. At(h, "ran") /\ discarded' = (discarded \/ life = "closed")
    BY <1>2 DEF Answer, Publish
  <2>3. ~Drained
    BY <2>2 DEF Drained, At
  <2>4. ~forced => life \notin {"closing", "closed"}
    BY <1>0, <2>3 DEF DrainInv
  <2>5. ReqInv'
    BY <1>0, <2>1 DEF ReqInv, At
  <2>6. DrainInv'
    BY <1>0, <2>1, <2>2, <2>4 DEF DrainInv
  <2> QED  BY <2>5, <2>6 DEF PathInv
<1>3. ASSUME GiveUp(h) PROVE PathInv'
  <2>1. req[h] \in OrderRec /\ UNCHANGED <<life, forced, discarded>>
    BY <1>0, <1>3 DEF GiveUp, At
  <2>2. [req[h] EXCEPT !.step = "late"] \in OrderRec /\ [req[h] EXCEPT !.step = "late"].step = "late"
    BY <2>1 DEF OrderRec
  <2>3. CASE Goto(h, None)
    BY <1>0, <2>1, <2>3, MoveKeeps
  <2>4. CASE Goto(h, [req[h] EXCEPT !.step = "late"])
    BY <1>0, <2>1, <2>2, <2>4, MoveKeeps
  <2> QED  BY <1>3, <2>3, <2>4 DEF GiveUp
<1>4. ASSUME LateRun(h) PROVE PathInv'
  <2>1. Goto(h, None) /\ UNCHANGED <<life, forced, discarded>>
    BY <1>4 DEF LateRun
  <2> QED  BY <1>0, <2>1, MoveKeeps
<1> QED  BY <1>1, <1>2, <1>3, <1>4

\* New requests come in only while the drain has not begun.
LEMMA ClientSteps ==
  ASSUME PathInv, NEW h \in Handlers, NEW a \in Clients, Clients \subseteq Accounts,
         Cancel(h, a) \/ \E side \in {"BUY", "SELL", "other"} : Submit(h, a, side)
  PROVE  PathInv'
<1>0. ReqInv /\ DrainInv
  BY DEF PathInv
<1>1. ASSUME NEW side \in {"BUY", "SELL", "other"}, NEW c \in BOOLEAN
      PROVE  Order("call", a, side, c) \in OrderRec /\ Order("call", a, side, c).step = "call"
  BY DEF Order, OrderRec
<1>2. ASSUME Cancel(h, a) PROVE PathInv'
  <2>1. Goto(h, Order("call", a, "BUY", TRUE)) /\ UNCHANGED <<life, forced, discarded>> /\ life = "up"
    BY <1>2 DEF Cancel
  <2> QED  BY <1>0, <1>1, <2>1, MoveKeeps
<1>3. ASSUME NEW side \in {"BUY", "SELL", "other"}, Submit(h, a, side) PROVE PathInv'
  <2>1. life = "up" /\ UNCHANGED <<life, forced>>
    BY <1>3 DEF Submit
  <2>2. CASE Blocked(a)
    <3>1. UNCHANGED req /\ discarded' = (discarded \/ life = "closed")
      BY <1>3, <2>2 DEF Submit, PublishRefused, Publish
    <3>2. ReqInv'
      BY <1>0, <3>1 DEF ReqInv, At
    <3>3. DrainInv'
      BY <1>0, <2>1, <3>1 DEF DrainInv
    <3> QED  BY <3>2, <3>3 DEF PathInv
  <2>3. CASE ~Blocked(a)
    <3>1. Goto(h, Order("call", a, side, FALSE)) /\ UNCHANGED discarded
      BY <1>3, <2>3 DEF Submit
    <3> QED  BY <1>0, <1>1, <2>1, <3>1, MoveKeeps
  <2> QED  BY <2>2, <2>3
<1> QED  BY <1>2, <1>3

\* The process goes: at most the calls the engine still has are left.
LEMMA GoneReq ==
  ASSUME ReqInv, Gone
  PROVE  ReqInv' /\ life' = "down"
<1>1. PICK kept \in BOOLEAN :
        req' = [h \in Handlers |-> IF At(h, "late") \/ (At(h, "call") /\ kept)
                                     THEN [req[h] EXCEPT !.step = "late"] ELSE None]
  BY DEF Gone
<1>2. ASSUME NEW h \in Handlers, req[h] # None
      PROVE  [req[h] EXCEPT !.step = "late"] \in OrderRec /\ [req[h] EXCEPT !.step = "late"].step = "late"
  <2>1. req[h] \in OrderRec
    BY <1>2 DEF ReqInv
  <2> QED  BY <2>1 DEF OrderRec
<1>3. \A h \in Handlers : req'[h] = None \/ (req'[h] \in OrderRec /\ req'[h].step = "late")
  BY <1>1, <1>2 DEF At
<1>4. req' \in [Handlers -> OrderRec \union {None}]
  BY <1>1, <1>3
<1>5. \A h \in Handlers : ~At(h, "ran")'
  BY <1>3 DEF At
<1> QED  BY <1>4, <1>5 DEF ReqInv, Gone

\* main keeps it: the drain ends by itself only when no handler waits.
LEMMA MainSteps ==
  ASSUME PathInv, Stop \/ Crash \/ Main
  PROVE  PathInv'
<1>0. ReqInv /\ DrainInv
  BY DEF PathInv
<1>1. ASSUME Stop \/ ClosePublisher \/ EndDrain \/ Restart PROVE PathInv'
  <2>1. UNCHANGED req
    BY <1>1 DEF Stop, ClosePublisher, EndDrain, Restart
  <2>2. ReqInv'
    BY <1>0, <2>1 DEF ReqInv, At
  <2>3. Drained' <=> Drained
    BY <2>1 DEF Drained, At
  <2>4. DrainInv'
    BY <1>0, <1>1, <2>3 DEF DrainInv, Stop, ClosePublisher, EndDrain, Restart
  <2> QED  BY <2>2, <2>4 DEF PathInv
<1>2. ASSUME Crash \/ Exit PROVE PathInv'
  <2>1. ReqInv' /\ life' = "down" /\ UNCHANGED discarded
    BY <1>0, <1>2, GoneReq DEF Crash, Exit
  <2>2. forced' = forced \/ forced' = TRUE
    BY <1>2 DEF Crash, Exit
  <2>3. DrainInv'
    BY <1>0, <2>1, <2>2 DEF DrainInv
  <2> QED  BY <2>1, <2>3 DEF PathInv
<1> QED  BY <1>1, <1>2 DEF Main

\* Every step keeps the invariant.
LEMMA NextKeeps == PathInv /\ [Next]_vars => PathInv'
<1> SUFFICES ASSUME PathInv, [Next]_vars PROVE PathInv'
  OBVIOUS
<1>1. CASE UNCHANGED <<req, life, forced, discarded>>
  BY <1>1 DEF PathInv, ReqInv, DrainInv, Drained, At
<1>2. ASSUME NEW h \in Handlers, EngineRun(h) \/ Answer(h) \/ GiveUp(h) \/ LateRun(h) PROVE PathInv'
  BY <1>2, HandlerSteps
<1>3. ASSUME NEW h \in Handlers, NEW a \in Clients,
             Cancel(h, a) \/ \E side \in {"BUY", "SELL", "other"} : Submit(h, a, side)
      PROVE  PathInv'
  BY <1>3, ClientSteps, PathAssumption
<1>4. CASE Stop \/ Crash \/ Main
  BY <1>4, MainSteps
<1> QED
  BY <1>1, <1>2, <1>3, <1>4
  DEF Next, Flush, RiskOrder, Apply, Age, Resend, RiskTrade, ScoreOrder, vars, gatewayVars

\* The invariant holds at the start.
LEMMA InitKeeps == Init => PathInv
  BY DEF Init, PathInv, ReqInv, DrainInv, At

\* A shutdown whose drain ends in time throws away no event of an answered order,
\* whatever requests, stops and crashes came before (main's Shutdown, then the
\* deferred Close of the publisher).
THEOREM DrainPublishes == Spec => []DrainedOrdersPublished
<1>1. PathInv => DrainedOrdersPublished
  BY DEF PathInv, DrainInv, DrainedOrdersPublished
<1> QED  BY <1>1, InitKeeps, NextKeeps, PTL DEF Spec

\* An order event carries the engine's answer and side through fromProtoStatus,
\* protoStatus and protoSide, for every order that can be answered.
THEOREM EventsTrue == Spec => []EventsTellTheTruth
<1>1. PathInv => EventsTellTheTruth
  BY DEF PathInv, ReqInv, EventsTellTheTruth, Event, fromProtoStatus, protoStatus, protoSide,
         toProtoSide, Statuses
<1> QED  BY <1>1, InitKeeps, NextKeeps, PTL DEF Spec
-----------------------------------------------------------------------------
\* The risk loop.

\* Fills the engine can report: two accounts, never one with itself.
Trades == {t \in [buyer : Accounts, seller : Accounts] : t.buyer # t.seller}

\* What the queues of the loop hold.
FlowTyped ==
  /\ outbox \in [Accounts -> Seq(Events)] /\ orders \in [Accounts -> Seq(Events)]
  /\ signals \in [Accounts -> Seq(Signals)]
  /\ gate \in [Accounts -> Signals \union {Unjudged}]
  /\ recent \in [Accounts -> 0..(VelocityCap + 1)]
  /\ pos \in [Accounts -> Int] /\ riskPos \in [Accounts -> Int]
  /\ missed \in [Accounts -> BOOLEAN] /\ astray \in [Accounts -> BOOLEAN]
  /\ trades \in Seq(Trades) /\ sent \in Nat /\ extras \in Nat

\* No handler outlives the process.
LifeInv ==
  /\ life \in {"up", "draining", "closing", "closed", "down"}
  /\ \A h \in Handlers : At(h, "call") \/ At(h, "ran") => life # "down"

\* The last word on an account: the youngest signal still under way, or the one applied.
LastVerdict(a) == IF signals[a] = <<>> THEN gate[a] ELSE signals[a][Len(signals[a])]

\* A last word on an account's exposure is about the position the risk service has
\* now, if the verdict on the account's last fill got out.
SaysTrue(a) ==
  (~missed[a] /\ LastVerdict(a).kind = "exposure") =>
    (LastVerdict(a).action = "REJECT" <=> Over(riskPos[a]) \/ LastVerdict(a).other)
VerdictsCurrent == \A a \in Accounts : SaysTrue(a)

\* What a fill does to an account's position.
Delta(t, a) == IF t.buyer = a THEN 1 ELSE IF t.seller = a THEN -1 ELSE 0
\* P leads from one position of an account to another through the fills ts.
Explains(P, low, ts, high, a) ==
  /\ P \in [0..Len(ts) -> Int] /\ P[0] = low /\ P[Len(ts)] = high
  /\ \A n \in 1..Len(ts) : P[n] = P[n - 1] + Delta(ts[n], a)

\* Calls that may still make the engine book a fill.
Busy == {h \in Handlers : At(h, "call") \/ At(h, "late")}
Within(x, k) == -k <= x /\ x <= k
\* Orders the engine is done with; and fills the risk service can have read.
Done == sent - Cardinality(Busy)
Readable == Done + extras - Len(trades)
\* Every fill had an order of its own, every fill read more than once an extra event.
Bounded == \A a \in Accounts : Within(pos[a], Done) /\ Within(riskPos[a], Readable)
\* The fills the risk service has yet to read lead from its position of an account to
\* the engine's, if none of the account's fills went astray.
Booked ==
  \A a \in Accounts : ~astray[a] => \E P : Explains(P, riskPos[a], trades, pos[a], a)

\* The inductive invariant of the loop, beside PathInv.
LoopInv == FlowTyped /\ LifeInv /\ VerdictsCurrent /\ Bounded /\ Booked

\* A verdict rejects for the position it was passed on, or for another limit.
LEMMA VerdictSays ==
  ASSUME NEW p \in Int, NEW n \in Int, NEW heavy \in BOOLEAN, NEW b \in BOOLEAN
  PROVE  /\ Verdict(p, n, heavy, b) \in Signals
         /\ Verdict(p, n, heavy, b).action = "REJECT"
              <=> Over(p) \/ Verdict(p, n, heavy, b).other
<1>1. PICK other \in BOOLEAN : other <=> ~Over(p) /\ Breach(p, n, heavy)
  OBVIOUS
<1>2. other = (~Over(p) /\ Breach(p, n, heavy))
  BY <1>1
<1>3. PICK action \in {"ALLOW", "REJECT"} : action = IF Breach(p, n, heavy) THEN "REJECT" ELSE "ALLOW"
  OBVIOUS
<1>4. Verdict(p, n, heavy, b) = [kind |-> "exposure", action |-> action, other |-> other, about |-> b]
  BY <1>2, <1>3 DEF Verdict
<1>5. action = "REJECT" <=> Over(p) \/ other
  BY <1>1, <1>3 DEF Breach
<1>6. Verdict(p, n, heavy, b) \in Signals
  BY <1>4 DEF Signals
<1>7. Verdict(p, n, heavy, b).action = action /\ Verdict(p, n, heavy, b).other = other
  BY <1>4
<1> QED  BY <1>5, <1>6, <1>7

\* The order count is capped one past the limit.
LEMMA CountedIn ==
  ASSUME NEW n \in 0..(VelocityCap + 1)
  PROVE  Counted(n) \in 0..(VelocityCap + 1)
  BY PathAssumption DEF Counted

\* Taking from a queue.
LEMMA TailIn ==
  ASSUME NEW S, NEW s \in Seq(S), s # <<>>
  PROVE  /\ Head(s) \in S /\ Tail(s) \in Seq(S) /\ Len(s) \in Nat /\ Len(s) >= 1
         /\ Len(Tail(s)) = Len(s) - 1 /\ Head(s) = s[1]
         /\ \A n \in 1..(Len(s) - 1) : Tail(s)[n] = s[n + 1]
  OBVIOUS

\* Adding to a queue.
LEMMA AppendIn ==
  ASSUME NEW S, NEW s \in Seq(S), NEW e \in S
  PROVE  /\ Append(s, e) \in Seq(S) /\ Append(s, e) # <<>>
         /\ Len(s) \in Nat /\ Len(Append(s, e)) = Len(s) + 1
         /\ Append(s, e)[Len(s) + 1] = e
         /\ \A n \in 1..Len(s) : Append(s, e)[n] = s[n]
  OBVIOUS

\* One message less.
LEMMA RemoveIn ==
  ASSUME NEW S, NEW s \in Seq(S), NEW i \in 1..Len(s)
  PROVE  /\ RemoveAt(s, i) \in Seq(S) /\ Len(s) \in Nat /\ Len(RemoveAt(s, i)) = Len(s) - 1
         /\ \A n \in 1..(Len(s) - 1) : RemoveAt(s, i)[n] = IF n < i THEN s[n] ELSE s[n + 1]
<1>1. PICK l \in Nat : l = Len(s)
  OBVIOUS
<1>2. PICK u : u = SubSeq(s, 1, i - 1)
  OBVIOUS
<1>3. PICK v : v = SubSeq(s, i + 1, Len(s))
  OBVIOUS
<1>4. u \in Seq(S) /\ Len(u) = i - 1 /\ \A n \in 1..(i - 1) : u[n] = s[n]
  BY <1>1, <1>2
<1>5. v \in Seq(S) /\ Len(v) = l - i /\ \A n \in 1..(l - i) : v[n] = s[i + n]
  BY <1>1, <1>3
<1>6. RemoveAt(s, i) = u \o v
  BY <1>2, <1>3 DEF RemoveAt
<1>7. u \o v \in Seq(S) /\ Len(u \o v) = l - 1
  <2>0. u \in Seq(S) /\ v \in Seq(S)
    BY <1>4, <1>5
  <2>1. u \o v \in Seq(S) /\ Len(u \o v) = Len(u) + Len(v)
    BY <2>0
  <2>2. (i - 1) + (l - i) = l - 1
    BY <1>1
  <2> QED  BY <1>4, <1>5, <2>1, <2>2
<1>8. ASSUME NEW n \in 1..(l - 1) PROVE (u \o v)[n] = IF n < i THEN s[n] ELSE s[n + 1]
  <2>1. CASE n < i
    BY <1>1, <1>4, <1>5, <2>1
  <2>2. CASE ~(n < i)
    <3>1. n - (i - 1) \in 1..(l - i) /\ i + (n - (i - 1)) = n + 1
      BY <1>1, <2>2
    <3>2. (u \o v)[n] = v[n - (i - 1)]
      BY <1>1, <1>4, <1>5, <2>2
    <3> QED  BY <1>5, <2>2, <3>1, <3>2
  <2> QED  BY <2>1, <2>2
<1> QED  BY <1>1, <1>6, <1>7, <1>8

\* A fill that goes astray does so for the accounts it moves.
LEMMA StrayOnly ==
  ASSUME FlowTyped, NEW t \in Trades, Stray(t)
  PROVE  /\ astray' \in [Accounts -> BOOLEAN]
         /\ \A a \in Accounts : ~astray'[a] => ~astray[a] /\ Delta(t, a) = 0
<1>1. t.buyer \in Accounts /\ t.seller \in Accounts /\ astray \in [Accounts -> BOOLEAN]
  BY DEF Trades, FlowTyped
<1> QED  BY <1>1 DEF Stray, Delta

\* The engine runs an order: nothing, or one fill in both positions, on its way to
\* the risk service or lost.
LEMMA RunTypes ==
  ASSUME FlowTyped, NEW r, r.account \in Accounts, NEW status, Run(r, status)
  PROVE  /\ pos' \in [Accounts -> Int] /\ trades' \in Seq(Trades) /\ astray' \in [Accounts -> BOOLEAN]
         /\ \/ UNCHANGED <<pos, trades, astray>>
            \/ \E t \in Trades :
                 /\ \/ trades' = Append(trades, t) /\ UNCHANGED astray
                    \/ UNCHANGED trades /\ Stray(t)
                 /\ \A a \in Accounts : pos'[a] = pos[a] + Delta(t, a)
<1>0. pos \in [Accounts -> Int] /\ trades \in Seq(Trades) /\ astray \in [Accounts -> BOOLEAN]
  BY DEF FlowTyped
<1>1. CASE status \in {"PARTIALLY_FILLED", "FILLED"}
  <2>1. PICK c \in Accounts \ {r.account} :
          LET t == IF toProtoSide(r.side) = "BUY" THEN [buyer |-> r.account, seller |-> c]
                   ELSE [buyer |-> c, seller |-> r.account]
          IN /\ pos' = [pos EXCEPT ![t.buyer] = @ + 1, ![t.seller] = @ - 1]
             /\ \/ trades' = Append(trades, t) /\ UNCHANGED astray
                \/ UNCHANGED trades /\ Stray(t)
    BY <1>1 DEF Run
  <2>2. PICK t : t = IF toProtoSide(r.side) = "BUY" THEN [buyer |-> r.account, seller |-> c]
                   ELSE [buyer |-> c, seller |-> r.account]
    OBVIOUS
  <2>3. t \in Trades
    BY <2>1, <2>2 DEF Trades
  <2>4. /\ pos' = [pos EXCEPT ![t.buyer] = @ + 1, ![t.seller] = @ - 1]
        /\ \/ trades' = Append(trades, t) /\ UNCHANGED astray
           \/ UNCHANGED trades /\ Stray(t)
    BY <2>1, <2>2
  <2>5. t.buyer \in Accounts /\ t.seller \in Accounts /\ t.buyer # t.seller
    BY <2>3 DEF Trades
  <2>6. \A a \in Accounts : pos'[a] = pos[a] + Delta(t, a)
    BY <1>0, <2>4, <2>5 DEF Delta
  <2>7. pos' \in [Accounts -> Int]
    BY <1>0, <2>4, <2>5
  <2>8. trades' \in Seq(Trades)
    <3>1. Append(trades, t) \in Seq(Trades)
      BY <1>0, <2>3, AppendIn
    <3> QED  BY <1>0, <2>4, <3>1
  <2>9. astray' \in [Accounts -> BOOLEAN]
    BY <1>0, <2>3, <2>4, StrayOnly
  <2> QED  BY <2>3, <2>4, <2>6, <2>7, <2>8, <2>9
<1>2. CASE status \notin {"PARTIALLY_FILLED", "FILLED"}
  BY <1>0, <1>2 DEF Run, engineVars
<1> QED  BY <1>1, <1>2

\* The risk service reads a fill, once or not for the last time: every position moves
\* by it, and an account whose position moves is judged on the new one, or marked as
\* one whose verdict did not get out.
LEMMA ReadTrade ==
  ASSUME FlowTyped, RiskTrade
  PROVE  \E i \in 1..Len(trades) :
         /\ trades[i] \in Trades
         /\ riskPos' \in [Accounts -> Int]
         /\ \A a \in Accounts : riskPos'[a] = riskPos[a] + Delta(trades[i], a)
         /\ signals' \in [Accounts -> Seq(Signals)] /\ missed' \in [Accounts -> BOOLEAN]
         /\ \A a \in Accounts :
              \/ signals'[a] = signals[a] /\ riskPos'[a] = riskPos[a] /\ missed'[a] = missed[a]
              \/ missed'[a]
              \/ \E n \in Int, heavy \in BOOLEAN :
                   signals'[a] = Append(signals[a], Verdict(riskPos'[a], n, heavy, FALSE))
         /\ \/ trades' = RemoveAt(trades, i) /\ UNCHANGED <<astray, extras>>
            \/ UNCHANGED trades /\ Stray(trades[i]) /\ extras' = extras + 1
<1>0. riskPos \in [Accounts -> Int] /\ trades \in Seq(Trades) /\ signals \in [Accounts -> Seq(Signals)]
      /\ missed \in [Accounts -> BOOLEAN]
  BY DEF FlowTyped
<1>1. PICK i \in DOMAIN trades :
        /\ riskPos' = ApplyTrade(trades[i])
        /\ \E told \in SUBSET Affected(trades[i]) :
             /\ \E heavy \in SUBSET {a \in told : MayBeHeavy(ApplyTrade(trades[i])[a])} :
                  signals' = [a \in Accounts |-> IF a \in told
                    THEN Append(signals[a], Verdict(ApplyTrade(trades[i])[a], recent[a], a \in heavy, FALSE))
                    ELSE signals[a]]
             /\ missed' = [a \in Accounts |-> (missed[a] \/ a \in Affected(trades[i])) /\ a \notin told]
        /\ \/ trades' = RemoveAt(trades, i) /\ UNCHANGED <<astray, extras>>
           \/ Extra /\ UNCHANGED trades /\ Stray(trades[i])
  BY DEF RiskTrade
<1>2. PICK t : t = trades[i]
  OBVIOUS
<1>3. i \in 1..Len(trades) /\ t \in Trades
  BY <1>0, <1>2
<1>4. t.buyer \in Accounts /\ t.seller \in Accounts /\ t.buyer # t.seller
  BY <1>3 DEF Trades
<1>5. riskPos' = [riskPos EXCEPT ![t.buyer] = @ + 1, ![t.seller] = @ - 1]
  BY <1>1, <1>2 DEF ApplyTrade
<1>6. PICK told \in SUBSET Affected(trades[i]) :
        /\ \E heavy \in SUBSET {a \in told : MayBeHeavy(ApplyTrade(trades[i])[a])} :
             signals' = [a \in Accounts |-> IF a \in told
               THEN Append(signals[a], Verdict(ApplyTrade(trades[i])[a], recent[a], a \in heavy, FALSE))
               ELSE signals[a]]
        /\ missed' = [a \in Accounts |-> (missed[a] \/ a \in Affected(trades[i])) /\ a \notin told]
  BY <1>1, Zenon
<1>7. PICK heavy :
        signals' = [a \in Accounts |-> IF a \in told
          THEN Append(signals[a], Verdict(ApplyTrade(trades[i])[a], recent[a], a \in heavy, FALSE))
          ELSE signals[a]]
  BY <1>6, Zenon
<1>8. /\ told \in SUBSET Affected(t)
      /\ signals' = [a \in Accounts |-> IF a \in told
           THEN Append(signals[a], Verdict(riskPos'[a], recent[a], a \in heavy, FALSE)) ELSE signals[a]]
      /\ missed' = [a \in Accounts |-> (missed[a] \/ a \in Affected(t)) /\ a \notin told]
  <2>1. riskPos' = ApplyTrade(trades[i])
    BY <1>1
  <2> QED  BY <1>2, <1>6, <1>7, <2>1, Zenon
<1>9. riskPos' \in [Accounts -> Int]
  BY <1>0, <1>4, <1>5
<1>10. \A a \in Accounts : riskPos'[a] = riskPos[a] + Delta(t, a)
  BY <1>0, <1>4, <1>5 DEF Delta
<1>11. ASSUME NEW a \in Accounts
      PROVE  /\ signals'[a] \in Seq(Signals)
             /\ \/ signals'[a] = signals[a] /\ riskPos'[a] = riskPos[a] /\ missed'[a] = missed[a]
                \/ missed'[a]
                \/ \E n \in Int, hv \in BOOLEAN :
                     signals'[a] = Append(signals[a], Verdict(riskPos'[a], n, hv, FALSE))
  <2>1. CASE a \in told
    <3>0. PICK hv \in BOOLEAN : hv <=> a \in heavy
      OBVIOUS
    <3>1. hv = (a \in heavy)
      BY <3>0
    <3>2. signals'[a] = Append(signals[a], Verdict(riskPos'[a], recent[a], hv, FALSE))
      BY <1>8, <2>1, <3>1
    <3>3. riskPos'[a] \in Int /\ recent[a] \in Int
      BY <1>9, PathAssumption DEF FlowTyped
    <3>4. Verdict(riskPos'[a], recent[a], hv, FALSE) \in Signals
      BY <3>3, VerdictSays
    <3>5. signals[a] \in Seq(Signals)
      BY <1>0
    <3>6. Append(signals[a], Verdict(riskPos'[a], recent[a], hv, FALSE)) \in Seq(Signals)
      BY <3>4, <3>5, AppendIn
    <3>7. \E n \in Int, hw \in BOOLEAN :
            signals'[a] = Append(signals[a], Verdict(riskPos'[a], n, hw, FALSE))
      BY <3>2, <3>3
    <3>8. signals'[a] \in Seq(Signals)
      BY <3>2, <3>6
    <3> QED  BY <3>7, <3>8
  <2>2. CASE a \notin told /\ a \in Affected(t)
    <3>1. signals'[a] = signals[a] /\ missed'[a]
      BY <1>8, <2>2
    <3> QED  BY <1>0, <3>1
  <2>3. CASE a \notin Affected(t)
    <3>1. a \notin told
      BY <1>8, <2>3
    <3>2. signals'[a] = signals[a] /\ (missed'[a] <=> missed[a])
      BY <1>8, <2>3, <3>1
    <3>3. missed'[a] = missed[a]
      BY <1>0, <1>8, <3>1, <2>3
    <3>4. riskPos'[a] = riskPos[a]
      BY <1>0, <1>4, <1>5, <2>3 DEF Affected
    <3> QED  BY <1>0, <3>2, <3>3, <3>4
  <2> QED  BY <2>1, <2>2, <2>3
<1>12. signals' \in [Accounts -> Seq(Signals)] /\ missed' \in [Accounts -> BOOLEAN]
  BY <1>8, <1>11
<1>13. \/ trades' = RemoveAt(trades, i) /\ UNCHANGED <<astray, extras>>
       \/ UNCHANGED trades /\ Stray(t) /\ extras' = extras + 1
  BY <1>1, <1>2 DEF Extra
<1> QED  BY <1>2, <1>3, <1>9, <1>10, <1>11, <1>12, <1>13

\* What becomes of the last word on an account when its queue or its gate moves.
LEMMA LastOne ==
  ASSUME FlowTyped, NEW a \in Accounts
  PROVE  /\ \A v \in Signals : signals'[a] = Append(signals[a], v) => LastVerdict(a)' = v
         /\ (signals'[a] = signals[a] /\ gate'[a] = gate[a]) => LastVerdict(a)' = LastVerdict(a)
         /\ (/\ signals[a] # <<>> /\ signals'[a] = Tail(signals[a])
             /\ gate'[a] = Head(signals[a])) => LastVerdict(a)' = LastVerdict(a)
         /\ (signals'[a] = signals[a] /\ gate'[a] = Unjudged)
               => LastVerdict(a)' \in {LastVerdict(a), Unjudged}
         /\ (signals[a] # <<>> /\ signals'[a] = Tail(signals[a]) /\ gate'[a] = Unjudged)
               => LastVerdict(a)' \in {LastVerdict(a), Unjudged}
<1>0. signals[a] \in Seq(Signals)
  BY DEF FlowTyped
<1>1. ASSUME NEW v \in Signals, signals'[a] = Append(signals[a], v) PROVE LastVerdict(a)' = v
  BY <1>0, <1>1, AppendIn DEF LastVerdict
<1>2. ASSUME signals[a] # <<>>, signals'[a] = Tail(signals[a])
      PROVE  /\ signals'[a] = <<>> => LastVerdict(a) = Head(signals[a])
             /\ signals'[a] # <<>> => LastVerdict(a)' = LastVerdict(a)
  <2>1. PICK s \in Seq(Signals) : s = signals[a]
    BY <1>0
  <2>2. /\ Head(s) = s[1] /\ Len(s) \in Nat /\ Len(s) >= 1 /\ Len(Tail(s)) = Len(s) - 1
        /\ Tail(s) \in Seq(Signals)
        /\ \A n \in 1..(Len(s) - 1) : Tail(s)[n] = s[n + 1]
    BY <1>2, <2>1, TailIn
  <2>3. CASE Tail(s) = <<>>
    <3>0. Len(<<>>) = 0
      OBVIOUS
    <3>1. Len(Tail(s)) = 0
      BY <2>3, <3>0, Zenon
    <3>2. PICK m : m = Len(s)
      OBVIOUS
    <3>3. m \in Nat /\ m - 1 = 0
      BY <2>2, <3>1, <3>2
    <3>4. m = 1
      BY <3>3
    <3>5. Len(s) = 1
      BY <3>2, <3>4, Zenon
    <3> QED  BY <1>2, <2>1, <2>2, <2>3, <3>5 DEF LastVerdict
  <2>4. CASE Tail(s) # <<>>
    <3>1. Len(Tail(s)) >= 1
      BY <2>2, <2>4, TailIn
    <3>2. Tail(s)[Len(Tail(s))] = s[Len(s)]
      BY <2>2, <3>1
    <3> QED  BY <1>2, <2>1, <2>4, <3>2 DEF LastVerdict
  <2> QED  BY <1>2, <2>1, <2>3, <2>4
<1> QED  BY <1>1, <1>2 DEF LastVerdict

\* A fill moves a position by a lot at most.
LEMMA DeltaIn == ASSUME NEW t, NEW a PROVE Delta(t, a) \in {-1, 0, 1}
  BY DEF Delta

\* One more fill at the end of the tape.
LEMMA ExplainsAppend ==
  ASSUME NEW ts \in Seq(Trades), NEW t \in Trades, NEW P, NEW low, NEW high, NEW a,
         Explains(P, low, ts, high, a)
  PROVE  \E Q : Explains(Q, low, Append(ts, t), high + Delta(t, a), a)
<1>1. PICK us : us = Append(ts, t)
  OBVIOUS
<1>2. PICK l \in Nat : l = Len(ts)
  OBVIOUS
<1>3. Len(us) = l + 1 /\ us[l + 1] = t /\ \A n \in 1..l : us[n] = ts[n]
  BY <1>1, <1>2, AppendIn
<1>4. PICK d : d = Delta(t, a)
  OBVIOUS
<1>5. d \in -1..1
  BY <1>4, DeltaIn
<1>6. /\ P \in [0..l -> Int] /\ P[0] = low /\ P[l] = high
      /\ \A n \in 1..l : P[n] = P[n - 1] + Delta(ts[n], a)
  BY <1>2 DEF Explains
<1>7. PICK Q : Q = [n \in 0..(l + 1) |-> IF n = l + 1 THEN high + d ELSE P[n]]
  OBVIOUS
<1>8. high \in Int
  BY <1>6
<1>9. Q[l + 1] = high + d /\ \A n \in 0..l : Q[n] = P[n]
  BY <1>7
<1>10. Q \in [0..(l + 1) -> Int]
  BY <1>5, <1>6, <1>7, <1>8
<1>11. Q[0] = low
  BY <1>6, <1>9
<1>12. ASSUME NEW n \in 1..(l + 1) PROVE Q[n] = Q[n - 1] + Delta(us[n], a)
  <2>1. CASE n = l + 1
    <3>1. Q[n] = high + d /\ n - 1 = l /\ Q[l] = high
      BY <1>6, <1>9, <2>1
    <3>2. Delta(us[n], a) = d
      BY <1>3, <1>4, <2>1
    <3> QED  BY <3>1, <3>2
  <2>2. CASE n # l + 1
    <3>1. n \in 1..l /\ n \in 0..l /\ n - 1 \in 0..l
      BY <2>2
    <3>2. Q[n] = P[n] /\ Q[n - 1] = P[n - 1] /\ us[n] = ts[n]
      BY <1>3, <1>9, <3>1
    <3> QED  BY <1>6, <3>1, <3>2
  <2> QED  BY <2>1, <2>2
<1>13. Explains(Q, low, us, high + d, a)
  BY <1>3, <1>9, <1>10, <1>11, <1>12 DEF Explains
<1> QED  BY <1>1, <1>4, <1>13

\* Some fill of the tape is booked: what went before it starts a lot further on.
LEMMA ExplainsRemove ==
  ASSUME NEW ts \in Seq(Trades), NEW i \in 1..Len(ts), NEW P, NEW low, NEW high, NEW a,
         Explains(P, low, ts, high, a)
  PROVE  \E Q : Explains(Q, low + Delta(ts[i], a), RemoveAt(ts, i), high, a)
<1>1. PICK us : us = RemoveAt(ts, i)
  OBVIOUS
<1>2. PICK l \in Nat : l = Len(ts)
  OBVIOUS
<1>3. i \in 1..l /\ Len(us) = l - 1
      /\ \A n \in 1..(l - 1) : us[n] = IF n < i THEN ts[n] ELSE ts[n + 1]
  BY <1>1, <1>2, RemoveIn
<1>4. PICK d : d = Delta(ts[i], a)
  OBVIOUS
<1>5. d \in -1..1
  BY <1>4, DeltaIn
<1>6. /\ P \in [0..l -> Int] /\ P[0] = low /\ P[l] = high
      /\ \A n \in 1..l : P[n] = P[n - 1] + Delta(ts[n], a)
  BY <1>2 DEF Explains
<1>7. PICK Q : Q = [n \in 0..(l - 1) |-> IF n < i THEN P[n] + d ELSE P[n + 1]]
  OBVIOUS
<1>8. \A n \in 0..(l - 1) : Q[n] = IF n < i THEN P[n] + d ELSE P[n + 1]
  BY <1>7
<1>9. \A n \in 0..l : P[n] \in Int
  BY <1>6
<1>10. ASSUME NEW n \in 0..(l - 1) PROVE (IF n < i THEN P[n] + d ELSE P[n + 1]) \in Int
  <2>1. P[n] \in Int /\ P[n + 1] \in Int
    BY <1>9
  <2> QED  BY <1>5, <2>1
<1>11. Q \in [0..(l - 1) -> Int]
  BY <1>7, <1>10
<1>12. Q[0] = low + d
  BY <1>3, <1>6, <1>8
<1>13. P[i] = P[i - 1] + d
  BY <1>3, <1>4, <1>6
<1>14. Q[l - 1] = high
  <2>0. l - 1 \in 0..(l - 1) /\ (l - 1) + 1 = l
    BY <1>3
  <2>1. CASE l - 1 < i
    <3>1. i = l
      BY <1>3, <2>1
    <3>2. Q[l - 1] = P[l - 1] + d
      BY <1>8, <2>0, <2>1
    <3> QED  BY <1>6, <1>13, <3>1, <3>2
  <2>2. CASE ~(l - 1 < i)
    <3>1. Q[l - 1] = P[(l - 1) + 1]
      BY <1>8, <2>0, <2>2
    <3> QED  BY <1>6, <2>0, <3>1
  <2> QED  BY <2>1, <2>2
<1>15. ASSUME NEW n \in 1..(l - 1) PROVE Q[n] = Q[n - 1] + Delta(us[n], a)
  <2>0. n \in 0..(l - 1) /\ n - 1 \in 0..(l - 1) /\ n \in 1..l /\ n + 1 \in 1..l
        /\ (n - 1) + 1 = n /\ (n + 1) - 1 = n
    BY <1>3
  <2>1. CASE n < i
    <3>1. Q[n] = P[n] + d /\ Q[n - 1] = P[n - 1] + d /\ us[n] = ts[n]
      BY <1>3, <1>8, <2>0, <2>1
    <3>2. P[n] = P[n - 1] + Delta(ts[n], a)
      BY <1>6, <2>0
    <3>3. PICK e \in {-1, 0, 1} : e = Delta(ts[n], a)
      BY DeltaIn
    <3>4. P[n - 1] \in Int /\ P[n] = P[n - 1] + e
      BY <1>9, <2>0, <3>2, <3>3
    <3>5. P[n] + d = (P[n - 1] + d) + e
      BY <1>5, <3>3, <3>4
    <3> QED  BY <3>1, <3>3, <3>5
  <2>2. CASE n = i
    <3>1. Q[n] = P[n + 1] /\ Q[n - 1] = P[n - 1] + d /\ us[n] = ts[n + 1]
      BY <1>3, <1>8, <2>0, <2>2
    <3>2. P[n + 1] = P[(n + 1) - 1] + Delta(ts[n + 1], a)
      BY <1>6, <2>0
    <3>3. P[n] = P[n - 1] + d
      BY <1>13, <2>2
    <3> QED  BY <2>0, <3>1, <3>2, <3>3
  <2>3. CASE n > i
    <3>1. ~(n < i) /\ ~(n - 1 < i)
      BY <1>3, <2>3
    <3>2. Q[n] = P[n + 1] /\ Q[n - 1] = P[(n - 1) + 1] /\ us[n] = ts[n + 1]
      BY <1>3, <1>8, <2>0, <3>1
    <3>3. P[n + 1] = P[(n + 1) - 1] + Delta(ts[n + 1], a)
      BY <1>6, <2>0
    <3> QED  BY <2>0, <3>2, <3>3
  <2> QED  BY <1>3, <2>1, <2>2, <2>3
<1>16. Explains(Q, low + d, us, high, a)
  BY <1>3, <1>11, <1>12, <1>14, <1>15 DEF Explains
<1> QED  BY <1>1, <1>4, <1>16

\* Requests in flight are finitely many.
LEMMA BusyFinite == IsFiniteSet(Busy) /\ Cardinality(Busy) \in Nat
<1>1. IsFiniteSet(Handlers)
  BY PathAssumption, FS_Interval DEF Handlers
<1>2. Busy \subseteq Handlers
  BY DEF Busy
<1> QED  BY <1>1, <1>2, FS_Subset, FS_CardinalityType

\* No more handlers have the engine's attention if none comes to have it.
LEMMA BusyShrinks ==
  ASSUME Busy' \subseteq Busy
  PROVE  Cardinality(Busy') \in Nat /\ Cardinality(Busy') <= Cardinality(Busy)
  BY BusyFinite, FS_Subset, FS_CardinalityType

\* At most one more, if only one handler calls.
LEMMA BusyGrows ==
  ASSUME NEW h, Busy' \subseteq Busy \union {h}
  PROVE  Cardinality(Busy') \in Nat /\ Cardinality(Busy') <= Cardinality(Busy) + 1
<1>1. IsFiniteSet(Busy \union {h}) /\ Cardinality(Busy \union {h}) <= Cardinality(Busy) + 1
  BY BusyFinite, FS_AddElement
<1>2. Cardinality(Busy') <= Cardinality(Busy \union {h}) /\ IsFiniteSet(Busy')
  BY <1>1, FS_Subset
<1>3. Cardinality(Busy') \in Nat /\ Cardinality(Busy \union {h}) \in Nat
  BY <1>1, <1>2, FS_CardinalityType
<1> QED  BY <1>1, <1>2, <1>3, BusyFinite

\* One less, once the engine has run a call.
LEMMA BusyDone ==
  ASSUME NEW h \in Busy, Busy' \subseteq Busy \ {h}
  PROVE  Cardinality(Busy') \in Nat /\ Cardinality(Busy') + 1 <= Cardinality(Busy)
<1>1. IsFiniteSet(Busy \ {h}) /\ Cardinality(Busy \ {h}) = Cardinality(Busy) - 1
  BY BusyFinite, FS_RemoveElement
<1>2. Cardinality(Busy') <= Cardinality(Busy \ {h}) /\ IsFiniteSet(Busy')
  BY <1>1, FS_Subset
<1>3. Cardinality(Busy') \in Nat
  BY <1>2, FS_CardinalityType
<1> QED  BY <1>1, <1>2, <1>3, BusyFinite

\* A number within a bound that moves by what the bound grows stays within it.
LEMMA WithinStep ==
  ASSUME NEW p \in Int, NEW q \in Int, NEW k \in Int, NEW j \in Int, NEW d \in Int,
         Within(p, k), Within(q - p, d), k + d <= j
  PROVE  Within(q, j)
  BY DEF Within

\* Positions keep within their bounds when they move by what the counters allow.
LEMMA BoundedStep ==
  ASSUME Bounded, FlowTyped, FlowTyped', NEW dp \in 0..1, NEW dr \in 0..1,
         \A a \in Accounts : Within(pos'[a] - pos[a], dp),
         \A a \in Accounts : Within(riskPos'[a] - riskPos[a], dr),
         Done \in Int, Done' \in Int, Done + dp <= Done',
         Readable \in Int, Readable' \in Int, Readable + dr <= Readable'
  PROVE  Bounded'
<1>1. ASSUME NEW a \in Accounts PROVE Within(pos'[a], Done') /\ Within(riskPos'[a], Readable')
  <2>1. pos[a] \in Int /\ pos'[a] \in Int /\ riskPos[a] \in Int /\ riskPos'[a] \in Int
    BY DEF FlowTyped
  <2>2. Within(pos[a], Done) /\ Within(riskPos[a], Readable)
    BY DEF Bounded
  <2>3. dp \in Int /\ dr \in Int
    OBVIOUS
  <2>4. Within(pos'[a], Done')
    BY <2>1, <2>2, <2>3, WithinStep
  <2>5. Within(riskPos'[a], Readable')
    BY <2>1, <2>2, <2>3, WithinStep
  <2> QED  BY <2>4, <2>5
<1> QED  BY <1>1 DEF Bounded

\* A lot is within one, and no move within none.
LEMMA Moves ==
  ASSUME NEW t, NEW a, NEW p \in Int, NEW q, q = p + Delta(t, a)
  PROVE  Within(q - p, 1)
<1>1. PICK d \in {-1, 0, 1} : d = Delta(t, a)
  BY DeltaIn
<1> QED  BY <1>1 DEF Within

\* A step that books no fill, if every call that comes up sent an order.
LEMMA BookedSame ==
  ASSUME Bounded, Booked, FlowTyped, FlowTyped', UNCHANGED <<pos, riskPos, trades, astray>>,
         sent' >= sent, extras' >= extras,
         Cardinality(Busy') \in Nat, Cardinality(Busy') + sent <= Cardinality(Busy) + sent'
  PROVE  Bounded' /\ Booked'
<1>1. Booked'
  BY DEF Booked
<1>2. PICK z \in 0..1 : z = 0
  OBVIOUS
<1>3. \A a \in Accounts : pos[a] \in Int /\ riskPos[a] \in Int
  BY DEF FlowTyped
<1>4. (\A a \in Accounts : Within(pos'[a] - pos[a], z))
      /\ (\A a \in Accounts : Within(riskPos'[a] - riskPos[a], z))
  BY <1>2, <1>3 DEF Within
<1>5. sent \in Nat /\ sent' \in Nat /\ extras \in Nat /\ extras' \in Nat /\ Len(trades) \in Nat
      /\ Cardinality(Busy) \in Nat
  BY BusyFinite DEF FlowTyped
<1>6. Done \in Int /\ Done' \in Int /\ Done + z <= Done'
  BY <1>2, <1>5 DEF Done
<1>7. Readable \in Int /\ Readable' \in Int /\ Readable + z <= Readable'
  BY <1>2, <1>5, <1>6 DEF Readable
<1>8. Bounded'
  BY <1>4, <1>6, <1>7, BoundedStep
<1> QED  BY <1>1, <1>8

\* The engine books a fill for a call it owed, and it sets out for the risk service or
\* is lost: the chain grows at its end, or goes astray for the accounts it moves.
LEMMA BookedRun ==
  ASSUME Bounded, Booked, FlowTyped, FlowTyped', UNCHANGED <<riskPos, sent, extras>>, NEW t \in Trades,
         \/ trades' = Append(trades, t) /\ UNCHANGED astray
         \/ UNCHANGED trades /\ Stray(t),
         \A a \in Accounts : pos'[a] = pos[a] + Delta(t, a),
         Cardinality(Busy') \in Nat, Cardinality(Busy') + 1 <= Cardinality(Busy)
  PROVE  Bounded' /\ Booked'
<1>1. trades \in Seq(Trades) /\ Len(trades) \in Nat /\ Cardinality(Busy) \in Nat
      /\ sent \in Nat /\ extras \in Nat
  BY BusyFinite DEF FlowTyped
<1>2. \A a \in Accounts : pos[a] \in Int /\ riskPos[a] \in Int
  BY DEF FlowTyped
<1>3. PICK z \in 0..1 : z = 0
  OBVIOUS
<1>4. PICK o \in 0..1 : o = 1
  OBVIOUS
<1>5. \A a \in Accounts : Within(pos'[a] - pos[a], o)
  BY <1>2, <1>4, Moves
<1>6. \A a \in Accounts : Within(riskPos'[a] - riskPos[a], z)
  BY <1>2, <1>3 DEF Within
<1>7. Done \in Int /\ Done' \in Int /\ Done + o <= Done'
  BY <1>1, <1>4 DEF Done
<1>8. Len(trades') \in Nat /\ Len(trades') <= Len(trades) + 1
  BY <1>1, AppendIn
<1>9. Readable \in Int /\ Readable' \in Int /\ Readable + z <= Readable'
  BY <1>1, <1>3, <1>4, <1>7, <1>8 DEF Readable
<1>10. Bounded'
  BY <1>5, <1>6, <1>7, <1>9, BoundedStep
<1>11. ASSUME NEW a \in Accounts, ~astray'[a]
       PROVE  \E P : Explains(P, riskPos'[a], trades', pos'[a], a)
  <2>1. CASE trades' = Append(trades, t) /\ UNCHANGED astray
    <3>1. PICK P : Explains(P, riskPos[a], trades, pos[a], a)
      BY <1>11, <2>1 DEF Booked
    <3>2. \E Q : Explains(Q, riskPos[a], Append(trades, t), pos[a] + Delta(t, a), a)
      BY <1>1, <3>1, ExplainsAppend
    <3> QED  BY <2>1, <3>2
  <2>2. CASE UNCHANGED trades /\ Stray(t)
    <3>1. ~astray[a] /\ Delta(t, a) = 0
      BY <1>11, <2>2, StrayOnly
    <3>2. PICK P : Explains(P, riskPos[a], trades, pos[a], a)
      BY <3>1 DEF Booked
    <3>3. pos'[a] = pos[a]
      BY <1>2, <3>1
    <3> QED  BY <2>2, <3>2, <3>3
  <2> QED  BY <2>1, <2>2
<1> QED  BY <1>10, <1>11 DEF Booked

\* The risk service books a fill: the chain loses a link, or goes astray for the
\* accounts the fill moves if it will be read again.
LEMMA BookedRead ==
  ASSUME Bounded, Booked, FlowTyped, FlowTyped', UNCHANGED <<req, pos, sent>>,
         NEW i \in 1..Len(trades),
         \A a \in Accounts : riskPos'[a] = riskPos[a] + Delta(trades[i], a),
         \/ trades' = RemoveAt(trades, i) /\ UNCHANGED <<astray, extras>>
         \/ UNCHANGED trades /\ Stray(trades[i]) /\ extras' = extras + 1
  PROVE  Bounded' /\ Booked'
<1>1. trades \in Seq(Trades) /\ Len(trades) \in Nat /\ Cardinality(Busy) \in Nat
      /\ sent \in Nat /\ extras \in Nat
  BY BusyFinite DEF FlowTyped
<1>2. \A a \in Accounts : pos[a] \in Int /\ riskPos[a] \in Int
  BY DEF FlowTyped
<1>3. PICK z \in 0..1 : z = 0
  OBVIOUS
<1>4. PICK o \in 0..1 : o = 1
  OBVIOUS
<1>5. \A a \in Accounts : Within(pos'[a] - pos[a], z)
  BY <1>2, <1>3 DEF Within
<1>6. \A a \in Accounts : Within(riskPos'[a] - riskPos[a], o)
  BY <1>2, <1>4, Moves
<1>7. Cardinality(Busy') = Cardinality(Busy)
  BY DEF Busy, At
<1>8. Done \in Int /\ Done' \in Int /\ Done + z <= Done' /\ Done' = Done
  BY <1>1, <1>3, <1>7 DEF Done
<1>t. trades[i] \in Trades
  BY <1>1
<1>9. Len(trades') + 1 + extras <= Len(trades) + extras' /\ Len(trades') \in Nat /\ extras' \in Nat
  <2>1. CASE trades' = RemoveAt(trades, i) /\ UNCHANGED <<astray, extras>>
    <3>1. Len(trades') = Len(trades) - 1
      BY <1>1, <2>1, RemoveIn
    <3> QED  BY <1>1, <2>1, <3>1
  <2>2. CASE UNCHANGED trades /\ Stray(trades[i]) /\ extras' = extras + 1
    BY <1>1, <2>2
  <2> QED  BY <2>1, <2>2
<1>10. Readable \in Int /\ Readable' \in Int /\ Readable + o <= Readable'
  BY <1>1, <1>4, <1>8, <1>9 DEF Readable
<1>12. Bounded'
  BY <1>5, <1>6, <1>8, <1>10, BoundedStep
<1>13. ASSUME NEW a \in Accounts, ~astray'[a]
       PROVE  \E P : Explains(P, riskPos'[a], trades', pos'[a], a)
  <2>1. CASE trades' = RemoveAt(trades, i) /\ UNCHANGED <<astray, extras>>
    <3>1. PICK P : Explains(P, riskPos[a], trades, pos[a], a)
      BY <1>13, <2>1 DEF Booked
    <3>2. \E Q : Explains(Q, riskPos[a] + Delta(trades[i], a), RemoveAt(trades, i), pos[a], a)
      BY <1>1, <3>1, ExplainsRemove
    <3> QED  BY <2>1, <3>2
  <2>2. CASE UNCHANGED trades /\ Stray(trades[i])
    <3>1. ~astray[a] /\ Delta(trades[i], a) = 0
      BY <1>t, <1>13, <2>2, StrayOnly
    <3>2. PICK P : Explains(P, riskPos[a], trades, pos[a], a)
      BY <3>1 DEF Booked
    <3>3. riskPos'[a] = riskPos[a]
      BY <1>2, <3>1
    <3> QED  BY <2>2, <3>2, <3>3
  <2> QED  BY <2>1, <2>2
<1> QED  BY <1>12, <1>13 DEF Booked

\* Which handlers the engine still owes an answer, after one moves.
LEMMA BusyMoves ==
  ASSUME ReqInv, NEW h \in Handlers, NEW r, Goto(h, r)
  PROVE  /\ Busy' \subseteq Busy \union {h}
         /\ (r = None \/ r.step = "ran") => Busy' \subseteq Busy \ {h}
<1>1. /\ req'[h] = r
      /\ \A g \in Handlers : g # h => req'[g] = req[g]
  BY GotoOne
<1> QED  BY <1>1 DEF Busy, At

\* The handlers and the engine keep bounds and chain.
LEMMA BookedHandler ==
  ASSUME PathInv, Bounded, Booked, FlowTyped, FlowTyped', NEW h \in Handlers,
         EngineRun(h) \/ Answer(h) \/ GiveUp(h) \/ LateRun(h)
  PROVE  Bounded' /\ Booked'
<1>0. ReqInv /\ (req[h] = None \/ (req[h] \in OrderRec /\ req[h].account \in Accounts))
  BY DEF PathInv, ReqInv, OrderRec
<1>b. Cardinality(Busy) \in Nat /\ sent \in Nat /\ extras \in Nat
  BY BusyFinite DEF FlowTyped
<1>1. ASSUME NEW r, NEW status, Goto(h, r), r = None \/ r.step = "ran", h \in Busy, Run(req[h], status),
             UNCHANGED <<riskPos, sent, extras>>
      PROVE  Bounded' /\ Booked'
  <2>1. Busy' \subseteq Busy \ {h}
    BY <1>0, <1>1, BusyMoves
  <2>2. Cardinality(Busy') \in Nat /\ Cardinality(Busy') + 1 <= Cardinality(Busy)
    BY <1>1, <2>1, BusyDone
  <2>3. req[h].account \in Accounts
    BY <1>0, <1>1 DEF Busy, At
  <2>4. CASE UNCHANGED <<pos, trades, astray>>
    BY <1>1, <1>b, <2>2, <2>4, BookedSame
  <2>5. ASSUME NEW t \in Trades,
               \/ trades' = Append(trades, t) /\ UNCHANGED astray
               \/ UNCHANGED trades /\ Stray(t),
               \A a \in Accounts : pos'[a] = pos[a] + Delta(t, a)
        PROVE  Bounded' /\ Booked'
    BY <1>1, <2>2, <2>5, BookedRun
  <2> QED  BY <1>1, <2>3, <2>4, <2>5, RunTypes
<1>2. ASSUME NEW r, Goto(h, r), h \in Busy \/ r = None, UNCHANGED <<pos, riskPos, trades, astray, sent, extras>>
      PROVE  Bounded' /\ Booked'
  <2>1. Busy' \subseteq Busy
    BY <1>0, <1>2, BusyMoves
  <2>2. Cardinality(Busy') \in Nat /\ Cardinality(Busy') <= Cardinality(Busy)
    BY <2>1, BusyShrinks
  <2> QED  BY <1>2, <1>b, <2>2, BookedSame
<1>3. CASE EngineRun(h)
  <2>1. PICK status \in Outcomes(req[h]) :
          Run(req[h], status) /\ Goto(h, [req[h] EXCEPT !.step = "ran", !.status = status])
    BY <1>3 DEF EngineRun
  <2>2. h \in Busy /\ UNCHANGED <<riskPos, sent, extras>> /\ req[h] \in OrderRec
    BY <1>0, <1>3 DEF EngineRun, riskVars, Busy, At
  <2>3. [req[h] EXCEPT !.step = "ran", !.status = status].step = "ran"
    BY <2>2 DEF OrderRec
  <2> QED  BY <1>1, <2>1, <2>2, <2>3
<1>4. CASE Answer(h)
  <2>1. Goto(h, None) /\ UNCHANGED <<pos, riskPos, trades, astray, sent, extras>>
    BY <1>4 DEF Answer, engineVars, riskVars
  <2> QED  BY <1>2, <2>1
<1>5. CASE GiveUp(h)
  <2>1. UNCHANGED <<pos, riskPos, trades, astray, sent, extras>>
    BY <1>5 DEF GiveUp, engineVars, riskVars
  <2>2. CASE Goto(h, None)
    BY <1>2, <2>1, <2>2
  <2>3. CASE At(h, "call") /\ Goto(h, [req[h] EXCEPT !.step = "late"])
    <3>1. h \in Busy
      BY <2>3 DEF Busy
    <3> QED  BY <1>2, <2>1, <2>3, <3>1
  <2> QED  BY <1>5, <2>2, <2>3 DEF GiveUp
<1>6. CASE LateRun(h)
  <2>1. PICK status \in Outcomes(req[h]) : Run(req[h], status)
    BY <1>6 DEF LateRun
  <2>2. Goto(h, None) /\ h \in Busy /\ UNCHANGED <<riskPos, sent, extras>>
    BY <1>6 DEF LateRun, riskVars, Busy
  <2> QED  BY <1>1, <2>1, <2>2
<1> QED  BY <1>3, <1>4, <1>5, <1>6

\* Every step keeps bounds and chain.
LEMMA BookedNext ==
  ASSUME PathInv, Bounded, Booked, FlowTyped, FlowTyped', [Next]_vars
  PROVE  Bounded' /\ Booked'
<1>b. Cardinality(Busy) \in Nat /\ sent \in Nat /\ extras \in Nat /\ ReqInv
  BY BusyFinite DEF FlowTyped, PathInv
<1>s. ASSUME UNCHANGED <<req, pos, riskPos, trades, astray, sent>>, extras' >= extras
      PROVE Bounded' /\ Booked'
  <2>1. Cardinality(Busy') = Cardinality(Busy)
    BY <1>s DEF Busy, At
  <2> QED  BY <1>b, <1>s, <2>1, BookedSame
<1>c. ASSUME Busy' \subseteq Busy, UNCHANGED <<pos, riskPos, trades, astray, sent>>, extras' >= extras
      PROVE Bounded' /\ Booked'
  <2>1. Cardinality(Busy') \in Nat /\ Cardinality(Busy') <= Cardinality(Busy)
    BY <1>c, BusyShrinks
  <2> QED  BY <1>b, <1>c, <2>1, BookedSame
<1>n. ASSUME NEW h \in Handlers, Busy' \subseteq Busy \union {h}, sent' = sent + 1,
             UNCHANGED <<pos, riskPos, trades, astray, extras>>
      PROVE  Bounded' /\ Booked'
  <2>1. Cardinality(Busy') \in Nat /\ Cardinality(Busy') <= Cardinality(Busy) + 1
    BY <1>n, BusyGrows
  <2> QED  BY <1>b, <1>n, <2>1, BookedSame
<1>1. ASSUME NEW h \in Handlers, EngineRun(h) \/ Answer(h) \/ GiveUp(h) \/ LateRun(h) PROVE Bounded' /\ Booked'
  BY <1>1, BookedHandler
<1>2. ASSUME NEW h \in Handlers, NEW a \in Clients, Cancel(h, a) PROVE Bounded' /\ Booked'
  <2>1. Goto(h, Order("call", a, "BUY", TRUE)) /\ sent' = sent + 1 /\ UNCHANGED <<pos, riskPos, trades, astray, extras>>
    BY <1>2 DEF Cancel, engineVars, riskVars
  <2>2. Busy' \subseteq Busy \union {h}
    BY <1>b, <2>1, BusyMoves
  <2> QED  BY <1>n, <2>1, <2>2
<1>3. ASSUME NEW h \in Handlers, NEW a \in Clients, NEW side \in {"BUY", "SELL", "other"}, Submit(h, a, side)
      PROVE  Bounded' /\ Booked'
  <2>1. sent' = sent + 1 /\ UNCHANGED <<pos, riskPos, trades, astray, extras>>
    BY <1>3 DEF Submit, engineVars, riskVars
  <2>2. Busy' \subseteq Busy \union {h}
    <3>1. CASE Blocked(a)
      BY <1>3, <3>1 DEF Submit, Busy, At
    <3>2. CASE ~Blocked(a)
      <4>1. Goto(h, Order("call", a, side, FALSE))
        BY <1>3, <3>2 DEF Submit
      <4> QED  BY <1>b, <4>1, BusyMoves
    <3> QED  BY <3>1, <3>2
  <2> QED  BY <1>n, <2>1, <2>2
<1>4. CASE RiskTrade
  <2>1. PICK i \in 1..Len(trades) :
          /\ \A a \in Accounts : riskPos'[a] = riskPos[a] + Delta(trades[i], a)
          /\ \/ trades' = RemoveAt(trades, i) /\ UNCHANGED <<astray, extras>>
             \/ UNCHANGED trades /\ Stray(trades[i]) /\ extras' = extras + 1
    BY <1>4, ReadTrade
  <2>2. UNCHANGED <<req, pos, sent>>
    BY <1>4 DEF RiskTrade, gatewayVars
  <2> QED  BY <2>1, <2>2, BookedRead
<1>5. CASE Exit \/ Crash
  <2>1. UNCHANGED <<pos, riskPos, trades, astray, sent>> /\ Gone /\ extras' \in {extras, extras + 1}
    BY <1>5 DEF Exit, Crash, Extra, engineVars, riskVars
  <2>3. extras' >= extras
    BY <1>b, <2>1
  <2>2. Busy' \subseteq Busy
    <3>1. PICK kept \in BOOLEAN :
            req' = [h \in Handlers |-> IF At(h, "late") \/ (At(h, "call") /\ kept)
                                         THEN [req[h] EXCEPT !.step = "late"] ELSE None]
      BY <2>1 DEF Gone
    <3>2. ASSUME NEW h \in Handlers, h \in Busy' PROVE h \in Busy
      <4>1. req'[h] # None
        BY <3>2 DEF Busy, At
      <4> QED  BY <3>1, <4>1 DEF Busy
    <3> QED  BY <3>2 DEF Busy
  <2> QED  BY <1>c, <2>1, <2>2, <2>3
<1>6. CASE \/ \E a \in Accounts : Flush(a) \/ RiskOrder(a) \/ Apply(a) \/ Age(a) \/ Resend(a)
           \/ \E a \in Clients, action \in {"ALLOW", "REJECT"} : ScoreOrder(a, action)
           \/ Stop \/ EndDrain \/ ClosePublisher \/ Restart \/ UNCHANGED vars
  <2>1. UNCHANGED <<req, pos, riskPos, trades, astray, sent>>
    BY <1>6 DEF Flush, RiskOrder, Apply, Age, Resend, ScoreOrder, Stop, EndDrain, ClosePublisher, Restart,
                vars, gatewayVars, engineVars, riskVars
  <2>2. extras' \in {extras, extras + 1}
    BY <1>6 DEF Flush, RiskOrder, Apply, Age, Resend, ScoreOrder, Stop, EndDrain, ClosePublisher, Restart,
                vars, Extra
  <2>3. extras' >= extras
    BY <1>b, <2>2
  <2> QED  BY <1>s, <2>1, <2>3
<1> QED  BY <1>1, <1>2, <1>3, <1>4, <1>5, <1>6 DEF Next, Main

\* Every step keeps handlers within the life of the process.
LEMMA LifeNext ==
  ASSUME PathInv, LifeInv, [Next]_vars
  PROVE  LifeInv'
<1>0. ReqInv
  BY DEF PathInv
<1>1. ASSUME UNCHANGED req, life' \in {"up", "draining", "closing", "closed", "down"},
             life' = "down" => life = "down"
      PROVE  LifeInv'
  BY <1>1 DEF LifeInv, At
<1>2. ASSUME NEW h \in Handlers, NEW r, Goto(h, r), UNCHANGED life,
             r = None \/ r.step = "late" \/ life # "down"
      PROVE  LifeInv'
  <2>1. req'[h] = r /\ \A g \in Handlers : g # h => req'[g] = req[g]
    BY <1>0, <1>2, GotoOne
  <2> QED  BY <1>2, <2>1 DEF LifeInv, At
<1>3. ASSUME NEW h \in Handlers, EngineRun(h) \/ Answer(h) \/ GiveUp(h) \/ LateRun(h) PROVE LifeInv'
  <2>1. CASE EngineRun(h)
    <3>1. \E r : Goto(h, r)
      BY <2>1 DEF EngineRun
    <3>2. life # "down" /\ UNCHANGED life
      BY <2>1 DEF EngineRun, LifeInv
    <3> QED  BY <1>2, <3>1, <3>2
  <2>2. CASE GiveUp(h)
    <3>1. \E r : Goto(h, r)
      BY <2>2 DEF GiveUp
    <3>2. life # "down" /\ UNCHANGED life
      BY <2>2 DEF GiveUp, LifeInv
    <3> QED  BY <1>2, <3>1, <3>2
  <2>3. CASE Answer(h) \/ LateRun(h)
    BY <1>2, <2>3 DEF Answer, LateRun
  <2> QED  BY <1>3, <2>1, <2>2, <2>3
<1>4. ASSUME NEW h \in Handlers, NEW a \in Clients,
             Cancel(h, a) \/ \E side \in {"BUY", "SELL", "other"} : Submit(h, a, side)
      PROVE  LifeInv'
  <2>1. life = "up" /\ UNCHANGED life /\ (UNCHANGED req \/ \E r : Goto(h, r))
    BY <1>4 DEF Cancel, Submit
  <2> QED  BY <1>1, <1>2, <2>1
<1>5. CASE Exit \/ Crash
  <2>1. Gone
    BY <1>5 DEF Exit, Crash
  <2>2. PICK kept \in BOOLEAN :
          req' = [h \in Handlers |-> IF At(h, "late") \/ (At(h, "call") /\ kept)
                                       THEN [req[h] EXCEPT !.step = "late"] ELSE None]
    BY <2>1 DEF Gone
  <2>3. ASSUME NEW h \in Handlers PROVE ~(At(h, "call") \/ At(h, "ran"))'
    <3>1. CASE req[h] = None
      BY <2>2, <3>1 DEF At
    <3>2. CASE req[h] # None
      <4>1. [req[h] EXCEPT !.step = "late"].step = "late"
        BY <1>0, <3>2 DEF ReqInv, OrderRec
      <4> QED  BY <2>2, <4>1 DEF At
    <3> QED  BY <3>1, <3>2
  <2>4. life' = "down"
    BY <2>1 DEF Gone
  <2> QED  BY <2>3, <2>4 DEF LifeInv
<1>6. CASE \/ \E a \in Accounts : Flush(a) \/ RiskOrder(a) \/ Apply(a) \/ Age(a) \/ Resend(a)
           \/ \E a \in Clients, action \in {"ALLOW", "REJECT"} : ScoreOrder(a, action)
           \/ RiskTrade \/ Stop \/ EndDrain \/ ClosePublisher \/ Restart \/ UNCHANGED vars
  <2>1. UNCHANGED req
    BY <1>6 DEF Flush, RiskOrder, Apply, Age, Resend, ScoreOrder, RiskTrade, Stop, EndDrain, ClosePublisher,
                Restart, vars, gatewayVars
  <2>2. UNCHANGED life \/ life' \in {"up", "draining", "closing", "closed"}
    BY <1>6 DEF Flush, RiskOrder, Apply, Age, Resend, ScoreOrder, RiskTrade, Stop, EndDrain, ClosePublisher,
                Restart, vars, gatewayVars
  <2> QED  BY <1>1, <2>1, <2>2 DEF LifeInv
<1> QED  BY <1>3, <1>4, <1>5, <1>6 DEF Next, Main

\* An event for the feed is queued, or refused by a closed writer.
LEMMA PublishIn ==
  ASSUME FlowTyped, NEW a \in Accounts, NEW e \in Events, Publish(a, e)
  PROVE  outbox' \in [Accounts -> Seq(Events)]
<1>1. outbox \in [Accounts -> Seq(Events)]
  BY DEF FlowTyped
<1>2. Append(outbox[a], e) \in Seq(Events)
  BY <1>1, AppendIn
<1> QED  BY <1>1, <1>2 DEF Publish

\* A verdict just passed on an account's position is true of it.
LEMMA FreshVerdict ==
  ASSUME FlowTyped, NEW a \in Accounts, NEW p \in Int, NEW n \in Int, NEW heavy \in BOOLEAN,
         NEW b \in BOOLEAN,
         signals'[a] = Append(signals[a], Verdict(p, n, heavy, b)), riskPos'[a] = p
  PROVE  SaysTrue(a)'
<1>1. LastVerdict(a)' = Verdict(p, n, heavy, b)
  BY VerdictSays, LastOne
<1> QED  BY <1>1, VerdictSays DEF SaysTrue

\* A gate that has seen no signal holds no verdict on exposure.
LEMMA UnjudgedIsNoVerdict == Unjudged.kind # "exposure"
  BY DEF Unjudged

\* A verdict stays true while the position stays.
LEMMA StillTrue ==
  ASSUME FlowTyped, NEW a \in Accounts, SaysTrue(a), riskPos'[a] = riskPos[a], missed'[a] = missed[a],
         LastVerdict(a)' \in {LastVerdict(a), Unjudged}
  PROVE  SaysTrue(a)'
<1>1. CASE LastVerdict(a)' = Unjudged
  BY <1>1, UnjudgedIsNoVerdict DEF SaysTrue
<1>2. CASE LastVerdict(a)' = LastVerdict(a)
  BY <1>2 DEF SaysTrue
<1> QED  BY <1>1, <1>2

\* A step of the gateway or the engine leaves the risk service and its queues alone.
LEMMA TypedSame ==
  ASSUME FlowTyped,
         UNCHANGED <<orders, signals, gate, recent, riskPos, missed, extras>>,
         outbox' \in [Accounts -> Seq(Events)], pos' \in [Accounts -> Int], trades' \in Seq(Trades),
         astray' \in [Accounts -> BOOLEAN], sent' \in Nat
  PROVE  FlowTyped'
  BY DEF FlowTyped

\* Handlers and engine.
LEMMA GatewayTyped ==
  ASSUME FlowTyped, PathInv, NEW h \in Handlers,
         \/ EngineRun(h) \/ Answer(h) \/ GiveUp(h) \/ LateRun(h)
         \/ \E a \in Clients : Cancel(h, a) \/ \E side \in {"BUY", "SELL", "other"} : Submit(h, a, side)
  PROVE  FlowTyped' /\ UNCHANGED <<signals, gate, riskPos, missed>>
<1>0. req[h] = None \/ (req[h] \in OrderRec /\ req[h].account \in Accounts /\ req[h].cancel \in BOOLEAN)
  BY DEF PathInv, ReqInv, OrderRec
<1>f. /\ outbox \in [Accounts -> Seq(Events)] /\ pos \in [Accounts -> Int]
      /\ trades \in Seq(Trades) /\ astray \in [Accounts -> BOOLEAN] /\ sent \in Nat
  BY DEF FlowTyped
<1>1. CASE EngineRun(h) \/ LateRun(h)
  <2>1. req[h].account \in Accounts
    BY <1>0, <1>1 DEF EngineRun, LateRun, At
  <2>2. PICK status : Run(req[h], status)
    BY <1>1 DEF EngineRun, LateRun
  <2>3. pos' \in [Accounts -> Int] /\ trades' \in Seq(Trades) /\ astray' \in [Accounts -> BOOLEAN]
    BY <2>1, <2>2, RunTypes
  <2>4. UNCHANGED <<orders, signals, gate, recent, riskPos, missed, extras, outbox, sent>>
    BY <1>1 DEF EngineRun, LateRun, riskVars
  <2> QED  BY <1>f, <2>3, <2>4, TypedSame
<1>2. CASE Answer(h)
  <2>1. req[h].account \in Accounts /\ req[h].cancel \in BOOLEAN
    BY <1>0, <1>2 DEF Answer, At
  <2>2. [cancel |-> req[h].cancel, refused |-> FALSE] \in Events
    BY <2>1 DEF Events
  <2>3. Publish(req[h].account, [cancel |-> req[h].cancel, refused |-> FALSE])
    BY <1>2 DEF Answer
  <2>4. outbox' \in [Accounts -> Seq(Events)]
    BY <2>1, <2>2, <2>3, PublishIn
  <2>5. UNCHANGED <<orders, signals, gate, recent, riskPos, missed, extras, pos, trades, astray, sent>>
    BY <1>2 DEF Answer, riskVars, engineVars
  <2> QED  BY <1>f, <2>4, <2>5, TypedSame
<1>3. CASE GiveUp(h)
  <2>1. UNCHANGED <<orders, signals, gate, recent, riskPos, missed, extras, pos, trades, astray, sent, outbox>>
    BY <1>3 DEF GiveUp, riskVars, engineVars
  <2> QED  BY <1>f, <2>1, TypedSame
<1>4. ASSUME NEW a \in Clients, Cancel(h, a)
      PROVE  FlowTyped' /\ UNCHANGED <<signals, gate, riskPos, missed>>
  <2>1. UNCHANGED <<orders, signals, gate, recent, riskPos, missed, extras, pos, trades, astray, outbox>> /\ sent' = sent + 1
    BY <1>4 DEF Cancel, riskVars, engineVars
  <2> QED  BY <1>f, <2>1, TypedSame
<1>5. ASSUME NEW a \in Clients, NEW side \in {"BUY", "SELL", "other"}, Submit(h, a, side)
      PROVE  FlowTyped' /\ UNCHANGED <<signals, gate, riskPos, missed>>
  <2>1. UNCHANGED <<orders, signals, gate, recent, riskPos, missed, extras, pos, trades, astray>> /\ sent' = sent + 1
    BY <1>5 DEF Submit, riskVars, engineVars
  <2>2. [cancel |-> FALSE, refused |-> TRUE] \in Events
    BY DEF Events
  <2>3. UNCHANGED outbox \/ Publish(a, [cancel |-> FALSE, refused |-> TRUE])
    BY <1>5 DEF Submit, PublishRefused
  <2>4. outbox' \in [Accounts -> Seq(Events)]
    BY <1>f, <2>2, <2>3, PublishIn, PathAssumption
  <2> QED  BY <1>f, <2>1, <2>4, TypedSame
<1> QED  BY <1>1, <1>2, <1>3, <1>4, <1>5

\* The feed's writer, the risk service and the gate.
LEMMA LoopTyped ==
  ASSUME FlowTyped, VerdictsCurrent, NEW a \in Accounts, Flush(a) \/ RiskOrder(a) \/ Apply(a) \/ Age(a) \/ Resend(a)
  PROVE  FlowTyped' /\ VerdictsCurrent'
<1>f. /\ outbox \in [Accounts -> Seq(Events)] /\ orders \in [Accounts -> Seq(Events)]
      /\ signals \in [Accounts -> Seq(Signals)] /\ gate \in [Accounts -> Signals \union {Unjudged}]
      /\ recent \in [Accounts -> 0..(VelocityCap + 1)] /\ riskPos \in [Accounts -> Int]
      /\ missed \in [Accounts -> BOOLEAN] /\ extras \in Nat
  BY DEF FlowTyped
<1>v. \A b \in Accounts : SaysTrue(b)
  BY DEF VerdictsCurrent
<1>q. (\A b \in Accounts : SaysTrue(b)') => VerdictsCurrent'
  BY DEF VerdictsCurrent
<1>s. ASSUME NEW b \in Accounts, signals'[b] = signals[b], gate'[b] = gate[b], riskPos'[b] = riskPos[b],
             missed'[b] = missed[b]
      PROVE  SaysTrue(b)'
  BY <1>s, <1>v, LastOne, StillTrue
<1>1. CASE Flush(a)
  <2>1. outbox[a] # <<>> /\ outbox' = [outbox EXCEPT ![a] = Tail(@)]
        /\ (UNCHANGED orders \/ orders' = [orders EXCEPT ![a] = Append(@, Head(outbox[a]))])
    BY <1>1 DEF Flush
  <2>2. Tail(outbox[a]) \in Seq(Events) /\ Head(outbox[a]) \in Events
    BY <1>f, <2>1, TailIn
  <2>3. Append(orders[a], Head(outbox[a])) \in Seq(Events)
    BY <1>f, <2>2, AppendIn
  <2>4. outbox' \in [Accounts -> Seq(Events)]
    BY <1>f, <2>1, <2>2
  <2>5. orders' \in [Accounts -> Seq(Events)]
    BY <1>f, <2>1, <2>3
  <2>6. UNCHANGED <<signals, gate, recent, riskPos, missed, pos, trades, astray, sent, extras>>
    BY <1>1 DEF Flush, riskVars, engineVars
  <2>7. FlowTyped'
    BY <2>4, <2>5, <2>6 DEF FlowTyped
  <2> QED  BY <1>q, <1>s, <2>6, <2>7
<1>2. CASE RiskOrder(a)
  <2>1. PICK e : e = Head(orders[a])
    OBVIOUS
  <2>2. orders[a] # <<>> /\ (orders' = [orders EXCEPT ![a] = Tail(@)] \/ UNCHANGED orders)
    BY <1>2 DEF RiskOrder
  <2>3. e \in Events /\ Tail(orders[a]) \in Seq(Events)
    BY <1>f, <2>1, <2>2, TailIn
  <2>4. PICK n : n = IF e.cancel THEN recent[a] ELSE Counted(recent[a])
    OBVIOUS
  <2>5. n \in 0..(VelocityCap + 1) /\ n \in Int /\ e.refused \in BOOLEAN /\ riskPos[a] \in Int
    BY <1>f, <2>3, <2>4, CountedIn, PathAssumption DEF Events
  <2>6. recent' = [recent EXCEPT ![a] = n]
    BY <1>2, <2>1, <2>4 DEF RiskOrder
  <2>7. UNCHANGED <<outbox, gate, riskPos, pos, trades, astray, sent>> /\ extras' \in {extras, extras + 1}
    BY <1>2 DEF RiskOrder, Extra, gatewayVars, engineVars
  <2>8. recent' \in [Accounts -> 0..(VelocityCap + 1)]
    BY <1>f, <2>5, <2>6
  <2>9. orders' \in [Accounts -> Seq(Events)]
    BY <1>f, <2>2, <2>3
  <2>10. extras' \in Nat
    BY <1>f, <2>7
  <2>11. \/ \E hv \in {FALSE, MayBeHeavy(riskPos[a])} :
              /\ signals' = [signals EXCEPT ![a] = Append(@, Verdict(riskPos[a], n, hv, e.refused))]
              /\ missed' = [missed EXCEPT ![a] = FALSE]
         \/ UNCHANGED <<signals, missed>>
    BY <1>2, <2>1, <2>4 DEF RiskOrder
  <2>12. CASE UNCHANGED <<signals, missed>>
    <3>1. FlowTyped'
      BY <2>7, <2>8, <2>9, <2>10, <2>12 DEF FlowTyped
    <3> QED  BY <1>q, <1>s, <2>7, <2>12, <3>1
  <2>13. ASSUME NEW hv \in {FALSE, MayBeHeavy(riskPos[a])},
                signals' = [signals EXCEPT ![a] = Append(@, Verdict(riskPos[a], n, hv, e.refused))],
                missed' = [missed EXCEPT ![a] = FALSE]
         PROVE  FlowTyped' /\ VerdictsCurrent'
    <3>0. hv \in BOOLEAN
      BY DEF MayBeHeavy
    <3>1. Verdict(riskPos[a], n, hv, e.refused) \in Signals
      BY <2>5, <3>0, VerdictSays
    <3>2. Append(signals[a], Verdict(riskPos[a], n, hv, e.refused)) \in Seq(Signals)
      BY <1>f, <3>1, AppendIn
    <3>3. signals' \in [Accounts -> Seq(Signals)] /\ missed' \in [Accounts -> BOOLEAN]
      BY <1>f, <2>13, <3>2
    <3>4. FlowTyped'
      BY <2>7, <2>8, <2>9, <2>10, <3>3 DEF FlowTyped
    <3>5. ASSUME NEW b \in Accounts PROVE SaysTrue(b)'
      <4>1. CASE b = a
        <5>1. signals'[a] = Append(signals[a], Verdict(riskPos[a], n, hv, e.refused))
              /\ riskPos'[a] = riskPos[a]
          BY <1>f, <2>7, <2>13
        <5> QED  BY <2>5, <3>0, <4>1, <5>1, FreshVerdict
      <4>2. CASE b # a
        <5>1. signals'[b] = signals[b] /\ gate'[b] = gate[b] /\ riskPos'[b] = riskPos[b]
              /\ missed'[b] = missed[b]
          BY <1>f, <2>7, <2>13, <4>2
        <5> QED  BY <1>s, <5>1
      <4> QED  BY <4>1, <4>2
    <3> QED  BY <1>q, <3>4, <3>5
  <2> QED  BY <2>11, <2>12, <2>13
<1>3. CASE Apply(a)
  <2>1. signals[a] # <<>> /\ signals' = [signals EXCEPT ![a] = Tail(@)]
        /\ gate' = [gate EXCEPT ![a] = Head(signals[a])]
    BY <1>3 DEF Apply
  <2>2. Head(signals[a]) \in Signals /\ Tail(signals[a]) \in Seq(Signals)
    BY <1>f, <2>1, TailIn
  <2>3. UNCHANGED <<outbox, orders, recent, riskPos, missed, pos, trades, astray, sent, extras>>
    BY <1>3 DEF Apply, engineVars
  <2>4. signals' \in [Accounts -> Seq(Signals)]
    BY <1>f, <2>1, <2>2
  <2>5. gate' \in [Accounts -> Signals \union {Unjudged}]
    BY <1>f, <2>1, <2>2
  <2>6. FlowTyped'
    BY <2>3, <2>4, <2>5 DEF FlowTyped
  <2>7. ASSUME NEW b \in Accounts PROVE SaysTrue(b)'
    <3>1. CASE b = a
      <4>1. signals'[a] = Tail(signals[a]) /\ gate'[a] = Head(signals[a]) /\ riskPos'[a] = riskPos[a]
            /\ missed'[a] = missed[a]
        BY <1>f, <2>1, <2>3
      <4>2. LastVerdict(a)' = LastVerdict(a)
        BY <2>1, <4>1, LastOne
      <4> QED  BY <1>v, <3>1, <4>1, <4>2, StillTrue
    <3>2. CASE b # a
      <4>1. signals'[b] = signals[b] /\ gate'[b] = gate[b] /\ riskPos'[b] = riskPos[b]
            /\ missed'[b] = missed[b]
        BY <1>f, <2>1, <2>3, <3>2
      <4> QED  BY <1>s, <4>1
    <3> QED  BY <3>1, <3>2
  <2> QED  BY <1>q, <2>6, <2>7
<1>4. CASE Age(a)
  <2>1. recent' = [recent EXCEPT ![a] = 0]
        /\ UNCHANGED <<outbox, orders, signals, gate, riskPos, missed, pos, trades, astray, sent, extras>>
    BY <1>4 DEF Age, gatewayVars, engineVars
  <2>2. recent' \in [Accounts -> 0..(VelocityCap + 1)]
    BY <1>f, <2>1, PathAssumption
  <2>3. FlowTyped'
    BY <2>1, <2>2 DEF FlowTyped
  <2> QED  BY <1>q, <1>s, <2>1, <2>3
<1>5. CASE Resend(a)
  <2>1. PICK sig \in (Range(signals[a]) \union {gate[a]}) \ {Unjudged} :
          signals' = [signals EXCEPT ![a] = Append(@, [sig EXCEPT !.about = FALSE])]
    BY <1>5 DEF Resend
  <2>2. missed' = [missed EXCEPT ![a] = TRUE] /\ extras' = extras + 1
        /\ UNCHANGED <<outbox, orders, gate, recent, riskPos, pos, trades, astray, sent>>
    BY <1>5 DEF Resend, Extra, gatewayVars, engineVars
  <2>3. sig \in Signals
    <3>1. signals[a] \in Seq(Signals) /\ gate[a] \in Signals \union {Unjudged}
      BY <1>f
    <3>2. Range(signals[a]) \subseteq Signals
      BY <3>1 DEF Range
    <3> QED  BY <2>1, <3>1, <3>2
  <2>4. PICK v : v = [sig EXCEPT !.about = FALSE]
    OBVIOUS
  <2>5. v \in Signals
    BY <2>3, <2>4 DEF Signals
  <2>6. Append(signals[a], v) \in Seq(Signals)
    BY <1>f, <2>5, AppendIn
  <2>7. signals' = [signals EXCEPT ![a] = Append(@, v)]
    BY <2>1, <2>4
  <2>8. signals' \in [Accounts -> Seq(Signals)] /\ missed' \in [Accounts -> BOOLEAN]
    BY <1>f, <2>2, <2>6, <2>7
  <2>9. extras' \in Nat
    BY <1>f, <2>2
  <2>10. FlowTyped'
    BY <2>2, <2>8, <2>9 DEF FlowTyped
  <2>11. ASSUME NEW b \in Accounts PROVE SaysTrue(b)'
    <3>1. CASE b = a
      BY <1>f, <2>2, <3>1 DEF SaysTrue
    <3>2. CASE b # a
      <4>1. signals'[b] = signals[b] /\ gate'[b] = gate[b] /\ riskPos'[b] = riskPos[b]
            /\ missed'[b] = missed[b]
        BY <1>f, <2>2, <2>7, <3>2
      <4> QED  BY <1>s, <4>1
    <3> QED  BY <3>1, <3>2
  <2> QED  BY <1>q, <2>10, <2>11
<1> QED  BY <1>1, <1>2, <1>3, <1>4, <1>5

\* A scored order leaves an anomaly signal, which is no verdict on exposure.
LEMMA ScoreTyped ==
  ASSUME FlowTyped, VerdictsCurrent, NEW a \in Clients, NEW action \in {"ALLOW", "REJECT"},
         ScoreOrder(a, action)
  PROVE  FlowTyped' /\ VerdictsCurrent'
<1>f. /\ signals \in [Accounts -> Seq(Signals)] /\ recent \in [Accounts -> 0..(VelocityCap + 1)]
      /\ a \in Accounts /\ extras \in Nat
  BY PathAssumption DEF FlowTyped
<1>1. PICK v : v = [kind |-> "anomaly", action |-> action, other |-> FALSE, about |-> FALSE]
  OBVIOUS
<1>2. v \in Signals /\ v.kind # "exposure"
  BY <1>1 DEF Signals
<1>3. /\ recent' = [recent EXCEPT ![a] = Counted(@)] /\ extras' = extras + 1
      /\ signals' = [signals EXCEPT ![a] = Append(@, v)] \/ UNCHANGED signals
      /\ UNCHANGED <<outbox, orders, gate, riskPos, missed, pos, trades, astray, sent>>
  BY <1>1 DEF ScoreOrder, Extra, gatewayVars, engineVars
<1>4. Counted(recent[a]) \in 0..(VelocityCap + 1)
  BY <1>f, CountedIn
<1>5. recent' \in [Accounts -> 0..(VelocityCap + 1)] /\ extras' \in Nat
  BY <1>f, <1>3, <1>4
<1>6. Append(signals[a], v) \in Seq(Signals)
  BY <1>f, <1>2, AppendIn
<1>7. signals' \in [Accounts -> Seq(Signals)]
  BY <1>f, <1>3, <1>6
<1>8. FlowTyped'
  BY <1>3, <1>5, <1>7 DEF FlowTyped
<1>9. ASSUME NEW b \in Accounts PROVE SaysTrue(b)'
  <2>1. CASE b = a /\ signals' = [signals EXCEPT ![a] = Append(@, v)]
    <3>1. signals'[a] = Append(signals[a], v)
      BY <1>f, <2>1
    <3>2. LastVerdict(a)' = v
      BY <1>f, <1>2, <3>1, LastOne
    <3> QED  BY <1>2, <2>1, <3>2 DEF SaysTrue
  <2>2. CASE b # a \/ UNCHANGED signals
    <3>1. signals'[b] = signals[b] /\ gate'[b] = gate[b] /\ riskPos'[b] = riskPos[b]
          /\ missed'[b] = missed[b]
      BY <1>f, <1>3, <2>2
    <3>2. SaysTrue(b)
      BY DEF VerdictsCurrent
    <3> QED  BY <3>1, <3>2, LastOne, StillTrue
  <2> QED  BY <1>3, <2>1, <2>2
<1> QED  BY <1>8, <1>9 DEF VerdictsCurrent

\* A fill read by the risk service.
LEMMA TradeTyped ==
  ASSUME FlowTyped, VerdictsCurrent, RiskTrade
  PROVE  FlowTyped' /\ VerdictsCurrent'
<1>1. PICK i \in 1..Len(trades) :
        /\ trades[i] \in Trades /\ riskPos' \in [Accounts -> Int]
        /\ signals' \in [Accounts -> Seq(Signals)] /\ missed' \in [Accounts -> BOOLEAN]
        /\ \A a \in Accounts :
             \/ signals'[a] = signals[a] /\ riskPos'[a] = riskPos[a] /\ missed'[a] = missed[a]
             \/ missed'[a]
             \/ \E n \in Int, heavy \in BOOLEAN :
                  signals'[a] = Append(signals[a], Verdict(riskPos'[a], n, heavy, FALSE))
        /\ \/ trades' = RemoveAt(trades, i) /\ UNCHANGED <<astray, extras>>
           \/ UNCHANGED trades /\ Stray(trades[i]) /\ extras' = extras + 1
  BY ReadTrade
<1>2. UNCHANGED <<outbox, orders, gate, recent, pos, sent>>
  BY DEF RiskTrade, gatewayVars
<1>f. trades \in Seq(Trades) /\ astray \in [Accounts -> BOOLEAN] /\ extras \in Nat
  BY DEF FlowTyped
<1>3. trades' \in Seq(Trades)
  <2>1. RemoveAt(trades, i) \in Seq(Trades)
    BY <1>f, RemoveIn
  <2> QED  BY <1>1, <1>f, <2>1
<1>4. astray' \in [Accounts -> BOOLEAN] /\ extras' \in Nat
  BY <1>1, <1>f, StrayOnly
<1>5. FlowTyped'
  BY <1>1, <1>2, <1>3, <1>4 DEF FlowTyped
<1>6. ASSUME NEW b \in Accounts PROVE SaysTrue(b)'
  <2>0. SaysTrue(b)
    BY DEF VerdictsCurrent
  <2>1. CASE signals'[b] = signals[b] /\ riskPos'[b] = riskPos[b] /\ missed'[b] = missed[b]
    BY <1>2, <2>0, <2>1, LastOne, StillTrue
  <2>2. CASE missed'[b]
    BY <2>2 DEF SaysTrue
  <2>3. ASSUME NEW n \in Int, NEW heavy \in BOOLEAN,
               signals'[b] = Append(signals[b], Verdict(riskPos'[b], n, heavy, FALSE))
        PROVE  SaysTrue(b)'
    <3>1. PICK p \in Int : p = riskPos'[b]
      BY <1>1
    <3>2. signals'[b] = Append(signals[b], Verdict(p, n, heavy, FALSE))
      BY <2>3, <3>1
    <3> QED  BY <3>1, <3>2, FreshVerdict
  <2> QED  BY <1>1, <2>1, <2>2, <2>3
<1> QED  BY <1>5, <1>6 DEF VerdictsCurrent

\* The process ends: the gate forgets, and a signal may be lost with it.
LEMMA GoneTyped ==
  ASSUME FlowTyped, VerdictsCurrent, Exit \/ Crash
  PROVE  FlowTyped' /\ VerdictsCurrent'
<1>f. signals \in [Accounts -> Seq(Signals)] /\ extras \in Nat
  BY DEF FlowTyped
<1>1. /\ outbox' = [a \in Accounts |-> <<>>] /\ gate' = [a \in Accounts |-> Unjudged]
      /\ UNCHANGED <<orders, recent, riskPos, missed, pos, trades, astray, sent>>
      /\ extras' \in {extras, extras + 1}
  BY DEF Exit, Crash, Gone, Extra, engineVars, riskVars
<1>2. \/ UNCHANGED signals
      \/ \E a \in Accounts : signals[a] # <<>> /\ signals' = [signals EXCEPT ![a] = Tail(@)]
  BY DEF Exit, Crash, riskVars
<1>3. ASSUME NEW b \in Accounts
      PROVE  signals'[b] = signals[b] \/ (signals[b] # <<>> /\ signals'[b] = Tail(signals[b]))
  BY <1>f, <1>2
<1>4. ASSUME NEW b \in Accounts PROVE signals'[b] \in Seq(Signals)
  <2>1. signals[b] \in Seq(Signals)
    BY <1>f
  <2>2. CASE signals'[b] = signals[b]
    BY <2>1, <2>2
  <2>3. CASE signals[b] # <<>> /\ signals'[b] = Tail(signals[b])
    BY <2>1, <2>3, TailIn
  <2> QED  BY <1>3, <2>2, <2>3
<1>5. signals' \in [Accounts -> Seq(Signals)]
  BY <1>f, <1>2, <1>4
<1>6. outbox' \in [Accounts -> Seq(Events)]
  <2>1. <<>> \in Seq(Events)
    OBVIOUS
  <2> QED  BY <1>1, <2>1
<1>7. FlowTyped'
  <2>1. extras' \in Nat
    BY <1>f, <1>1
  <2>2. gate' \in [Accounts -> Signals \union {Unjudged}]
    BY <1>1
  <2> QED  BY <1>1, <1>5, <1>6, <2>1, <2>2 DEF FlowTyped
<1>8. ASSUME NEW b \in Accounts PROVE SaysTrue(b)'
  <2>1. gate'[b] = Unjudged /\ riskPos'[b] = riskPos[b] /\ missed'[b] = missed[b] /\ SaysTrue(b)
    BY <1>1 DEF VerdictsCurrent
  <2>2. LastVerdict(b)' \in {LastVerdict(b), Unjudged}
    BY <1>3, <2>1, LastOne
  <2> QED  BY <2>1, <2>2, StillTrue
<1> QED  BY <1>7, <1>8 DEF VerdictsCurrent

\* Every step keeps the types and the verdicts.
LEMMA FlowNext ==
  ASSUME PathInv, FlowTyped, VerdictsCurrent, [Next]_vars
  PROVE  FlowTyped' /\ VerdictsCurrent'
<1>s. ASSUME FlowTyped', UNCHANGED <<signals, gate, riskPos, missed>> PROVE VerdictsCurrent'
  BY <1>s DEF VerdictsCurrent, SaysTrue, LastVerdict
<1>1. ASSUME NEW h \in Handlers,
         \/ EngineRun(h) \/ Answer(h) \/ GiveUp(h) \/ LateRun(h)
         \/ \E a \in Clients : Cancel(h, a) \/ \E side \in {"BUY", "SELL", "other"} : Submit(h, a, side)
      PROVE  FlowTyped' /\ VerdictsCurrent'
  BY <1>s, <1>1, GatewayTyped
<1>2. CASE Stop \/ EndDrain \/ ClosePublisher \/ Restart \/ UNCHANGED vars
  <2>1. UNCHANGED <<outbox, orders, signals, gate, recent, riskPos, missed, pos, trades, astray, sent>>
        /\ extras' \in {extras, extras + 1}
    BY <1>2 DEF Stop, EndDrain, ClosePublisher, Restart, Extra, vars, gatewayVars, engineVars, riskVars
  <2>2. extras' \in Nat
    BY <2>1 DEF FlowTyped
  <2>3. FlowTyped'
    BY <2>1, <2>2 DEF FlowTyped
  <2> QED  BY <1>s, <2>1, <2>3
<1>3. CASE Exit \/ Crash
  BY <1>3, GoneTyped
<1>4. CASE RiskTrade
  BY <1>4, TradeTyped
<1>5. ASSUME NEW a \in Accounts, Flush(a) \/ RiskOrder(a) \/ Apply(a) \/ Age(a) \/ Resend(a)
      PROVE  FlowTyped' /\ VerdictsCurrent'
  BY <1>5, LoopTyped
<1>6. ASSUME NEW a \in Clients, NEW action \in {"ALLOW", "REJECT"}, ScoreOrder(a, action)
      PROVE  FlowTyped' /\ VerdictsCurrent'
  BY <1>6, ScoreTyped
<1> QED  BY <1>1, <1>2, <1>3, <1>4, <1>5, <1>6 DEF Next, Main

\* The loop starts with empty queues and equal positions.
LEMMA LoopInit == Init => LoopInv
<1> SUFFICES ASSUME Init PROVE LoopInv
  OBVIOUS
<1>1. Len(<<>>) = 0 /\ <<>> \in Seq(Trades) /\ <<>> \in Seq(Events) /\ <<>> \in Seq(Signals)
  OBVIOUS
<1>2. FlowTyped
  BY <1>1, PathAssumption DEF Init, FlowTyped
<1>3. LifeInv
  BY DEF Init, LifeInv, At
<1>4. VerdictsCurrent
  BY UnjudgedIsNoVerdict DEF Init, VerdictsCurrent, SaysTrue, LastVerdict
<1>5. Bounded
  <2>1. Busy = {}
    BY DEF Init, Busy, At
  <2>2. Cardinality(Busy) = 0
    BY <2>1, FS_EmptySet
  <2>3. Len(trades) = 0 /\ sent = 0 /\ extras = 0
    BY <1>1 DEF Init
  <2>4. \A a \in Accounts : pos[a] = 0 /\ riskPos[a] = 0
    BY DEF Init
  <2> QED  BY <2>2, <2>3, <2>4 DEF Bounded, Done, Readable, Within
<1>6. Booked
  <2> SUFFICES ASSUME NEW a \in Accounts PROVE \E P : Explains(P, riskPos[a], trades, pos[a], a)
    BY DEF Booked
  <2>1. PICK P : P = [n \in 0..0 |-> 0]
    OBVIOUS
  <2>2. P \in [0..0 -> Int] /\ P[0] = 0
    BY <2>1
  <2>3. Len(trades) = 0 /\ riskPos[a] = 0 /\ pos[a] = 0
    BY <1>1 DEF Init
  <2>4. Explains(P, riskPos[a], trades, pos[a], a)
    BY <2>2, <2>3 DEF Explains
  <2> QED  BY <2>4
<1> QED  BY <1>2, <1>3, <1>4, <1>5, <1>6 DEF LoopInv

\* The invariant holds throughout.
LEMMA LoopHolds == Spec => [](PathInv /\ LoopInv)
<1>1. Init => PathInv /\ LoopInv
  BY InitKeeps, LoopInit
<1>2. PathInv /\ LoopInv /\ [Next]_vars => (PathInv /\ LoopInv)'
  <2> SUFFICES ASSUME PathInv, LoopInv, [Next]_vars PROVE PathInv' /\ LoopInv'
    OBVIOUS
  <2>1. PathInv'
    BY NextKeeps
  <2>2. FlowTyped' /\ VerdictsCurrent'
    BY FlowNext DEF LoopInv
  <2>3. LifeInv'
    BY LifeNext DEF LoopInv
  <2>4. Bounded' /\ Booked'
    BY <2>2, BookedNext DEF LoopInv
  <2> QED  BY <2>1, <2>2, <2>3, <2>4 DEF LoopInv
<1> QED  BY <1>1, <1>2, PTL DEF Spec

\* Every queue, position, counter and request has its type; no handler outlives the
\* process (main waits for or abandons them); the engine books no more lots than
\* orders were sent, and the risk service no more than that and what it was given
\* twice (Store.apply_trade asks of no trade whether it was there before).
THEOREM PathTyped == Spec => []PathTypeOK
<1>1. ASSUME PathInv, LoopInv PROVE PathTypeOK
  <2>1. PICK l \in Nat, c \in Nat : l = Len(trades) /\ c = Cardinality(Busy)
    BY <1>1, BusyFinite DEF LoopInv, FlowTyped
  <2>2. sent \in Nat /\ extras \in Nat
    BY <1>1 DEF LoopInv, FlowTyped
  <2>3. ASSUME NEW a \in Accounts
        PROVE  pos[a] \in -sent..sent /\ riskPos[a] \in -(sent + extras)..(sent + extras)
    <3>1. PICK p \in Int, x \in Int : p = pos[a] /\ x = riskPos[a]
      BY <1>1 DEF LoopInv, FlowTyped
    <3>2. Within(p, sent - c) /\ Within(x, sent - c + extras - l)
      BY <1>1, <2>1, <3>1 DEF LoopInv, Bounded, Done, Readable
    <3>3. p \in -sent..sent /\ x \in -(sent + extras)..(sent + extras)
      BY <2>2, <3>2 DEF Within
    <3> QED  BY <3>1, <3>3
  <2>4. \A a \in Accounts :
          /\ outbox[a] \in Seq(Events) /\ orders[a] \in Seq(Events) /\ signals[a] \in Seq(Signals)
          /\ gate[a] = Unjudged \/ gate[a] \in Signals
          /\ recent[a] \in 0..(VelocityCap + 1)
    BY <1>1 DEF LoopInv, FlowTyped
  <2>5. ASSUME NEW h \in Handlers, req[h] # None
        PROVE  req[h].step = "late" \/ (req[h].step \in {"call", "ran"} /\ life # "down")
    <3>1. req[h].step \in {"call", "ran", "late"}
      BY <1>1, <2>5 DEF PathInv, ReqInv, OrderRec
    <3> QED  BY <1>1, <2>5, <3>1 DEF LoopInv, LifeInv, At
  <2>6. life \in {"up", "draining", "closing", "closed", "down"}
    BY <1>1 DEF LoopInv, LifeInv
  <2> QED  BY <2>3, <2>4, <2>5, <2>6 DEF PathTypeOK
<1> QED  BY <1>1, LoopHolds, PTL

\* Once its signals are applied, an account whose exposure was judged last is blocked
\* exactly if the risk service has it over the position cap or found another limit
\* breached, and once no fill is under way, if the engine has it over the cap
\* (risksignal.go Gate.apply, RiskScorer.score, kafka_consumer.py): through fills read
\* in any order, late runs of abandoned calls, refusals, lost order events and signals,
\* repeated messages, stops and crashes.  It says nothing of an account whose last
\* verdict did not get out, nor of the engine's position once one of the account's
\* fills was lost or counted twice.
THEOREM GateAgrees == Spec => []GateFollowsExposure
<1>1. ASSUME LoopInv PROVE GateFollowsExposure
  <2> SUFFICES ASSUME NEW a \in Accounts, signals[a] = <<>>, ~missed[a], gate[a].kind = "exposure"
               PROVE  /\ Blocked(a) <=> (Over(riskPos[a]) \/ gate[a].other)
                      /\ (trades = <<>> /\ ~astray[a])
                           => (Blocked(a) <=> (Over(pos[a]) \/ gate[a].other))
    BY DEF GateFollowsExposure
  <2>1. LastVerdict(a) = gate[a]
    BY DEF LastVerdict
  <2>2. Blocked(a) <=> (Over(riskPos[a]) \/ gate[a].other)
    BY <1>1, <2>1 DEF LoopInv, VerdictsCurrent, SaysTrue, Blocked
  <2>3. ASSUME trades = <<>>, ~astray[a] PROVE riskPos[a] = pos[a]
    <3>1. PICK P : Explains(P, riskPos[a], trades, pos[a], a)
      BY <1>1, <2>3 DEF LoopInv, Booked
    <3>2. Len(trades) = 0
      BY <2>3
    <3> QED  BY <3>1, <3>2 DEF Explains
  <2> QED  BY <2>2, <2>3
<1> QED  BY <1>1, LoopHolds, PTL
=============================================================================
