--------------------------- MODULE SessionsProofs ---------------------------
(***************************************************************************)
(* What the edge of the gateway guarantees for every number of concurrent   *)
(* requests, mailboxes, accounts and trades, whatever the token lifetimes;  *)
(* and the limiter's bound, for every rate, burst, set of keys and length   *)
(* of time.                                                                 *)
(***************************************************************************)
EXTENDS Sessions, TLAPS

-----------------------------------------------------------------------------
(* The limiter.  The bound alone is not inductive: what a client may still  *)
(* take at once (Refilled) has to be counted with what it took.             *)

LimiterTypes ==
  /\ now \in 0..MaxTime
  /\ buckets \in [Keys -> {NoBucket} \union [tokens : 0..Burst, lastSeen : Nat]]
  /\ granted \in [Keys -> Nat]
  /\ mark \in [Keys -> [0..MaxTime -> Nat]]
  /\ \A k \in Keys : buckets[k] # NoBucket => buckets[k].lastSeen <= now

\* Since any time t: what was let through and what could be let through now.
Budget(k, t) ==
  Unit * (granted[k] - mark[k][t]) + Refilled(k) <= Burst + Rate * (now - t)

LimiterInv == LimiterTypes /\ \A k \in Keys, t \in 0..now : Budget(k, t)

\* Products of the clock with the rate, and of the unit with a count.
LEMMA Products ==
  ASSUME NEW r \in Nat, NEW x \in Int, NEW y \in Int
  PROVE  /\ r * ((x + 1) - y) = r * (x - y) + r
         /\ r * (x - x) = 0
         /\ x >= y => r * (x - y) \in Nat
         /\ r * (x - y) \in Int
<1>1. r * ((x + 1) - y) = r * (x - y) + r  BY SMT
<1>2. r * (x - x) = 0  BY SMT
<1>3. x >= y => r * (x - y) \in Nat  BY SMT
<1>4. r * (x - y) \in Int  BY SMT
<1> QED  BY <1>1, <1>2, <1>3, <1>4

\* A bucket after its refill holds between nothing and the burst.
LEMMA RefilledType ==
  ASSUME LimiterTypes, NEW k \in Keys
  PROVE  Refilled(k) \in 0..Burst
<1> USE LimiterAssumption
<1>1. CASE buckets[k] = NoBucket
  BY <1>1 DEF Refilled
<1>2. CASE buckets[k] # NoBucket
  <2>1. buckets[k].tokens \in 0..Burst /\ buckets[k].lastSeen \in Nat /\ buckets[k].lastSeen <= now /\ now \in Nat
    BY <1>2 DEF LimiterTypes
  <2>2. Rate * (now - buckets[k].lastSeen) \in Nat
    BY <2>1, Products
  <2> QED  BY <1>2, <2>1, <2>2 DEF Refilled
<1> QED  BY <1>1, <1>2

\* The limiter starts with full buckets and nothing let through.
LEMMA LimiterInitInv == LimiterInit => LimiterInv
<1> SUFFICES ASSUME LimiterInit PROVE LimiterInv
  OBVIOUS
<1> USE LimiterAssumption
<1>1. LimiterTypes
  BY DEF LimiterInit, LimiterTypes
<1>2. ASSUME NEW k \in Keys, NEW t \in 0..now PROVE Budget(k, t)
  <2>1. now = 0 /\ t = 0 /\ granted[k] = 0 /\ mark[k][t] = 0 /\ Refilled(k) = Burst
    BY DEF LimiterInit, Refilled
  <2>2. Unit * (0 - 0) = 0 /\ Rate * (0 - 0) = 0
    BY Products
  <2> QED  BY <2>1, <2>2 DEF Budget
<1> QED  BY <1>1, <1>2 DEF LimiterInv

\* Time passes: the buckets stay as they are, the refill being lazy.
LEMMA TickTypes ==
  ASSUME LimiterTypes, Tick
  PROVE  LimiterTypes'
<1> USE LimiterAssumption
<1>1. now' \in 0..MaxTime /\ now' = now + 1
  BY DEF LimiterTypes, Tick
<1>2. mark' \in [Keys -> [0..MaxTime -> Nat]]
  BY <1>1 DEF LimiterTypes, Tick
<1>3. buckets' = buckets /\ granted' = granted
  BY DEF Tick
<1>4. \A k \in Keys : buckets'[k] # NoBucket => buckets'[k].lastSeen <= now'
  <2> SUFFICES ASSUME NEW k \in Keys, buckets[k] # NoBucket PROVE buckets[k].lastSeen <= now'
    BY <1>3
  <2>1. buckets[k].lastSeen \in Nat /\ buckets[k].lastSeen <= now
    BY DEF LimiterTypes
  <2> QED  BY <2>1, <1>1 DEF LimiterTypes
<1> QED  BY <1>1, <1>2, <1>3, <1>4 DEF LimiterTypes

\* A tick refills by at most the rate.
LEMMA TickInv == LimiterInv /\ Tick => LimiterInv'
<1> SUFFICES ASSUME LimiterInv, Tick PROVE LimiterInv'
  OBVIOUS
<1> USE LimiterAssumption
<1>1. LimiterTypes /\ LimiterTypes'
  BY TickTypes DEF LimiterInv
<1>2. now \in Nat /\ now' = now + 1 /\ buckets' = buckets /\ granted' = granted
  BY <1>1 DEF Tick, LimiterTypes
<1>3. ASSUME NEW k \in Keys, NEW t \in 0..now' PROVE Budget(k, t)'
  <2>1. Refilled(k) \in 0..Burst /\ Refilled(k)' \in 0..Burst
    <3>1. Refilled(k) \in 0..Burst
      BY <1>1, RefilledType
    <3>2. Refilled(k)' \in 0..Burst
      <4>1. CASE buckets[k] = NoBucket
        BY <4>1, <1>2 DEF Refilled
      <4>2. CASE buckets[k] # NoBucket
        <5>1. buckets[k].tokens \in 0..Burst /\ buckets[k].lastSeen \in Nat /\ now' >= buckets[k].lastSeen
          BY <4>2, <1>1, <1>2 DEF LimiterTypes
        <5>2. Rate * (now' - buckets[k].lastSeen) \in Nat
          BY <5>1, <1>2, Products
        <5> QED  BY <4>2, <5>1, <5>2, <1>2 DEF Refilled
      <4> QED  BY <4>1, <4>2
    <3> QED  BY <3>1, <3>2
  <2>2. granted[k] \in Nat
    BY <1>1 DEF LimiterTypes
  <2>3. CASE t = now + 1
    <3>1. mark'[k][t] = granted[k]
      BY <2>3, <1>1, <1>2 DEF Tick, LimiterTypes
    <3>2. Unit * (granted[k] - granted[k]) = 0 /\ Rate * (now' - now') = 0
      BY <2>2, <1>2, Products
    <3> QED  BY <2>3, <3>1, <3>2, <2>1, <1>2 DEF Budget
  <2>4. CASE t \in 0..now
    <3>1. mark'[k][t] = mark[k][t] /\ mark[k][t] \in Nat
      BY <2>4, <1>1, <1>2 DEF Tick, LimiterTypes
    <3>2. Budget(k, t)
      BY <2>4 DEF LimiterInv
    <3>3. Refilled(k)' <= Refilled(k) + Rate
      <4>1. CASE buckets[k] = NoBucket
        BY <4>1, <1>2 DEF Refilled
      <4>2. CASE buckets[k] # NoBucket
        <5> DEFINE x == buckets[k].tokens
                   y == Rate * (now - buckets[k].lastSeen)
                   z == Rate * ((now + 1) - buckets[k].lastSeen)
        <5>1. buckets[k].lastSeen \in Nat /\ x \in Int
          BY <4>2, <1>1 DEF LimiterTypes
        <5>2. z = y + Rate /\ y \in Int
          <6>1. now \in Int /\ buckets[k].lastSeen \in Int /\ Rate \in Nat
            BY <5>1, <1>2
          <6> QED  BY <6>1, Products, Zenon
        <5>3. Refilled(k) = IF x + y < Burst THEN x + y ELSE Burst
          BY <4>2 DEF Refilled
        <5>4. Refilled(k)' = IF x + z < Burst THEN x + z ELSE Burst
          <6>1. Refilled(k)' = LET s == buckets'[k].tokens + Rate * (now' - buckets'[k].lastSeen)
                               IN IF s < Burst THEN s ELSE Burst
            BY <4>2, <1>2, Zenon DEF Refilled
          <6>2. buckets'[k].tokens + Rate * (now' - buckets'[k].lastSeen)
                  = buckets[k].tokens + Rate * ((now + 1) - buckets[k].lastSeen)
            <7>1. buckets'[k].tokens = buckets[k].tokens /\ buckets'[k].lastSeen = buckets[k].lastSeen
              BY <1>2, Zenon
            <7>2. now' - buckets'[k].lastSeen = (now + 1) - buckets[k].lastSeen
              BY <7>1, <1>2, Zenon
            <7> QED  BY <7>1, <7>2, Zenon
          <6> QED  BY <6>1, <6>2, Zenon
        <5> HIDE DEF x, y, z
        <5> QED  BY <5>1, <5>2, <5>3, <5>4
      <4> QED  BY <4>1, <4>2
    <3>4. Rate * ((now + 1) - t) = Rate * (now - t) + Rate /\ Rate * (now - t) \in Int
      BY <1>2, <2>4, Products
    <3>5. Unit * (granted[k] - mark[k][t]) \in Int
      <4>1. Unit \in Nat /\ granted[k] \in Int /\ mark[k][t] \in Int
        BY <3>1, <2>2
      <4> QED  BY <4>1, Products, Zenon
    <3>6. Budget(k, t)' <=> Unit * (granted[k] - mark[k][t]) + Refilled(k)' <= Burst + Rate * ((now + 1) - t)
      BY <3>1, <1>2 DEF Budget
    <3>7. PICK u, w : u = Unit * (granted[k] - mark[k][t]) /\ w = Rate * (now - t)
      OBVIOUS
    <3>8. u + Refilled(k) <= Burst + w /\ u \in Int /\ w \in Int
      BY <3>2, <3>4, <3>5, <3>7 DEF Budget
    <3>9. u + Refilled(k)' <= Burst + (w + Rate)
      BY <3>3, <3>8, <2>1, LimiterAssumption
    <3> QED  BY <3>4, <3>6, <3>7, <3>9
  <2> QED  BY <2>3, <2>4, <1>2
<1> QED  BY <1>1, <1>3 DEF LimiterInv

\* A call of Allow, with whatever answer, leaves tokens in its own bucket only.
LEMMA LeaveTypes ==
  ASSUME LimiterTypes, NEW k \in Keys, NEW n \in 0..Burst, Leave(k, n),
         UNCHANGED <<now, mark>>, granted' \in [Keys -> Nat]
  PROVE  /\ LimiterTypes'
         /\ Refilled(k)' = n
         /\ \A j \in Keys : j # k => Refilled(j)' = Refilled(j)
<1> USE LimiterAssumption
<1>1. buckets'[k] = [tokens |-> n, lastSeen |-> now] /\ \A j \in Keys : j # k => buckets'[j] = buckets[j]
  BY DEF Leave, LimiterTypes
<1>2. now' = now /\ now \in Nat
  BY DEF LimiterTypes
<1>3. buckets'[k] # NoBucket
  BY <1>1, <1>2
<1>4. LimiterTypes'
  <2>1. buckets' \in [Keys -> {NoBucket} \union [tokens : 0..Burst, lastSeen : Nat]]
    BY <1>2 DEF Leave, LimiterTypes
  <2>2. \A j \in Keys : buckets'[j] # NoBucket => buckets'[j].lastSeen <= now'
    <3>1. buckets'[k].lastSeen <= now'
      BY <1>1, <1>2
    <3> QED  BY <3>1, <1>1, <1>2 DEF LimiterTypes
  <2> QED  BY <2>1, <2>2 DEF LimiterTypes
<1>5. Refilled(k)' = n
  <2>1. Rate * (now - now) = 0
    BY <1>2, Products
  <2> QED  BY <1>1, <1>2, <1>3, <2>1 DEF Refilled
<1>6. \A j \in Keys : j # k => Refilled(j)' = Refilled(j)
  BY <1>1, <1>2 DEF Refilled
<1> QED  BY <1>4, <1>5, <1>6

\* What is let through is taken from what could be taken.
LEMMA AllowInv ==
  ASSUME LimiterInv, NEW k \in Keys, Allow(k)
  PROVE  LimiterInv'
<1> USE LimiterAssumption
<1>1. LimiterTypes /\ Refilled(k) \in 0..Burst /\ Refilled(k) >= Unit
  BY RefilledType DEF LimiterInv, Allow
<1>2. Refilled(k) - Unit \in 0..Burst
  BY <1>1
<1>3. granted' \in [Keys -> Nat] /\ granted'[k] = granted[k] + 1
      /\ \A j \in Keys : j # k => granted'[j] = granted[j]
  BY <1>1 DEF Allow, LimiterTypes
<1>4. Leave(k, Refilled(k) - Unit) /\ now' = now /\ mark' = mark
  BY DEF Allow
<1>5. /\ LimiterTypes'
      /\ Refilled(k)' = Refilled(k) - Unit
      /\ \A j \in Keys : j # k => Refilled(j)' = Refilled(j)
  <2> HIDE DEF Refilled
  <2> QED  BY <1>1, <1>2, <1>3, <1>4, LeaveTypes
<1>6. ASSUME NEW j \in Keys, NEW t \in 0..now' PROVE Budget(j, t)'
  <2>1. Budget(j, t)
    BY <1>4 DEF LimiterInv
  <2>2. CASE j # k
    BY <2>1, <2>2, <1>3, <1>4, <1>5 DEF Budget
  <2>3. CASE j = k
    <3>1. granted[k] \in Nat /\ mark[k][t] \in Nat /\ now \in Nat /\ t \in Nat
      BY <1>1, <1>4 DEF LimiterTypes
    <3>2. Unit * ((granted[k] + 1) - mark[k][t]) = Unit * (granted[k] - mark[k][t]) + Unit
          /\ Unit * (granted[k] - mark[k][t]) \in Int /\ Rate * (now - t) \in Int
      BY <3>1, Products
    <3>3. Budget(j, t)' <=> Unit * ((granted[k] + 1) - mark[k][t]) + (Refilled(k) - Unit)
                              <= Burst + Rate * (now - t)
      <4>1. Budget(k, t)' <=> Unit * (granted'[k] - mark'[k][t]) + Refilled(k)'
                                <= Burst + Rate * (now' - t)
        BY Zenon DEF Budget
      <4>2. granted'[k] - mark'[k][t] = (granted[k] + 1) - mark[k][t] /\ now' - t = now - t
        BY <1>3, <1>4, Zenon
      <4>3. Refilled(k)' = Refilled(k) - Unit
        BY <1>5, Zenon
      <4> QED  BY <4>1, <4>2, <4>3, <2>3, Zenon
    <3>4. Unit * (granted[k] - mark[k][t]) + Refilled(k) <= Burst + Rate * (now - t)
      BY <2>1, <2>3 DEF Budget
    <3> DEFINE u == Unit * (granted[k] - mark[k][t])
               v == Unit * ((granted[k] + 1) - mark[k][t])
               w == Rate * (now - t)
               f == Refilled(k)
    <3>5. v = u + Unit /\ u \in Int /\ w \in Int /\ f \in Int /\ u + f <= Burst + w
      BY <3>2, <3>4, <1>1
    <3>6. Budget(j, t)' <=> v + (f - Unit) <= Burst + w
      BY <3>3
    <3> HIDE DEF u, v, w, f
    <3> QED  BY <3>5, <3>6
  <2> QED  BY <2>2, <2>3
<1> QED  BY <1>5, <1>6 DEF LimiterInv

\* A refusal keeps the refill.
LEMMA DenyInv ==
  ASSUME LimiterInv, NEW k \in Keys, Deny(k)
  PROVE  LimiterInv'
<1>1. LimiterTypes /\ Refilled(k) \in 0..Burst
  BY RefilledType DEF LimiterInv
<1>2. Leave(k, Refilled(k)) /\ now' = now /\ mark' = mark /\ granted' = granted
      /\ granted \in [Keys -> Nat]
  BY <1>1 DEF Deny, LimiterTypes
<1>3. LimiterTypes' /\ \A j \in Keys : Refilled(j)' = Refilled(j)
  BY <1>1, <1>2, LeaveTypes
<1>4. ASSUME NEW j \in Keys, NEW t \in 0..now' PROVE Budget(j, t)'
  BY <1>2, <1>3 DEF Budget, LimiterInv
<1> QED  BY <1>3, <1>4 DEF LimiterInv

\* Every step of the limiter keeps its invariant.
LEMMA LimiterStep == LimiterInv /\ [LimiterNext]_limiterVars => LimiterInv'
<1> SUFFICES ASSUME LimiterInv, [LimiterNext]_limiterVars PROVE LimiterInv'
  OBVIOUS
<1>1. CASE Tick
  BY <1>1, TickInv
<1>2. ASSUME NEW k \in Keys, Allow(k) \/ Deny(k) PROVE LimiterInv'
  BY <1>2, AllowInv, DenyInv
<1>3. CASE UNCHANGED limiterVars
  BY <1>3 DEF LimiterInv, LimiterTypes, Budget, Refilled, limiterVars
<1> QED  BY <1>1, <1>2, <1>3 DEF LimiterNext

\* A budget that is never overdrawn bounds what a window lets through.
LEMMA LimiterInvBound == LimiterInv => WithinBurstAndRate
<1> SUFFICES ASSUME LimiterInv, NEW k \in Keys, NEW t \in 0..now
             PROVE  Unit * (granted[k] - mark[k][t]) <= Burst + Rate * (now - t)
  BY DEF WithinBurstAndRate
<1> USE LimiterAssumption
<1>1. LimiterTypes /\ Refilled(k) \in 0..Burst /\ Budget(k, t)
  BY RefilledType DEF LimiterInv
<1>2. now \in Nat /\ granted[k] \in Nat /\ mark[k][t] \in Nat
  BY <1>1 DEF LimiterTypes
<1>3. Unit * (granted[k] - mark[k][t]) \in Int /\ Rate * (now - t) \in Int
  BY <1>2, Products
<1> QED  BY <1>1, <1>3 DEF Budget

\* The limiter on its own (Allow of ratelimit.go): over any window, the burst plus
\* the rate times the window.
THEOREM LimiterBound == LimiterSpec => []WithinBurstAndRate
<1>1. LimiterInit => LimiterInv  BY LimiterInitInv
<1>2. LimiterInv /\ [LimiterNext]_limiterVars => LimiterInv'  BY LimiterStep
<1>3. LimiterInv => WithinBurstAndRate  BY LimiterInvBound
<1> QED  BY <1>1, <1>2, <1>3, PTL DEF LimiterSpec

-----------------------------------------------------------------------------
(* The edge *)

Types ==
  /\ LimiterInv
  /\ users \subseteq [account : Registered, email : Spellings, password : Passwords]
  /\ seeds \subseteq Registered
  /\ tokens \subseteq [sub : Accounts, kind : {"access", "refresh", "demo"}, exp : Nat]
  /\ req \in [Handlers -> Requests]
  /\ posted \in [Accounts -> 0..MaxTrades]
  /\ session \in [Accounts -> -1..MaxTime]
  /\ signedIn \in [Mailboxes -> SUBSET Registered]

\* An address is in the table once, in its canonical form, and stays there.
Mailbox(b) == [box |-> b, canonical |-> TRUE]
Owns(a, e) == \E u \in users : u.account = a /\ u.email = e
OneOwner ==
  /\ \A u, v \in users : u.email = v.email => u.account = v.account
  /\ \A h \in Handlers : Step(h, "create") => req[h].email.canonical = TRUE
  /\ \A h \in Handlers : Step(h, "seed") \/ Step(h, "issue") =>
       req[h].email.canonical = TRUE /\ Owns(req[h].account, req[h].email)
  /\ \A u \in users : u.email.canonical = TRUE
  /\ \A b \in Mailboxes : \A a \in signedIn[b] : Owns(a, Mailbox(b))

\* What a snapshot in the making knows of the tables, which only grow.
Reading(r) ==
  /\ r.since <= posted[r.account]
  /\ r.opened => r.account \in seeds
  /\ r.step \in {"tradeCash", "positions", "reply"} => (r.opened => r.seeded)
  /\ (r.step \in {"positions", "reply"} /\ ~r.failed) =>
       r.since <= r.cash /\ r.cash <= posted[r.account]
  /\ (r.step = "reply" /\ ~r.failed) => r.cash <= r.pos
Snapshots ==
  \A h \in Handlers :
    (req[h] # Idle /\ req[h].step \in {"seedCash", "tradeCash", "positions", "reply"}) => Reading(req[h])

\* A token runs out no later than its kind's lifetime after the last minting, and
\* demo tokens are all that demo accounts have.
Lifetime(kind) == IF kind = "demo" THEN DemoTTL ELSE IF kind = "refresh" THEN RefreshTTL ELSE AccessTTL
Minted ==
  /\ \A a \in Accounts : session[a] <= now
  /\ \A t \in tokens :
       /\ session[t.sub] >= 0 /\ t.exp <= session[t.sub] + Lifetime(t.kind)
       /\ t.kind = "demo" <=> t.sub \in Demos
-----------------------------------------------------------------------------
(* The limiter inside the edge. *)

\* Each step of the edge is a step of the limiter or leaves it alone.
LEMMA EdgeLimits == [Next]_vars => [LimiterNext]_limiterVars
  BY DEF Next, vars, LimiterNext, TooMany, Refuse, Login, Signup, DemoSession, Refresh, Account,
         Create, Seed, IssueTokens, Query, Reply, PostTrade, limiterVars

\* The limiter's bound holds of the whole edge: every route goes through it first
\* (Routes, RateLimiter.Middleware).
THEOREM EdgeBound == Spec => []WithinBurstAndRate
<1>1. Init => LimiterInv
  BY LimiterInitInv DEF Init
<1>2. LimiterInv /\ [Next]_vars => LimiterInv'
  BY EdgeLimits, LimiterStep
<1>3. LimiterInv => WithinBurstAndRate
  BY LimiterInvBound
<1> QED  BY <1>1, <1>2, <1>3, PTL DEF Spec
-----------------------------------------------------------------------------
(* Types. *)

\* The types hold at the start.
LEMMA InitTypes == Init => Types
<1> SUFFICES ASSUME Init PROVE Types
  OBVIOUS
<1> USE LimiterAssumption, SessionsAssumption
<1>1. LimiterInv
  BY LimiterInitInv DEF Init
<1> QED  BY <1>1 DEF Init, Types, Requests, Accounts

\* The shape of a request about to do something.
LEMMA Shapes ==
  ASSUME Types, NEW h \in Handlers
  PROVE  /\ Step(h, "create") => req[h] \in [step : {"create"}, account : Registered, email : Spellings, password : Passwords]
         /\ (Step(h, "seed") \/ Step(h, "issue")) =>
              req[h] \in [step : {"seed", "issue"}, account : Registered, email : Spellings]
         /\ (req[h] # Idle /\ req[h].step \in {"seedCash", "tradeCash", "positions", "reply"}) =>
              req[h] \in [step : {"seedCash", "tradeCash", "positions", "reply"}, account : Accounts,
                          since : 0..MaxTrades, opened : BOOLEAN, seeded : BOOLEAN,
                          cash : 0..MaxTrades, pos : 0..MaxTrades, failed : BOOLEAN]
<1>1. req[h] \in Requests
  BY DEF Types
<1>2. req[h] \in Requests /\ Step(h, "create") =>
        req[h] \in [step : {"create"}, account : Registered, email : Spellings, password : Passwords]
  BY DEF Requests, Step
<1>3. req[h] \in Requests /\ (Step(h, "seed") \/ Step(h, "issue")) =>
        req[h] \in [step : {"seed", "issue"}, account : Registered, email : Spellings]
  BY DEF Requests, Step
<1>4. (req[h] \in Requests /\ req[h] # Idle /\ req[h].step \in {"seedCash", "tradeCash", "positions", "reply"}) =>
              req[h] \in [step : {"seedCash", "tradeCash", "positions", "reply"}, account : Accounts,
                          since : 0..MaxTrades, opened : BOOLEAN, seeded : BOOLEAN,
                          cash : 0..MaxTrades, pos : 0..MaxTrades, failed : BOOLEAN]
  BY DEF Requests
<1> QED  BY <1>1, <1>2, <1>3, <1>4

\* Goto changes the request of one handler.
LEMMA GotoOne ==
  ASSUME Types, NEW h \in Handlers, NEW r, Goto(h, r)
  PROVE  /\ req'[h] = r
         /\ \A g \in Handlers : g # h => req'[g] = req[g]
         /\ r \in Requests => req' \in [Handlers -> Requests]
  BY DEF Goto, Types

\* A query of accountFromDB fails, or stores one value and goes on to the next.
Kept(r, s) == s.account = r.account /\ s.since = r.since /\ s.opened = r.opened

\* The statements of accountFromDB, each with what it reads.
LEMMA QueryCases ==
  ASSUME Types, NEW h \in Handlers, Query(h)
  PROVE  /\ \A g \in Handlers : g # h => req'[g] = req[g]
         /\ \/ req'[h] = Idle
            \/ /\ req[h].step = "seedCash" /\ req'[h].step = "tradeCash" /\ Kept(req[h], req'[h])
               /\ req'[h].seeded = (req[h].account \in seeds)
            \/ /\ req[h].step = "tradeCash" /\ req'[h].step = "positions" /\ Kept(req[h], req'[h])
               /\ req'[h].seeded = req[h].seeded /\ req'[h].cash = posted[req[h].account]
            \/ /\ req[h].step # "seedCash" /\ req'[h].step \in {"positions", "reply"} /\ Kept(req[h], req'[h])
               /\ req'[h].seeded = req[h].seeded /\ req'[h].failed = TRUE
            \/ /\ req[h].step = "positions" /\ req'[h].step = "reply" /\ Kept(req[h], req'[h])
               /\ req'[h].seeded = req[h].seeded /\ req'[h].failed = req[h].failed
               /\ req'[h].cash = req[h].cash /\ req'[h].pos = posted[req[h].account]
<1> DEFINE r == req[h]
           next == [r EXCEPT !.step = After(r.step)]
<1>1. r \in [step : {"seedCash", "tradeCash", "positions", "reply"}, account : Accounts,
             since : 0..MaxTrades, opened : BOOLEAN, seeded : BOOLEAN,
             cash : 0..MaxTrades, pos : 0..MaxTrades, failed : BOOLEAN]
  BY Shapes DEF Query
<1>2. \A x : Goto(h, x) => req'[h] = x /\ \A g \in Handlers : g # h => req'[g] = req[g]
  BY GotoOne
<1>3. CASE Goto(h, Idle)
  BY <1>3, <1>2
<1>4. CASE r.step = "seedCash" /\ Goto(h, [next EXCEPT !.seeded = r.account \in seeds])
  <2>1. req'[h] = [[r EXCEPT !.step = "tradeCash"] EXCEPT !.seeded = r.account \in seeds]
    BY <1>4, <1>2 DEF After
  <2> QED  BY <1>1, <1>2, <1>4, <2>1 DEF Kept
<1>5. CASE r.step = "tradeCash" /\ Goto(h, [next EXCEPT !.cash = posted[r.account]])
  <2>1. req'[h] = [[r EXCEPT !.step = "positions"] EXCEPT !.cash = posted[r.account]]
    BY <1>5, <1>2 DEF After
  <2> QED  BY <1>1, <1>2, <1>5, <2>1 DEF Kept
<1>6. CASE r.step = "positions" /\ Goto(h, [next EXCEPT !.pos = posted[r.account]])
  <2>1. req'[h] = [[r EXCEPT !.step = "reply"] EXCEPT !.pos = posted[r.account]]
    BY <1>6, <1>2 DEF After
  <2> QED  BY <1>1, <1>2, <1>6, <2>1 DEF Kept
<1>7. CASE r.step # "seedCash" /\ Goto(h, [next EXCEPT !.failed = TRUE])
  <2>1. r.step \in {"tradeCash", "positions"}
    BY <1>1, <1>7 DEF Query
  <2>2. After(r.step) \in {"positions", "reply"}
    BY <2>1 DEF After
  <2>3. req'[h] = [[r EXCEPT !.step = After(r.step)] EXCEPT !.failed = TRUE]
    BY <1>7, <1>2
  <2> QED  BY <1>1, <1>2, <1>7, <2>2, <2>3 DEF Kept
<1> HIDE DEF Goto
<1> QED  BY <1>3, <1>4, <1>5, <1>6, <1>7 DEF Query

\* A normalised address is canonical.
LEMMA NormalizeType ==
  ASSUME NEW e \in Spellings
  PROVE  NormalizeEmail(e) \in Spellings /\ NormalizeEmail(e).canonical = TRUE
  BY DEF NormalizeEmail, Spellings

\* A token minted for an account has its claims.
LEMMA MintType ==
  ASSUME Types, NEW a \in Accounts, NEW kind \in {"access", "refresh", "demo"}
  PROVE  /\ Mint(a, kind, Lifetime(kind)) \in [sub : Accounts, kind : {"access", "refresh", "demo"}, exp : Nat]
         /\ Mint(a, kind, Lifetime(kind)).sub = a
         /\ Mint(a, kind, Lifetime(kind)).kind = kind
         /\ Mint(a, kind, Lifetime(kind)).exp = now + Lifetime(kind)
<1>1. now \in Nat
  BY LimiterAssumption DEF Types, LimiterInv, LimiterTypes
<1>2. Lifetime(kind) \in Nat
  BY SessionsAssumption DEF Lifetime
<1> QED  BY <1>1, <1>2 DEF Mint

\* Every step keeps the types.
LEMMA NextTypes == Types /\ [Next]_vars => Types'
<1> SUFFICES ASSUME Types, [Next]_vars PROVE Types'
  OBVIOUS
<1> USE LimiterAssumption, SessionsAssumption
<1>1. LimiterInv'
  BY EdgeLimits, LimiterStep DEF Types
<1>2. now \in 0..MaxTime
  BY DEF Types, LimiterInv, LimiterTypes
<1>3. CASE UNCHANGED edgeVars
  BY <1>1, <1>3 DEF Types, edgeVars
<1>4. ASSUME NEW h \in Handlers, NEW k \in Keys, NEW e \in Spellings, NEW p \in Passwords,
             NEW a \in Registered, Signup(h, k, e, p, a)
      PROVE  Types'
  <2>1. [step |-> "create", account |-> a, email |-> NormalizeEmail(e), password |-> p] \in Requests
    BY NormalizeType DEF Requests
  <2>2. req' \in [Handlers -> Requests]
    BY <1>4, <2>1, GotoOne DEF Signup
  <2> QED  BY <1>1, <1>4, <2>2 DEF Types, Signup
<1>5. ASSUME NEW h \in Handlers, Create(h) PROVE Types'
  <2>1. req[h] \in [step : {"create"}, account : Registered, email : Spellings, password : Passwords]
    BY <1>5, Shapes DEF Create
  <2>2. [step |-> "seed", account |-> req[h].account, email |-> req[h].email] \in Requests /\ Idle \in Requests
    BY <2>1 DEF Requests
  <2>3. req' \in [Handlers -> Requests]
    BY <1>5, <2>2, GotoOne DEF Create
  <2>4. users' \subseteq [account : Registered, email : Spellings, password : Passwords]
    BY <1>5, <2>1 DEF Create, Types
  <2> QED  BY <1>1, <1>5, <2>3, <2>4 DEF Types, Create
<1>6. ASSUME NEW h \in Handlers, Seed(h) PROVE Types'
  <2>1. req[h] \in [step : {"seed", "issue"}, account : Registered, email : Spellings]
    BY <1>6, Shapes DEF Seed
  <2>2. [req[h] EXCEPT !.step = "issue"] \in Requests
    BY <2>1 DEF Requests
  <2>3. req' \in [Handlers -> Requests]
    BY <1>6, <2>2, GotoOne DEF Seed
  <2> QED  BY <1>1, <1>6, <2>1, <2>3 DEF Types, Seed
<1>7. ASSUME NEW h \in Handlers, NEW k \in Keys, NEW e \in Spellings, NEW p \in Passwords,
             Login(h, k, e, p)
      PROVE  Types'
  <2>1. PICK u \in users : Goto(h, [step |-> "issue", account |-> u.account, email |-> u.email])
    BY <1>7 DEF Login
  <2>2. [step |-> "issue", account |-> u.account, email |-> u.email] \in Requests
    BY DEF Types, Requests
  <2>3. req' \in [Handlers -> Requests]
    BY <2>1, <2>2, GotoOne
  <2> QED  BY <1>1, <1>7, <2>3 DEF Types, Login
<1>8. ASSUME NEW h \in Handlers, IssueTokens(h) PROVE Types'
  <2>1. req[h] \in [step : {"seed", "issue"}, account : Registered, email : Spellings]
    BY <1>8, Shapes DEF IssueTokens
  <2>2. req' \in [Handlers -> Requests]
    BY <1>8, GotoOne DEF IssueTokens, Requests
  <2>3. req[h].account \in Accounts /\ req[h].email.box \in Mailboxes /\ req[h].account \in Registered
    BY <2>1 DEF Accounts, Spellings
  <2>4. tokens' \subseteq [sub : Accounts, kind : {"access", "refresh", "demo"}, exp : Nat]
    <3>1. tokens' = tokens \union {Mint(req[h].account, "access", Lifetime("access")),
                                    Mint(req[h].account, "refresh", Lifetime("refresh"))}
      BY <1>8 DEF IssueTokens, Lifetime
    <3> QED  BY <3>1, <2>3, MintType DEF Types
  <2>5. session' \in [Accounts -> -1..MaxTime]
    BY <1>8, <1>2, <2>3 DEF IssueTokens, Types
  <2>6. signedIn' \in [Mailboxes -> SUBSET Registered]
    BY <1>8, <2>3 DEF IssueTokens, Types
  <2> QED  BY <1>1, <1>8, <2>2, <2>4, <2>5, <2>6 DEF Types, IssueTokens
<1>9. ASSUME NEW k \in Keys, NEW t \in tokens, Refresh(k, t) PROVE Types'
  <2>1. t.sub \in Accounts
    BY DEF Types
  <2>2. tokens' \subseteq [sub : Accounts, kind : {"access", "refresh", "demo"}, exp : Nat]
    <3>1. tokens' = tokens \union {Mint(t.sub, "access", Lifetime("access")),
                                    Mint(t.sub, "refresh", Lifetime("refresh"))}
      BY <1>9 DEF Refresh, Lifetime
    <3> QED  BY <3>1, <2>1, MintType DEF Types
  <2>3. session' \in [Accounts -> -1..MaxTime]
    BY <1>9, <1>2, <2>1 DEF Refresh, Types
  <2> QED  BY <1>1, <1>9, <2>2, <2>3 DEF Types, Refresh
<1>10. ASSUME NEW k \in Keys, NEW a \in Demos, DemoSession(k, a) PROVE Types'
  <2>1. a \in Accounts
    BY DEF Accounts
  <2>2. tokens' \subseteq [sub : Accounts, kind : {"access", "refresh", "demo"}, exp : Nat]
    <3>1. tokens' = tokens \union {Mint(a, "demo", Lifetime("demo"))}
      BY <1>10 DEF DemoSession, Lifetime
    <3> QED  BY <3>1, <2>1, MintType DEF Types
  <2>3. session' \in [Accounts -> -1..MaxTime]
    BY <1>10, <1>2, <2>1 DEF DemoSession, Types
  <2> QED  BY <1>1, <1>10, <2>2, <2>3 DEF Types, DemoSession
<1>11. ASSUME NEW h \in Handlers, NEW k \in Keys, NEW t \in tokens, Account(h, k, t) PROVE Types'
  <2>1. t.sub \in Accounts /\ posted[t.sub] \in 0..MaxTrades
    BY DEF Types
  <2>2. [step |-> "seedCash", account |-> t.sub, since |-> posted[t.sub],
         opened |-> t.sub \in seeds, seeded |-> FALSE, cash |-> 0, pos |-> 0, failed |-> FALSE] \in Requests
    BY <2>1 DEF Requests
  <2>3. req' \in [Handlers -> Requests]
    BY <1>11, <2>2, GotoOne DEF Account
  <2> QED  BY <1>1, <1>11, <2>3 DEF Types, Account
<1>12. ASSUME NEW h \in Handlers, Query(h) PROVE Types'
  <2> DEFINE R == [step : {"seedCash", "tradeCash", "positions", "reply"}, account : Accounts,
                   since : 0..MaxTrades, opened : BOOLEAN, seeded : BOOLEAN,
                   cash : 0..MaxTrades, pos : 0..MaxTrades, failed : BOOLEAN]
  <2>1. req[h] \in R /\ req[h].step \in {"seedCash", "tradeCash", "positions"}
    BY <1>12, Shapes DEF Query
  <2>2. posted[req[h].account] \in 0..MaxTrades
    BY <2>1 DEF Types
  <2>3. After(req[h].step) \in {"tradeCash", "positions", "reply"}
    BY <2>1 DEF After
  <2> DEFINE n == [req[h] EXCEPT !.step = After(req[h].step)]
  <2>4. n \in R
    BY <2>1, <2>3
  <2>5. /\ [n EXCEPT !.seeded = req[h].account \in seeds] \in R
        /\ [n EXCEPT !.cash = posted[req[h].account]] \in R
        /\ [n EXCEPT !.pos = posted[req[h].account]] \in R
        /\ [n EXCEPT !.failed = TRUE] \in R
    <3>1. ASSUME NEW m \in R, NEW b \in BOOLEAN, NEW c \in 0..MaxTrades
          PROVE  /\ [m EXCEPT !.seeded = b] \in R /\ [m EXCEPT !.failed = b] \in R
                 /\ [m EXCEPT !.cash = c] \in R /\ [m EXCEPT !.pos = c] \in R
      OBVIOUS
    <3>2. (req[h].account \in seeds) \in BOOLEAN
      OBVIOUS
    <3> HIDE DEF n, R
    <3> QED  BY <3>1, <3>2, <2>4, <2>2, Zenon
  <2>6. \E r \in R \union {Idle} : Goto(h, r)
    BY <1>12, <2>5 DEF Query
  <2>7. req' \in [Handlers -> Requests]
    BY <2>6, GotoOne DEF Requests
  <2> QED  BY <1>1, <1>12, <2>7 DEF Types, Query
<1>13. ASSUME NEW h \in Handlers, Reply(h) PROVE Types'
  <2>1. req' \in [Handlers -> Requests]
    BY <1>13, GotoOne DEF Reply, Requests
  <2> QED  BY <1>1, <1>13, <2>1 DEF Types, Reply
<1>14. ASSUME NEW a \in Accounts, PostTrade(a) PROVE Types'
  <2>1. posted' \in [Accounts -> 0..MaxTrades]
    BY <1>14 DEF Types, PostTrade
  <2> QED  BY <1>1, <1>14, <2>1 DEF Types, PostTrade
<1> QED
  BY <1>3, <1>4, <1>5, <1>6, <1>7, <1>8, <1>9, <1>10, <1>11, <1>12, <1>13, <1>14
  DEF Next, TooMany, Refuse, vars

\* Types of every step of the edge; the buckets stay between nothing and the burst.
THEOREM EdgeTypes == Spec => []SessionsTypeOK
<1>1. Types => SessionsTypeOK
  BY LimiterAssumption DEF Types, SessionsTypeOK, LimiterInv, LimiterTypes
<1> QED  BY <1>1, InitTypes, NextTypes, PTL DEF Spec
-----------------------------------------------------------------------------
(* One account to a mailbox. *)

\* Accounts are never taken out of the table.
LEMMA OwnsGrows ==
  ASSUME users \subseteq users', NEW a, NEW e, Owns(a, e)
  PROVE  Owns(a, e)'
  BY DEF Owns

\* A step that leaves the table and signedIn alone and moves one request keeps
\* OneOwner if the request's new step does.
LEMMA OwnerMoves ==
  ASSUME OneOwner, UNCHANGED <<users, signedIn>>, NEW h \in Handlers,
         \A g \in Handlers : g # h => req'[g] = req[g],
         Step(h, "create")' => req'[h].email.canonical = TRUE,
         (Step(h, "seed") \/ Step(h, "issue"))' =>
           req'[h].email.canonical = TRUE /\ Owns(req'[h].account, req'[h].email)
  PROVE  OneOwner'
<1>1. \A a, e : Owns(a, e)' <=> Owns(a, e)
  BY DEF Owns
<1>2. \A g \in Handlers : g # h => \A s : Step(g, s)' <=> Step(g, s)
  BY DEF Step
<1> QED  BY <1>1, <1>2 DEF OneOwner

\* The insert of a signup creates an owner only if the mailbox has none.
LEMMA CreateOwner ==
  ASSUME Types, OneOwner, NEW h \in Handlers, Create(h)
  PROVE  OneOwner'
<1>1. req[h] \in [step : {"create"}, account : Registered, email : Spellings, password : Passwords]
      /\ req[h].email.canonical = TRUE /\ signedIn' = signedIn
  BY Shapes DEF Create, OneOwner
<1>2. CASE Goto(h, Idle) /\ UNCHANGED users
  <2>1. req'[h] = Idle /\ \A g \in Handlers : g # h => req'[g] = req[g]
    BY <1>2, GotoOne
  <2>2. ~Step(h, "create")' /\ ~Step(h, "seed")' /\ ~Step(h, "issue")'
    BY <2>1 DEF Step
  <2> QED  BY <1>1, <1>2, <2>1, <2>2, OwnerMoves
<1>3. ASSUME ~Taken(req[h].email),
             users' = users \union {[account |-> req[h].account, email |-> req[h].email,
                                     password |-> req[h].password]},
             Goto(h, [step |-> "seed", account |-> req[h].account, email |-> req[h].email])
      PROVE  OneOwner'
  <2> DEFINE u == [account |-> req[h].account, email |-> req[h].email, password |-> req[h].password]
             r == [step |-> "seed", account |-> req[h].account, email |-> req[h].email]
  <2>1. req'[h] = r /\ \A g \in Handlers : g # h => req'[g] = req[g]
    BY <1>3, GotoOne
  <2>2. \A v \in users : v.email # u.email
    BY <1>3 DEF Taken
  <2>3. u.account = req[h].account /\ u.email = req[h].email /\ u.email.canonical = TRUE
        /\ r.account = req[h].account /\ r.email = req[h].email /\ r.step = "seed"
    BY <1>1
  <2>4. u \in users' /\ users \subseteq users'
    BY <1>3
  <2>5. \A v \in users' : v \in users \/ v = u
    BY <1>3
  <2> HIDE DEF u, r
  <2>6. \A v, w \in users' : v.email = w.email => v.account = w.account
    BY <2>2, <2>5 DEF OneOwner
  <2>7. \A v \in users' : v.email.canonical = TRUE
    BY <2>3, <2>5 DEF OneOwner
  <2>8. \A a, e : Owns(a, e) => Owns(a, e)'
    BY <2>4 DEF Owns
  <2>9. Owns(req[h].account, req[h].email)' /\ req'[h].email.canonical = TRUE /\ req'[h].step = "seed"
    BY <2>1, <2>3, <2>4 DEF Owns
  <2>10. \A g \in Handlers : g # h => \A s : Step(g, s)' <=> Step(g, s)
    BY <2>1 DEF Step
  <2>11. \A g \in Handlers : Step(g, "create")' => req'[g].email.canonical = TRUE
    BY <2>1, <2>9, <2>10 DEF OneOwner, Step
  <2>12. \A g \in Handlers : (Step(g, "seed") \/ Step(g, "issue"))' =>
           req'[g].email.canonical = TRUE /\ Owns(req[g].account, req[g].email)'
    <3> SUFFICES ASSUME NEW g \in Handlers, (Step(g, "seed") \/ Step(g, "issue"))'
                 PROVE  req'[g].email.canonical = TRUE /\ Owns(req[g].account, req[g].email)'
      OBVIOUS
    <3>1. CASE g = h
      BY <3>1, <2>9
    <3>2. CASE g # h
      <4>1. req'[g] = req[g] /\ req[g].email.canonical = TRUE /\ Owns(req[g].account, req[g].email)
        BY <3>2, <2>1, <2>10 DEF OneOwner
      <4> QED  BY <4>1, <2>4 DEF Owns
    <3> QED  BY <3>1, <3>2
  <2>13. \A b \in Mailboxes : \A a \in signedIn'[b] : Owns(a, Mailbox(b))'
    BY <1>1, <2>8 DEF OneOwner
  <2> QED  BY <2>6, <2>7, <2>11, <2>12, <2>13 DEF OneOwner, Mailbox
<1> QED  BY <1>2, <1>3 DEF Create

\* Tokens go to the owner of the mailbox.
LEMMA IssueOwner ==
  ASSUME Types, OneOwner, NEW h \in Handlers, IssueTokens(h)
  PROVE  OneOwner'
<1>1. req[h] \in [step : {"seed", "issue"}, account : Registered, email : Spellings]
      /\ req[h].email.canonical = TRUE /\ Owns(req[h].account, req[h].email) /\ users' = users
  BY Shapes DEF IssueTokens, OneOwner
<1> DEFINE b == req[h].email.box
           a == req[h].account
<1>2. req[h].email = Mailbox(b) /\ b \in Mailboxes
  BY <1>1 DEF Spellings, Mailbox
<1>3. req'[h] = Idle /\ \A g \in Handlers : g # h => req'[g] = req[g]
  BY GotoOne DEF IssueTokens
<1>4. \A x, e : Owns(x, e)' <=> Owns(x, e)
  BY <1>1 DEF Owns
<1>5. \A g \in Handlers : \A s : Step(g, s)' => Step(g, s) /\ req'[g] = req[g]
  BY <1>3 DEF Step
<1>6. \A c \in Mailboxes : \A x \in signedIn'[c] : x \in signedIn[c] \/ (x = a /\ c = b)
  BY <1>2 DEF IssueTokens, Types
<1>7. \A c \in Mailboxes : \A x \in signedIn'[c] : Owns(x, Mailbox(c))'
  BY <1>1, <1>2, <1>4, <1>6 DEF OneOwner
<1> QED  BY <1>1, <1>4, <1>5, <1>7 DEF OneOwner, Mailbox

\* Every step keeps one owner per mailbox.
LEMMA NextOwner == Types /\ OneOwner /\ [Next]_vars => OneOwner'
<1> SUFFICES ASSUME Types, OneOwner, [Next]_vars PROVE OneOwner'
  OBVIOUS
<1>1. CASE UNCHANGED <<users, req, signedIn>>
  BY <1>1 DEF OneOwner, Owns, Step, Mailbox
<1>2. ASSUME NEW h \in Handlers, NEW k \in Keys, NEW e \in Spellings, NEW p \in Passwords,
             NEW a \in Registered, Signup(h, k, e, p, a)
      PROVE  OneOwner'
  <2>1. req'[h] = [step |-> "create", account |-> a, email |-> NormalizeEmail(e), password |-> p]
        /\ (\A g \in Handlers : g # h => req'[g] = req[g]) /\ UNCHANGED <<users, signedIn>>
    BY <1>2, GotoOne DEF Signup
  <2>2. req'[h].email.canonical = TRUE /\ req'[h].step = "create"
    <3>1. NormalizeEmail(e).canonical = TRUE
      BY NormalizeType
    <3>2. req'[h].email = NormalizeEmail(e) /\ req'[h].step = "create"
      BY <2>1
    <3> QED  BY <3>1, <3>2
  <2> QED  BY <2>1, <2>2, OwnerMoves DEF Step
<1>3. ASSUME NEW h \in Handlers, Create(h) PROVE OneOwner'
  BY <1>3, CreateOwner
<1>4. ASSUME NEW h \in Handlers, Seed(h) PROVE OneOwner'
  <2>1. req'[h] = [req[h] EXCEPT !.step = "issue"]
        /\ (\A g \in Handlers : g # h => req'[g] = req[g]) /\ UNCHANGED <<users, signedIn>>
    BY <1>4, GotoOne DEF Seed
  <2>2. req[h] \in [step : {"seed", "issue"}, account : Registered, email : Spellings] /\ Step(h, "seed")
    BY <1>4, Shapes DEF Seed
  <2>3. req'[h].email = req[h].email /\ req'[h].account = req[h].account /\ req'[h].step = "issue"
    BY <2>1, <2>2
  <2>4. req[h].email.canonical = TRUE /\ Owns(req[h].account, req[h].email)
    BY <2>2 DEF OneOwner
  <2> QED  BY <2>1, <2>3, <2>4, OwnerMoves DEF Step
<1>5. ASSUME NEW h \in Handlers, NEW k \in Keys, NEW e \in Spellings, NEW p \in Passwords,
             Login(h, k, e, p)
      PROVE  OneOwner'
  <2>1. PICK u \in users : Goto(h, [step |-> "issue", account |-> u.account, email |-> u.email])
    BY <1>5 DEF Login
  <2>2. req'[h] = [step |-> "issue", account |-> u.account, email |-> u.email]
        /\ (\A g \in Handlers : g # h => req'[g] = req[g]) /\ UNCHANGED <<users, signedIn>>
    BY <1>5, <2>1, GotoOne DEF Login
  <2>3. req'[h].email = u.email /\ req'[h].account = u.account /\ req'[h].step = "issue"
    BY <2>2
  <2>4. u.email.canonical = TRUE /\ Owns(u.account, u.email)
    BY DEF OneOwner, Owns
  <2> QED  BY <2>2, <2>3, <2>4, OwnerMoves DEF Step
<1>6. ASSUME NEW h \in Handlers, IssueTokens(h) PROVE OneOwner'
  BY <1>6, IssueOwner
<1>7. ASSUME NEW h \in Handlers, NEW k \in Keys, NEW t \in tokens, Account(h, k, t) PROVE OneOwner'
  <2>1. PICK r : Goto(h, r) /\ r.step = "seedCash"
    BY <1>7 DEF Account
  <2>2. req'[h].step = "seedCash" /\ (\A g \in Handlers : g # h => req'[g] = req[g])
        /\ UNCHANGED <<users, signedIn>>
    BY <1>7, <2>1, GotoOne DEF Account
  <2> QED  BY <2>2, OwnerMoves DEF Step
<1>8. ASSUME NEW h \in Handlers, Query(h) PROVE OneOwner'
  <2>1. (req'[h] = Idle \/ req'[h].step \in {"tradeCash", "positions", "reply"})
        /\ (\A g \in Handlers : g # h => req'[g] = req[g]) /\ UNCHANGED <<users, signedIn>>
    BY <1>8, QueryCases DEF Query
  <2> QED  BY <2>1, OwnerMoves DEF Step
<1>9. ASSUME NEW h \in Handlers, Reply(h) PROVE OneOwner'
  <2>1. req'[h] = Idle /\ (\A g \in Handlers : g # h => req'[g] = req[g]) /\ UNCHANGED <<users, signedIn>>
    BY <1>9, GotoOne DEF Reply
  <2> QED  BY <2>1, OwnerMoves DEF Step
<1> QED
  BY <1>1, <1>2, <1>3, <1>4, <1>5, <1>6, <1>7, <1>8, <1>9
  DEF Next, TooMany, Refuse, Refresh, DemoSession, PostTrade, vars, edgeVars

\* However signups and logins of a mailbox interleave, its tokens are for one
\* account: the unique index of users.email and NormalizeEmail see to it.
THEOREM OneAccountPerMailbox == Spec => []MailboxNamesOneAccount
<1>1. Init => OneOwner
  BY DEF Init, OneOwner, Step
<1>2. Types /\ OneOwner => MailboxNamesOneAccount
  <2> SUFFICES ASSUME OneOwner, NEW b \in Mailboxes, NEW x \in signedIn[b], NEW y \in signedIn[b]
               PROVE  x = y
    BY DEF MailboxNamesOneAccount
  <2>1. PICK u \in users : u.account = x /\ u.email = Mailbox(b)
    BY DEF OneOwner, Owns
  <2>2. PICK v \in users : v.account = y /\ v.email = Mailbox(b)
    BY DEF OneOwner, Owns
  <2> QED  BY <2>1, <2>2 DEF OneOwner
<1> QED  BY <1>1, <1>2, InitTypes, NextTypes, NextOwner, PTL DEF Spec
-----------------------------------------------------------------------------
(* GET /account. *)

Views == {"seedCash", "tradeCash", "positions", "reply"}

\* The tables a snapshot reads only grow.
LEMMA TablesGrow ==
  ASSUME Types, [Next]_vars
  PROVE  seeds \subseteq seeds' /\ \A a \in Accounts : posted[a] <= posted'[a]
<1> USE SessionsAssumption
<1>1. CASE UNCHANGED <<seeds, posted>>
  BY <1>1 DEF Types
<1>2. ASSUME NEW h \in Handlers, Seed(h) PROVE seeds \subseteq seeds' /\ UNCHANGED posted
  BY <1>2 DEF Seed
<1>3. ASSUME NEW a \in Accounts, PostTrade(a)
      PROVE  UNCHANGED seeds /\ \A b \in Accounts : posted[b] <= posted'[b]
  BY <1>3 DEF PostTrade, Types
<1>4. UNCHANGED posted => \A a \in Accounts : posted[a] <= posted'[a]
  BY DEF Types
<1> QED
  BY <1>1, <1>2, <1>3, <1>4
  DEF Next, TooMany, Refuse, Login, Signup, DemoSession, Refresh, Account,
      Create, IssueTokens, Query, Reply, vars, edgeVars

\* A request that is not a snapshot's, or becomes none, keeps the others' readings.
LEMMA OtherReadings ==
  ASSUME Types, Snapshots, [Next]_vars, NEW g \in Handlers, req'[g] = req[g],
         req[g] # Idle, req[g].step \in Views
  PROVE  Reading(req[g])'
<1>1. req[g] \in [step : Views, account : Accounts, since : 0..MaxTrades, opened : BOOLEAN, seeded : BOOLEAN,
                  cash : 0..MaxTrades, pos : 0..MaxTrades, failed : BOOLEAN]
  BY Shapes DEF Views
<1>2. Reading(req[g])
  BY DEF Snapshots, Views
<1>3. seeds \subseteq seeds' /\ posted[req[g].account] <= posted'[req[g].account]
  BY <1>1, TablesGrow
<1>4. posted[req[g].account] \in 0..MaxTrades /\ posted'[req[g].account] \in 0..MaxTrades
  BY <1>1, NextTypes DEF Types
<1> QED  BY <1>1, <1>2, <1>3, <1>4, SessionsAssumption DEF Reading, Views

\* One handler's reading moves; the others' stay true as commits go on.
LEMMA OneReading ==
  ASSUME Types, Snapshots, [Next]_vars, NEW h \in Handlers,
         \A g \in Handlers : g # h => req'[g] = req[g],
         (req'[h] # Idle /\ req'[h].step \in Views) => Reading(req[h])'
  PROVE  Snapshots'
<1> SUFFICES ASSUME NEW g \in Handlers, req'[g] # Idle, req'[g].step \in Views PROVE Reading(req[g])'
  BY DEF Snapshots, Views
<1>1. CASE g = h
  BY <1>1
<1>2. CASE g # h
  BY <1>2, OtherReadings
<1> QED  BY <1>1, <1>2

\* Each statement of a view reads what is committed at that moment.
LEMMA QueryReads ==
  ASSUME Types, Snapshots, [Next]_vars, NEW h \in Handlers, Query(h)
  PROVE  Snapshots'
<1> USE SessionsAssumption
<1> DEFINE r == req[h]
           R == [step : Views, account : Accounts, since : 0..MaxTrades, opened : BOOLEAN, seeded : BOOLEAN,
                 cash : 0..MaxTrades, pos : 0..MaxTrades, failed : BOOLEAN]
<1>1. r \in R /\ r # Idle /\ Reading(r)
  BY Shapes DEF Query, Snapshots, Views
<1>2. posted' = posted /\ seeds' = seeds /\ posted[r.account] \in 0..MaxTrades
  BY <1>1 DEF Query, Types
<1>3. \A g \in Handlers : g # h => req'[g] = req[g]
  BY QueryCases
<1>4. Reading(req[h])' <=>
        LET s == req'[h] IN
        /\ s.since <= posted[s.account]
        /\ s.opened => s.account \in seeds
        /\ s.step \in {"tradeCash", "positions", "reply"} => (s.opened => s.seeded)
        /\ (s.step \in {"positions", "reply"} /\ ~s.failed) =>
             s.since <= s.cash /\ s.cash <= posted[s.account]
        /\ (s.step = "reply" /\ ~s.failed) => s.cash <= s.pos
  BY <1>2 DEF Reading
<1>5. ASSUME req'[h] # Idle PROVE Reading(req[h])'
  <2>1. CASE /\ r.step = "seedCash" /\ req'[h].step = "tradeCash" /\ Kept(r, req'[h])
             /\ req'[h].seeded = (r.account \in seeds)
    BY <2>1, <1>1, <1>2, <1>4 DEF Reading, Kept
  <2>2. CASE /\ r.step = "tradeCash" /\ req'[h].step = "positions" /\ Kept(r, req'[h])
             /\ req'[h].seeded = r.seeded /\ req'[h].cash = posted[r.account]
    BY <2>2, <1>1, <1>2, <1>4 DEF Reading, Kept
  <2>3. CASE /\ r.step # "seedCash" /\ req'[h].step \in {"positions", "reply"} /\ Kept(r, req'[h])
             /\ req'[h].seeded = r.seeded /\ req'[h].failed = TRUE
    BY <2>3, <1>1, <1>2, <1>4 DEF Reading, Kept, Views
  <2>4. CASE /\ r.step = "positions" /\ req'[h].step = "reply" /\ Kept(r, req'[h])
             /\ req'[h].seeded = r.seeded /\ req'[h].failed = r.failed
             /\ req'[h].cash = r.cash /\ req'[h].pos = posted[r.account]
    BY <2>4, <1>1, <1>2, <1>4 DEF Reading, Kept
  <2> QED  BY <1>5, <2>1, <2>2, <2>3, <2>4, QueryCases
<1> QED  BY <1>3, <1>5, OneReading

\* Every step keeps the readings between the past and the present.
LEMMA NextReads == Types /\ Snapshots /\ [Next]_vars => Snapshots'
<1> SUFFICES ASSUME Types, Snapshots, [Next]_vars PROVE Snapshots'
  OBVIOUS
<1>1. CASE UNCHANGED req
  <2> SUFFICES ASSUME NEW g \in Handlers, req'[g] # Idle, req'[g].step \in Views PROVE Reading(req[g])'
    BY DEF Snapshots, Views
  <2> QED  BY <1>1, OtherReadings
<1>2. ASSUME NEW h \in Handlers, NEW k \in Keys, NEW e \in Spellings, NEW p \in Passwords,
             Login(h, k, e, p) \/ \E a \in Registered : Signup(h, k, e, p, a)
      PROVE  Snapshots'
  <2>1. PICK r : Goto(h, r) /\ r.step \in {"create", "issue"}
    <3>1. CASE Login(h, k, e, p)
      <4>1. PICK u \in users : Goto(h, [step |-> "issue", account |-> u.account, email |-> u.email])
        BY <3>1 DEF Login
      <4> WITNESS [step |-> "issue", account |-> u.account, email |-> u.email]
      <4> QED  BY <4>1
    <3>2. ASSUME NEW a \in Registered, Signup(h, k, e, p, a)
          PROVE  \E r : Goto(h, r) /\ r.step \in {"create", "issue"}
      <4> WITNESS [step |-> "create", account |-> a, email |-> NormalizeEmail(e), password |-> p]
      <4> QED  BY <3>2 DEF Signup
    <3> QED  BY <1>2, <3>1, <3>2
  <2>2. req'[h].step \in {"create", "issue"} /\ \A g \in Handlers : g # h => req'[g] = req[g]
    BY <2>1, GotoOne
  <2> QED  BY <2>2, OneReading DEF Views
<1>3. ASSUME NEW h \in Handlers, Create(h) PROVE Snapshots'
  <2>1. PICK r : Goto(h, r) /\ (r = Idle \/ r.step = "seed")
    BY <1>3 DEF Create
  <2>2. (req'[h] = Idle \/ req'[h].step = "seed") /\ \A g \in Handlers : g # h => req'[g] = req[g]
    BY <2>1, GotoOne
  <2> QED  BY <2>2, OneReading DEF Views
<1>4. ASSUME NEW h \in Handlers, Seed(h) PROVE Snapshots'
  <2>1. req'[h] = [req[h] EXCEPT !.step = "issue"] /\ \A g \in Handlers : g # h => req'[g] = req[g]
    BY <1>4, GotoOne DEF Seed
  <2>2. req[h] \in [step : {"seed", "issue"}, account : Registered, email : Spellings]
    BY <1>4, Shapes DEF Seed
  <2>3. req'[h].step = "issue"
    BY <2>1, <2>2
  <2> QED  BY <2>1, <2>3, OneReading DEF Views
<1>5. ASSUME NEW h \in Handlers, IssueTokens(h) \/ Reply(h) PROVE Snapshots'
  <2>1. req'[h] = Idle /\ \A g \in Handlers : g # h => req'[g] = req[g]
    BY <1>5, GotoOne DEF IssueTokens, Reply
  <2> QED  BY <2>1, OneReading
<1>6. ASSUME NEW h \in Handlers, NEW k \in Keys, NEW t \in tokens, Account(h, k, t) PROVE Snapshots'
  <2>1. req'[h] = [step |-> "seedCash", account |-> t.sub, since |-> posted[t.sub],
                   opened |-> t.sub \in seeds, seeded |-> FALSE, cash |-> 0, pos |-> 0, failed |-> FALSE]
        /\ (\A g \in Handlers : g # h => req'[g] = req[g]) /\ posted' = posted /\ seeds' = seeds
    BY <1>6, GotoOne DEF Account
  <2>2. posted[t.sub] \in Nat
    BY SessionsAssumption DEF Types
  <2>3. Reading(req[h])'
    <3>1. /\ req'[h].step = "seedCash" /\ req'[h].account = t.sub /\ req'[h].since = posted[t.sub]
          /\ req'[h].opened = (t.sub \in seeds)
      BY <2>1
    <3>2. posted'[req'[h].account] = posted[t.sub] /\ (req'[h].opened => req'[h].account \in seeds')
      BY <2>1, <3>1
    <3>3. req'[h].since <= posted'[req'[h].account]
      BY <2>2, <3>1, <3>2
    <3> QED  BY <3>1, <3>2, <3>3 DEF Reading
  <2> QED  BY <2>1, <2>3, OneReading
<1>7. ASSUME NEW h \in Handlers, Query(h) PROVE Snapshots'
  BY <1>7, QueryReads
<1> QED
  BY <1>1, <1>2, <1>3, <1>4, <1>5, <1>6, <1>7
  DEF Next, TooMany, Refuse, Refresh, DemoSession, PostTrade, vars, edgeVars

\* A snapshot read in three transactions holds what was committed before it, and
\* shows no cash spent without the position it bought (accountFromDB reads the
\* cash first).
THEOREM ViewsReadYourWrites == Spec => []ViewReadsYourWrites
<1>1. Init => Snapshots
  BY DEF Init, Snapshots
<1>2. Types /\ Snapshots => ViewReadsYourWrites
  BY DEF Snapshots, Reading, ViewReadsYourWrites, Step
<1> QED  BY <1>1, <1>2, InitTypes, NextTypes, NextReads, PTL DEF Spec
-----------------------------------------------------------------------------
(* The life of a session. *)

\* Minting for an account moves its session to now.
LEMMA MintKeeps ==
  ASSUME Types, Minted, UNCHANGED now, NEW a \in Accounts,
         session' = [session EXCEPT ![a] = now],
         \A t \in tokens' : t \in tokens \/ /\ t.sub = a /\ t.exp = now + Lifetime(t.kind)
                                            /\ (t.kind = "demo" <=> a \in Demos)
  PROVE  Minted'
<1> USE SessionsAssumption
<1>1. now \in Nat
  BY LimiterAssumption DEF Types, LimiterInv, LimiterTypes
<1>2. \A kind : Lifetime(kind) \in Nat
  BY DEF Lifetime
<1>3. session'[a] = now /\ \A b \in Accounts : b # a => session'[b] = session[b]
  BY DEF Types
<1>4. \A b \in Accounts : session[b] \in Int /\ session[b] <= now
  BY LimiterAssumption DEF Types, Minted
<1>5. ASSUME NEW t \in tokens'
      PROVE  /\ session'[t.sub] >= 0 /\ t.exp <= session'[t.sub] + Lifetime(t.kind)
             /\ t.kind = "demo" <=> t.sub \in Demos
  <2>1. CASE t \in tokens
    <3>1. t.sub \in Accounts /\ t.exp \in Nat
      BY <2>1 DEF Types
    <3>2. session[t.sub] >= 0 /\ t.exp <= session[t.sub] + Lifetime(t.kind)
          /\ (t.kind = "demo" <=> t.sub \in Demos)
      BY <2>1 DEF Minted
    <3> QED  BY <3>1, <3>2, <1>1, <1>2, <1>3, <1>4
  <2>2. CASE t.sub = a /\ t.exp = now + Lifetime(t.kind) /\ (t.kind = "demo" <=> a \in Demos)
    <3>1. t.exp \in Int
      BY <2>2, <1>1, <1>2
    <3> QED  BY <2>2, <3>1, <1>1, <1>2, <1>3
  <2> QED  BY <2>1, <2>2
<1>6. \A b \in Accounts : session'[b] <= now'
  BY <1>1, <1>3, <1>4
<1> QED  BY <1>5, <1>6 DEF Minted, Lifetime

\* The pair issueTokens and handleRefresh mint.
LEMMA PairMinted ==
  ASSUME Types, Minted, UNCHANGED now, NEW a \in Accounts, a \notin Demos,
         session' = [session EXCEPT ![a] = now],
         tokens' = tokens \union {Mint(a, "access", AccessTTL), Mint(a, "refresh", RefreshTTL)}
  PROVE  Minted'
<1>1. tokens' = tokens \union {Mint(a, "access", Lifetime("access")), Mint(a, "refresh", Lifetime("refresh"))}
  BY DEF Lifetime
<1>2. \A t \in tokens' : t \in tokens \/ /\ t.sub = a /\ t.exp = now + Lifetime(t.kind)
                                         /\ (t.kind = "demo" <=> a \in Demos)
  BY <1>1, MintType
<1> QED  BY <1>2, MintKeeps

\* Every step keeps tokens within their lifetimes.
LEMMA NextMinted == Types /\ Minted /\ [Next]_vars => Minted'
<1> SUFFICES ASSUME Types, Minted, [Next]_vars PROVE Minted'
  OBVIOUS
<1> USE SessionsAssumption
<1>1. CASE UNCHANGED <<now, session, tokens>>
  BY <1>1 DEF Minted, Lifetime
<1>2. CASE Tick /\ UNCHANGED edgeVars
  <2>1. now \in Nat /\ now' = now + 1 /\ session' = session /\ tokens' = tokens
    BY <1>2, LimiterAssumption DEF Tick, edgeVars, Types, LimiterInv, LimiterTypes
  <2>2. \A a \in Accounts : session[a] \in Int /\ session[a] <= now
    BY LimiterAssumption DEF Types, Minted
  <2> QED  BY <2>1, <2>2 DEF Minted, Lifetime
<1>3. ASSUME NEW h \in Handlers, IssueTokens(h) PROVE Minted'
  <2>1. req[h].account \in Accounts /\ req[h].account \notin Demos
    BY <1>3, Shapes DEF IssueTokens, Accounts
  <2> QED  BY <1>3, <2>1, PairMinted DEF IssueTokens, limiterVars
<1>4. ASSUME NEW k \in Keys, NEW t \in tokens, Refresh(k, t) PROVE Minted'
  <2>1. t.sub \in Accounts /\ t.sub \notin Demos
    BY <1>4 DEF Refresh, Renews, Minted, Types
  <2> QED  BY <1>4, <2>1, PairMinted DEF Refresh, Allow
<1>5. ASSUME NEW k \in Keys, NEW a \in Demos, DemoSession(k, a) PROVE Minted'
  <2>1. a \in Accounts
    BY DEF Accounts
  <2>2. tokens' = tokens \union {Mint(a, "demo", Lifetime("demo"))}
    BY <1>5 DEF DemoSession, Lifetime
  <2>3. \A t \in tokens' : t \in tokens \/ /\ t.sub = a /\ t.exp = now + Lifetime(t.kind)
                                           /\ (t.kind = "demo" <=> a \in Demos)
    BY <2>1, <2>2, MintType
  <2> QED  BY <1>5, <2>1, <2>3, MintKeeps DEF DemoSession, Allow
<1> QED
  BY <1>1, <1>2, <1>3, <1>4, <1>5
  DEF Next, TooMany, Refuse, Login, Signup, Account, Create, Seed, Query, Reply, PostTrade,
      Allow, Deny, limiterVars, vars, edgeVars

\* A request that starts a snapshot has passed the middleware.
LEMMA LetInStep ==
  ASSUME Types, Minted, Next, NEW h \in Handlers
  PROVE  LetIn(h)
<1> SUFFICES ASSUME req[h] = Idle, req'[h] # Idle, req'[h].step = "seedCash"
             PROVE  LET a == req'[h].account IN
                    session[a] >= 0 /\ now < session[a] + (IF a \in Demos THEN DemoTTL ELSE AccessTTL)
  BY DEF LetIn
<1> USE SessionsAssumption
<1>1. ~UNCHANGED req
  OBVIOUS
<1>2. ASSUME NEW g \in Handlers, NEW k \in Keys, NEW e \in Spellings, NEW p \in Passwords,
             Login(g, k, e, p) \/ \E a \in Registered : Signup(g, k, e, p, a)
      PROVE  FALSE
  <2>1. CASE Login(g, k, e, p)
    <3>1. PICK u \in users : Goto(g, [step |-> "issue", account |-> u.account, email |-> u.email])
      BY <2>1 DEF Login
    <3> QED  BY <3>1, GotoOne
  <2>2. ASSUME NEW a \in Registered, Signup(g, k, e, p, a) PROVE FALSE
    BY <2>2, GotoOne DEF Signup
  <2> QED  BY <1>2, <2>1, <2>2
<1>3. ASSUME NEW g \in Handlers, Create(g) \/ Seed(g) \/ IssueTokens(g) \/ Query(g) \/ Reply(g) PROVE FALSE
  <2>1. req[g] # Idle /\ \E r : Goto(g, r)
    BY <1>3 DEF Create, Seed, IssueTokens, Query, Reply, Step
  <2> QED  BY <2>1, GotoOne
<1>4. ASSUME NEW g \in Handlers, NEW k \in Keys, NEW t \in tokens, Account(g, k, t)
      PROVE  LET a == req'[h].account IN
             session[a] >= 0 /\ now < session[a] + (IF a \in Demos THEN DemoTTL ELSE AccessTTL)
  <2>1. g = h /\ req'[h].account = t.sub
    BY <1>4, GotoOne DEF Account
  <2>2. now < t.exp /\ t.kind # "refresh"
    BY <1>4 DEF Account, OpensRoutes, Valid
  <2>3. /\ session[t.sub] >= 0 /\ t.exp <= session[t.sub] + Lifetime(t.kind)
        /\ t.kind = "demo" <=> t.sub \in Demos
    BY DEF Minted
  <2>4. now \in Nat /\ t.exp \in Nat /\ session[t.sub] \in Int /\ t.kind \in {"access", "refresh", "demo"}
    BY LimiterAssumption DEF Types, LimiterInv, LimiterTypes
  <2> QED  BY <2>1, <2>2, <2>3, <2>4 DEF Lifetime
<1> QED
  BY <1>1, <1>2, <1>3, <1>4
  DEF Next, TooMany, Refuse, Refresh, DemoSession, PostTrade, edgeVars

\* A refresh token that is new comes from a login or from a valid predecessor.
LEMMA RenewedStep ==
  ASSUME Types, Minted, Next, NEW t \in tokens' \ tokens
  PROVE  Renewed(t)
<1> SUFFICES ASSUME t.kind = "refresh", \A h \in Handlers : ~Step(h, "issue")
             PROVE  t.sub \in Registered /\ now < session[t.sub] + RefreshTTL
  BY DEF Renewed
<1> USE SessionsAssumption
<1>1. ~UNCHANGED tokens /\ \A h \in Handlers : ~IssueTokens(h)
  BY DEF IssueTokens
<1>2. ASSUME NEW k \in Keys, NEW a \in Demos, DemoSession(k, a) PROVE FALSE
  BY <1>2 DEF DemoSession, Mint
<1>3. ASSUME NEW k \in Keys, NEW s \in tokens, Refresh(k, s)
      PROVE  t.sub \in Registered /\ now < session[t.sub] + RefreshTTL
  <2>1. t.sub = s.sub
    BY <1>3 DEF Refresh, Mint
  <2>2. now < s.exp /\ s.kind = "refresh"
    BY <1>3 DEF Refresh, Renews, Valid
  <2>3. s.exp <= session[s.sub] + RefreshTTL /\ s.sub \notin Demos
    BY <2>2 DEF Minted, Lifetime
  <2>4. now \in Nat /\ s.exp \in Nat /\ s.sub \in Accounts /\ session[s.sub] \in Int
    BY LimiterAssumption DEF Types, LimiterInv, LimiterTypes
  <2> QED  BY <2>1, <2>2, <2>3, <2>4 DEF Accounts
<1> QED
  BY <1>1, <1>2, <1>3
  DEF Next, TooMany, Refuse, Login, Signup, Account, Create, Seed, Query, Reply, PostTrade, edgeVars

\* No step lets a request in, or mints tokens without a password, past the lifetime
\* its token's kind gives it (JWTAuth.Middleware, VerifyRefresh, handleRefresh).
THEOREM SessionsDoExpire == Spec => SessionsExpire
<1>1. Init => Minted
  BY LimiterAssumption DEF Init, Minted, LimiterInit
<1>2. Types /\ Minted /\ [Next]_vars
        => [(\A h \in Handlers : LetIn(h)) /\ (\A t \in tokens' \ tokens : Renewed(t))]_vars
  BY LetInStep, RenewedStep
<1> QED  BY <1>1, <1>2, InitTypes, NextTypes, NextMinted, PTL DEF Spec, SessionsExpire
=============================================================================
