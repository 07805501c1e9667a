----------------------------- MODULE RateLimiter -----------------------------
(***************************************************************************)
(* The gateway's token-bucket limiter (gateway/internal/middleware/         *)
(* ratelimit.go).  Tokens are counted in integer units, Unit of them to a   *)
(* token, so that the refill of one tick of the clock is a whole number;    *)
(* the rounding of the code's float64 is left out.  The clock is read under *)
(* the mutex and is monotonic, so one call of Allow is one step.            *)
(***************************************************************************)
EXTENDS Integers

CONSTANTS
  Keys,      \* client keys (clientIP)
  Unit,      \* units to a token
  Rate,      \* ratePerSec, in units per tick
  Burst,     \* burst, in units
  MaxTime,   \* bound: ticks of the clock
  NoBucket   \* the key is not in the map yet

ASSUME LimiterAssumption ==
  /\ Unit \in Nat \ {0} /\ Rate \in Nat /\ Burst \in Nat /\ Burst >= Unit
  /\ MaxTime \in Nat
  /\ NoBucket \notin [tokens : Int, lastSeen : Nat]

VARIABLES
  now,       \* the clock
  buckets,   \* RateLimiter.buckets
  granted,   \* requests let through, per key (auxiliary)
  mark       \* the value of granted when the clock came to a time (auxiliary)

limiterVars == <<now, buckets, granted, mark>>

LimiterInit ==
  /\ now = 0
  /\ buckets = [k \in Keys |-> NoBucket]
  /\ granted = [k \in Keys |-> 0]
  /\ mark = [k \in Keys |-> [t \in 0..MaxTime |-> 0]]

\* Time passes.
Tick ==
  /\ now < MaxTime
  /\ now' = now + 1
  /\ mark' = [k \in Keys |-> [mark[k] EXCEPT ![now + 1] = granted[k]]]
  /\ UNCHANGED <<buckets, granted>>

\* Mutant: idle time is credited without limit.
MutRefilled(k) ==
  IF buckets[k] = NoBucket THEN Burst
  ELSE buckets[k].tokens + Rate * (now - buckets[k].lastSeen)

\* The bucket after the lazy refill, capped at the burst; a new client's is full.
Refilled(k) ==
  IF buckets[k] = NoBucket THEN Burst
  ELSE LET t == buckets[k].tokens + Rate * (now - buckets[k].lastSeen)
       IN IF t < Burst THEN t ELSE Burst

Leave(k, tokens) == buckets' = [buckets EXCEPT ![k] = [tokens |-> tokens, lastSeen |-> now]]

\* Allow() returns true: one token is taken.
Allow(k) ==
  /\ Refilled(k) >= Unit
  /\ Leave(k, Refilled(k) - Unit)
  /\ granted' = [granted EXCEPT ![k] = @ + 1]
  /\ UNCHANGED <<now, mark>>

\* Mutant: the token is taken before the bucket is looked at.
MutDeny(k) ==
  /\ Refilled(k) < Unit
  /\ Leave(k, Refilled(k) - Unit)
  /\ UNCHANGED <<now, granted, mark>>

\* Allow() returns false: the refill is kept, the clock of the bucket moves on.
Deny(k) ==
  /\ Refilled(k) < Unit
  /\ Leave(k, Refilled(k))
  /\ UNCHANGED <<now, granted, mark>>

LimiterNext == Tick \/ \E k \in Keys : Allow(k) \/ Deny(k)

LimiterSpec == LimiterInit /\ [][LimiterNext]_limiterVars
-----------------------------------------------------------------------------
\* Over any window of time a client is let through at most its burst plus what
\* was refilled during the window, however its requests are spread, whatever
\* refused requests lie between them (ratelimit.go: "short BURSTS (up to `burst`
\* tokens) while bounding the SUSTAINED rate").  A window from t on has seen
\* granted - mark[t] requests; this holds at every moment, so for every window.
WithinBurstAndRate ==
  \A k \in Keys, t \in 0..now :
    Unit * (granted[k] - mark[k][t]) <= Burst + Rate * (now - t)
=============================================================================
