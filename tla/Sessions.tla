------------------------------ MODULE Sessions ------------------------------
(***************************************************************************)
(* The gateway's edge with password auth and Postgres: every route goes     *)
(* through the rate limiter, then the JWT middleware, then a handler        *)
(* (gateway/internal/api, internal/auth, internal/middleware/auth.go).      *)
(* A handler holds no lock between its statements: its calls to the user    *)
(* store and to Postgres are steps of their own, and the engine commits     *)
(* trades between them.                                                     *)
(***************************************************************************)
EXTENDS RateLimiter

CONSTANTS
  Handlers,      \* concurrent requests
  Mailboxes,     \* email addresses, however they are spelled
  Passwords,     \* acceptable passwords (at least minPasswordLen characters)
  Registered,    \* account ids newAccountID can draw
  Demos,         \* account ids NewDemoAccountID can draw
  AccessTTL, RefreshTTL, DemoTTL,
  MaxTrades,     \* bound: trades of one account
  Idle

ASSUME SessionsAssumption ==
  /\ AccessTTL \in Nat /\ RefreshTTL \in Nat /\ DemoTTL \in Nat /\ MaxTrades \in Nat
  /\ Registered \intersect Demos = {}

Accounts == Registered \union Demos
\* An address as a client types it: canonical, or in other case or with blanks.
Spellings == [box : Mailboxes, canonical : BOOLEAN]

VARIABLES
  users,         \* the users table
  seeds,         \* the account_seeds table: accounts with an opening balance
  tokens,        \* every token minted
  req,           \* what each request is about to do
  posted,        \* ledger_entries: trades of each account
  session,       \* when tokens were last minted for an account (auxiliary)
  signedIn       \* accounts a mailbox was given tokens for (auxiliary)

edgeVars == <<users, seeds, tokens, req, posted, session, signedIn>>
vars == <<limiterVars, edgeVars>>

Init ==
  /\ LimiterInit
  /\ users = {} /\ seeds = {} /\ tokens = {}
  /\ req = [h \in Handlers |-> Idle]
  /\ posted = [a \in Accounts |-> 0]
  /\ session = [a \in Accounts |-> -1]
  /\ signedIn = [b \in Mailboxes |-> {}]

\* Lower case, no blanks.
NormalizeEmail(e) == [e EXCEPT !.canonical = TRUE]

Mint(a, kind, ttl) == [sub |-> a, kind |-> kind, exp |-> now + ttl]

\* parse: signed by the gateway and not expired.
Valid(t) == t \in tokens /\ now < t.exp

\* Mutant: any valid token opens a protected route.
MutOpensRoutes(t) == Valid(t)
\* JWTAuth.Middleware: a valid token that is not a refresh token.
OpensRoutes(t) == Valid(t) /\ t.kind # "refresh"

\* VerifyRefresh.
Renews(t) == Valid(t) /\ t.kind = "refresh"

Goto(h, r) == req' = [req EXCEPT ![h] = r]
Step(h, s) == req[h] # Idle /\ req[h].step = s
-----------------------------------------------------------------------------
\* A request the limiter turns away with 429.
TooMany(k) == Deny(k) /\ UNCHANGED edgeVars

\* A request that passes the limiter and is refused with nothing changed: a bad
\* body, address or password, a failed hash, wrong credentials, a token that does
\* not open the route.
Refuse(k) == Allow(k) /\ UNCHANGED edgeVars

\* handleSignup up to the call of Create.
Signup(h, k, e, p, a) ==
  /\ req[h] = Idle
  /\ a \notin {u.account : u \in users}
  /\ \A g \in Handlers : req[g] # Idle => req[g].account # a   \* newAccountID is fresh
  /\ Allow(k)
  /\ Goto(h, [step |-> "create", account |-> a, email |-> NormalizeEmail(e), password |-> p])
  /\ UNCHANGED <<users, seeds, tokens, posted, session, signedIn>>

\* Mutant: the unique violation is not looked at, the row counts as written.
MutTaken(email) == FALSE
\* The unique index on users.email.
Taken(email) == \E u \in users : u.email = email

\* UserStore.Create: 409 when the email is taken, 500 when Postgres fails.
Create(h) ==
  /\ Step(h, "create")
  /\ \/ /\ ~Taken(req[h].email)
        /\ users' = users \union {[account |-> req[h].account, email |-> req[h].email,
                                   password |-> req[h].password]}
        /\ Goto(h, [step |-> "seed", account |-> req[h].account, email |-> req[h].email])
     \/ Goto(h, Idle) /\ UNCHANGED users
  /\ UNCHANGED <<limiterVars, seeds, tokens, posted, session, signedIn>>

\* The opening balance; a failed insert is logged and the signup goes on.
Seed(h) ==
  /\ Step(h, "seed")
  /\ seeds' \in {seeds, seeds \union {req[h].account}}
  /\ Goto(h, [req[h] EXCEPT !.step = "issue"])
  /\ UNCHANGED <<limiterVars, users, tokens, posted, session, signedIn>>

\* handleLogin: ByEmail and CheckPassword succeed.
Login(h, k, e, p) ==
  /\ req[h] = Idle
  /\ \E u \in users :
       /\ u.email = NormalizeEmail(e) /\ u.password = p
       /\ Goto(h, [step |-> "issue", account |-> u.account, email |-> u.email])
  /\ Allow(k)
  /\ UNCHANGED <<users, seeds, tokens, posted, session, signedIn>>

\* issueTokens: an access and a refresh token, in one envelope.
IssueTokens(h) ==
  /\ Step(h, "issue")
  /\ LET a == req[h].account IN
     /\ tokens' = tokens \union {Mint(a, "access", AccessTTL), Mint(a, "refresh", RefreshTTL)}
     /\ session' = [session EXCEPT ![a] = now]
     /\ signedIn' = [signedIn EXCEPT ![req[h].email.box] = @ \union {a}]
  /\ Goto(h, Idle)
  /\ UNCHANGED <<limiterVars, users, seeds, posted>>

\* handleRefresh: a refresh token is exchanged for a new pair.
Refresh(k, t) ==
  /\ Renews(t)
  /\ Allow(k)
  /\ tokens' = tokens \union {Mint(t.sub, "access", AccessTTL), Mint(t.sub, "refresh", RefreshTTL)}
  /\ session' = [session EXCEPT ![t.sub] = now]
  /\ UNCHANGED <<users, seeds, req, posted, signedIn>>

\* handleDemoSession: three random bytes name the account, so it may be one that
\* another visitor has.
DemoSession(k, a) ==
  /\ Allow(k)
  /\ tokens' = tokens \union {Mint(a, "demo", DemoTTL)}
  /\ session' = [session EXCEPT ![a] = now]
  /\ UNCHANGED <<users, seeds, req, posted, signedIn>>

\* A protected route: GET /account passes the middleware.  since and opened are
\* what the database held when the request came (auxiliary).
Account(h, k, t) ==
  /\ req[h] = Idle
  /\ OpensRoutes(t)
  /\ Allow(k)
  /\ Goto(h, [step |-> "seedCash", account |-> t.sub, since |-> posted[t.sub],
              opened |-> t.sub \in seeds, seeded |-> FALSE, cash |-> 0, pos |-> 0, failed |-> FALSE])
  /\ UNCHANGED <<users, seeds, tokens, posted, session, signedIn>>

\* Mutant: the positions are read before the cash.
MutAfter(s) == CASE s = "seedCash" -> "positions" [] s = "positions" -> "tradeCash"
                 [] s = "tradeCash" -> "reply"
\* The order of accountFromDB's queries.
After(s) == CASE s = "seedCash" -> "tradeCash" [] s = "tradeCash" -> "positions"
              [] s = "positions" -> "reply"

\* One of accountFromDB's queries, a transaction of its own.  An error ends the
\* request with 502, except that of the cash query and one that comes while the
\* positions' rows are read: those are dropped, and what was not read is 0.
Query(h) ==
  /\ req[h] # Idle /\ req[h].step \in {"seedCash", "tradeCash", "positions"}
  /\ LET r == req[h]
         next == [r EXCEPT !.step = After(r.step)] IN
     \/ r.step = "seedCash" /\ Goto(h, [next EXCEPT !.seeded = r.account \in seeds])
     \/ r.step = "tradeCash" /\ Goto(h, [next EXCEPT !.cash = posted[r.account]])
     \/ r.step = "positions" /\ Goto(h, [next EXCEPT !.pos = posted[r.account]])
     \/ r.step # "seedCash" /\ Goto(h, [next EXCEPT !.failed = TRUE])
     \/ r.step # "tradeCash" /\ Goto(h, Idle)
  /\ UNCHANGED <<limiterVars, users, seeds, tokens, posted, session, signedIn>>

\* The snapshot is written.
Reply(h) ==
  /\ Step(h, "reply")
  /\ Goto(h, Idle)
  /\ UNCHANGED <<limiterVars, users, seeds, tokens, posted, session, signedIn>>

\* External: the engine's ledger transaction writes both entries of a trade.
PostTrade(a) ==
  /\ posted[a] < MaxTrades
  /\ posted' = [posted EXCEPT ![a] = @ + 1]
  /\ UNCHANGED <<limiterVars, users, seeds, tokens, req, session, signedIn>>

Next ==
  \/ Tick /\ UNCHANGED edgeVars
  \/ \E k \in Keys :
       \/ TooMany(k) \/ Refuse(k)
       \/ \E h \in Handlers, e \in Spellings, p \in Passwords :
            Login(h, k, e, p) \/ \E a \in Registered : Signup(h, k, e, p, a)
       \/ \E a \in Demos : DemoSession(k, a)
       \/ \E t \in tokens : Refresh(k, t) \/ \E h \in Handlers : Account(h, k, t)
  \/ \E h \in Handlers : Create(h) \/ Seed(h) \/ IssueTokens(h) \/ Query(h) \/ Reply(h)
  \/ \E a \in Accounts : PostTrade(a)

Spec == Init /\ [][Next]_vars
-----------------------------------------------------------------------------
Requests ==
  {Idle}
  \union [step : {"create"}, account : Registered, email : Spellings, password : Passwords]
  \union [step : {"seed", "issue"}, account : Registered, email : Spellings]
  \union [step : {"seedCash", "tradeCash", "positions", "reply"}, account : Accounts,
          since : 0..MaxTrades, opened : BOOLEAN, seeded : BOOLEAN,
          cash : 0..MaxTrades, pos : 0..MaxTrades, failed : BOOLEAN]

\* Every variable stays in its type; a bucket never holds more than the burst.
SessionsTypeOK ==
  /\ now \in 0..MaxTime
  /\ \A k \in Keys : buckets[k] = NoBucket \/ buckets[k] \in [tokens : 0..Burst, lastSeen : 0..now]
  /\ users \subseteq [account : Registered, email : Spellings, password : Passwords]
  /\ seeds \subseteq Registered
  /\ tokens \subseteq [sub : Accounts, kind : {"access", "refresh", "demo"}, exp : Nat]
  /\ \A h \in Handlers : req[h] \in Requests
  /\ posted \in [Accounts -> 0..MaxTrades]
  /\ session \in [Accounts -> -1..MaxTime]
  /\ signedIn \in [Mailboxes -> SUBSET Registered]

\* However often and however concurrently a mailbox is signed up and logged in,
\* in whatever spelling, all its tokens are for one account (handleSignup,
\* Create and ByEmail normalise; the index on users.email decides the race).
MailboxNamesOneAccount == \A b \in Mailboxes : \A x, y \in signedIn[b] : x = y

\* A request is let in on an account only within the access (or demo) lifetime
\* after tokens were last minted for it.
LetIn(h) ==
  (req[h] = Idle /\ req'[h] # Idle /\ req'[h].step = "seedCash") =>
    LET a == req'[h].account IN
    session[a] >= 0 /\ now < session[a] + (IF a \in Demos THEN DemoTTL ELSE AccessTTL)

\* Tokens are minted without a password only within the refresh lifetime, and
\* never for a demo account.
Renewed(t) ==
  (t.kind = "refresh" /\ \A h \in Handlers : ~Step(h, "issue")) =>
    t.sub \in Registered /\ now < session[t.sub] + RefreshTTL

\* A session lives on only through its own tokens, each used for what its kind
\* says (token.go: the kind claim "stops a refresh token being replayed as an
\* access token").
SessionsExpire ==
  [][(\A h \in Handlers : LetIn(h)) /\ (\A t \in tokens' \ tokens : Renewed(t))]_vars

\* GET /account reads the caller's own writes and tears only one way: what was
\* committed when the request came is in it, and cash spent is never shown
\* without the position it bought, although the three queries run in three
\* transactions.  A dropped error (failed) is the exception, and there is none for
\* the opening balance.
ViewReadsYourWrites ==
  \A h \in Handlers : Step(h, "reply") =>
    LET r == req[h] IN
    /\ r.opened => r.seeded
    /\ ~r.failed => r.since <= r.cash /\ r.cash <= r.pos
=============================================================================
