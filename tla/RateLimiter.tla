----------------------------- MODULE RateLimiter -----------------------------
(***************************************************************************)
(* The gateway's pipeline (services/gateway/internal/router.go): a request *)
(* passes the rate limiter of its route group, then the authentication of  *)
(* its route, then reaches the handler.  The limiter keeps one counter per *)
(* key in Redis with INCR and EXPIRE, two commands of which each can fail, *)
(* or succeed with its reply lost.                                         *)
(***************************************************************************)
EXTENDS Integers, FiniteSets

CONSTANTS
  Clients,     \* client addresses
  Users,       \* users that log in
  Requests,    \* requests that can be in progress at the same time
  UsedRoutes,  \* the routes that are exercised
  Groups,      \* the rate-limited route groups
  Limit,       \* Limit[g] requests are allowed in a window of group g
  Window,      \* length of a window, in ticks
  CountCap,    \* bound on counts: it stands for every count above the limits
  MaxFaults,   \* bound on failing Redis commands
  MaxRestarts  \* bound on restarts of the gateway

ASSUME RateLimiterAssumption ==
  /\ IsFiniteSet(Groups) /\ Limit \in [Groups -> Nat \ {0}]
  /\ CountCap \in Nat \ {0, 1} /\ \A g \in Groups : Limit[g] < CountCap
  /\ Window \in Nat \ {0}
  /\ MaxFaults \in Nat /\ MaxRestarts \in Nat

Nobody == "nobody"
Keys == {"ip"} \X Clients \cup {"user"} \X Users

\* Counts are compared with 1 and with the limits only.
Succ(n) == IF n < CountCap THEN n + 1 ELSE n

Forever == -1                            \* a counter without an expiry

VARIABLES
  limiter,   \* whether Redis answered when the gateway started
  count,     \* Redis: requests counted by a key; 0 when the key does not exist
  ttl,       \* Redis: ticks until the key expires
  req,       \* the requests in progress
  faults, restarts,
  made,      \* history: made[k][g] requests of group g since the key appeared
  recent     \* history: recent[k][a][g] requests of g let through a ticks ago

redis == <<count, ttl>>
vars  == <<limiter, count, ttl, req, faults, restarts, made, recent>>

Idle == [pc |-> "idle"]

-----------------------------------------------------------------------------
(* Routes                                                                  *)

Route(g, auth) == [group |-> g, auth |-> auth]

\* Each route's group and whether the authentication runs, after the limiter.
Routes ==
  [nonce |-> Route("auth", FALSE),        verify |-> Route("auth", FALSE),
   me |-> Route("auth", TRUE),            api_key |-> Route("auth", TRUE),
   list_markets |-> Route("markets", FALSE), get_market |-> Route("markets", FALSE),
   orderbook |-> Route("markets", FALSE),
   mint |-> Route("trading", TRUE),       place_order |-> Route("trading", TRUE),
   cancel_order |-> Route("trading", TRUE), list_orders |-> Route("trading", TRUE),
   positions |-> Route("trading", TRUE),
   leaderboard |-> Route("rankings", FALSE), user_ranking |-> Route("rankings", FALSE),
   create_market |-> Route("admin", TRUE), update_status |-> Route("admin", TRUE),
   resolve |-> Route("admin", TRUE),      agent_user |-> Route("admin", TRUE),
   refresh |-> Route("admin", TRUE),      health |-> Route("none", FALSE)]

Group(r) == Routes[req[r].route].group

\* The user the authentication left in the request, or the client's address.
rateLimitKey(q) == IF q.user # Nobody THEN <<"user", q.user>> ELSE <<"ip", q.client>>
Key(r) == rateLimitKey(req[r])

AfterLimiter(q) == [q EXCEPT !.pc = IF Routes[q.route].auth THEN "auth" ELSE "handler"]

Arrive(r, c, x) ==
  /\ req[r].pc = "idle"
  /\ LET q == [pc |-> "incr", client |-> c, route |-> x, user |-> Nobody]
     IN  req' = [req EXCEPT ![r] = IF limiter /\ Routes[x].group \in Groups
                                   THEN q ELSE AfterLimiter(q)]
  /\ UNCHANGED <<limiter, redis, faults, restarts, made, recent>>

-----------------------------------------------------------------------------
(* The limiter                                                             *)

\* INCR: the key appears with the count 1 and no expiry.
Increment(k) ==
  /\ count' = [count EXCEPT ![k] = Succ(@)]
  /\ ttl' = [ttl EXCEPT ![k] = IF count[k] = 0 THEN Forever ELSE @]

Counted(r) == made' = [made EXCEPT ![Key(r)][Group(r)] = Succ(@)]
LetThrough(r) == recent' = [recent EXCEPT ![Key(r)][0][Group(r)] = Succ(@)]

AllowOneMore(n, g) == n <= Limit[g] + 1  \* mutated form: off by one
Allowed(n, g) == n <= Limit[g]

ExpireEach(n) == TRUE                    \* mutated form: every request sets the expiry
ExpireSecond(n) == n = 2                 \* mutated form: not the first request
SetsExpiry(n) == n = 1

Incr(r) ==
  /\ req[r].pc = "incr"
  /\ Increment(Key(r))
  /\ Counted(r)
  /\ LET n == count'[Key(r)]
     IN  \/ /\ SetsExpiry(n)
            /\ req' = [req EXCEPT ![r].pc = "expire"]
            /\ IF Allowed(n, Group(r)) THEN LetThrough(r) ELSE UNCHANGED recent
         \/ /\ ~SetsExpiry(n) /\ Allowed(n, Group(r))
            /\ req' = [req EXCEPT ![r] = AfterLimiter(@)]
            /\ LetThrough(r)
         \/ /\ ~SetsExpiry(n) /\ ~Allowed(n, Group(r))
            /\ req' = [req EXCEPT ![r] = Idle]      \* 429
            /\ UNCHANGED recent
  /\ UNCHANGED <<limiter, faults, restarts>>

\* EXPIRE, and the decision on the count that INCR returned.
Expire(r) ==
  /\ req[r].pc = "expire"
  /\ ttl' = [ttl EXCEPT ![Key(r)] = Window]
  /\ req' = [req EXCEPT ![r] = AfterLimiter(@)]
  /\ UNCHANGED <<limiter, count, faults, restarts, made, recent>>

\* A command that fails, with or without its effect: the request goes on.
CommandFails(r) ==
  /\ faults < MaxFaults
  /\ faults' = faults + 1
  /\ \/ /\ req[r].pc = "incr"
        /\ \/ UNCHANGED <<redis, made>>
           \/ Increment(Key(r)) /\ Counted(r)
     \/ /\ req[r].pc = "expire"
        /\ \E t \in {ttl[Key(r)], Window} : ttl' = [ttl EXCEPT ![Key(r)] = t]
        /\ UNCHANGED <<count, made>>
  /\ req' = [req EXCEPT ![r] = AfterLimiter(@)]
  /\ UNCHANGED <<limiter, restarts, recent>>

-----------------------------------------------------------------------------
(* Authentication and handler                                              *)

\* The auth service knows the user, or the request is answered with 401.
Authenticate(r, u) ==
  /\ req[r].pc = "auth"
  /\ req' = [req EXCEPT ![r] = IF u = Nobody THEN Idle
                               ELSE [@ EXCEPT !.pc = "handler", !.user = u]]
  /\ UNCHANGED <<limiter, redis, faults, restarts, made, recent>>

Handle(r) ==
  /\ req[r].pc = "handler"
  /\ req' = [req EXCEPT ![r] = Idle]
  /\ UNCHANGED <<limiter, redis, faults, restarts, made, recent>>

-----------------------------------------------------------------------------
(* Time and restarts                                                       *)

None == [g \in Groups |-> 0]

Dies(k) == ttl[k] = 1

\* A tick of Redis' clock: a counter whose time is over disappears.
Tick ==
  /\ count' = [k \in Keys |-> IF Dies(k) THEN 0 ELSE count[k]]
  /\ ttl' = [k \in Keys |-> IF Dies(k) \/ ttl[k] = Forever THEN Forever ELSE ttl[k] - 1]
  /\ made' = [k \in Keys |-> IF Dies(k) THEN None ELSE made[k]]
  /\ recent' = [k \in Keys |-> [a \in 0..(Window - 1) |->
                                  IF a = 0 THEN None ELSE recent[k][a - 1]]]
  /\ UNCHANGED <<limiter, req, faults, restarts>>

\* The gateway stops and starts again: requests in progress are lost, and the
\* limiter is used when Redis answers a ping.
Restart(answers) ==
  /\ restarts < MaxRestarts
  /\ restarts' = restarts + 1
  /\ limiter' = answers
  /\ req' = [r \in Requests |-> Idle]
  /\ UNCHANGED <<redis, faults, made, recent>>

-----------------------------------------------------------------------------

Init ==
  /\ limiter \in BOOLEAN
  /\ count = [k \in Keys |-> 0]
  /\ ttl = [k \in Keys |-> Forever]
  /\ req = [r \in Requests |-> Idle]
  /\ faults = 0 /\ restarts = 0
  /\ made = [k \in Keys |-> None]
  /\ recent = [k \in Keys |-> [a \in 0..(Window - 1) |-> None]]

Next ==
  \/ \E r \in Requests :
       \/ \E c \in Clients, x \in UsedRoutes : Arrive(r, c, x)
       \/ Incr(r) \/ Expire(r) \/ CommandFails(r)
       \/ \E u \in Users \cup {Nobody} : Authenticate(r, u)
       \/ Handle(r)
  \/ Tick
  \/ \E answers \in BOOLEAN : Restart(answers)

\* Time passes, and a request that has counted itself goes on.
Fairness == WF_vars(Tick) /\ \A r \in Requests : WF_vars(Expire(r))

Spec == Init /\ [][Next]_vars
FairSpec == Spec /\ Fairness

-----------------------------------------------------------------------------
(* Properties                                                              *)

Pcs == {"incr", "expire", "auth", "handler"}

TypeOK ==
  /\ limiter \in BOOLEAN
  /\ count \in [Keys -> 0..CountCap]
  /\ ttl \in [Keys -> 1..Window \cup {Forever}]
  /\ req \in [Requests -> {Idle} \cup [pc : Pcs, client : Clients, route : UsedRoutes,
                                       user : Users \cup {Nobody}]]
  /\ faults \in 0..MaxFaults /\ restarts \in 0..MaxRestarts
  /\ made \in [Keys -> [Groups -> 0..CountCap]]
  /\ recent \in [Keys -> [0..(Window - 1) -> [Groups -> 0..CountCap]]]

\* The requests that a history h says were let through a ticks ago, for the
\* ages a in A, over all groups whose limit is at most n: <<a, g, i>> is the
\* i-th of group g.
Through(h, n, A) ==
  {x \in A \X Groups \X (1..CountCap) : Limit[x[2]] <= n /\ x[3] <= h[x[1]][x[2]]}

LastWindow == 0..(Window - 1)

\* What the limiter lets through in ANY stretch of one window's length, over
\* all groups with the same or a smaller limit: a fixed window can be used up
\* at its end and the next one at its start, and no more
\* (rate_limiter.go:26-41).
AtMostTwiceTheLimit ==
  \A k \in Keys, g \in Groups :
    Cardinality(Through(recent[k], Limit[g], LastWindow)) <= 2 * Limit[g]

\* A counter that will never expire, and so refuses its client for good, is
\* the trace of a failed command or of a gateway that stopped between the two
\* commands (rate_limiter.go:29-35).
LastingCounterIsAFault ==
  \A k \in Keys :
    (count[k] > 0 /\ ttl[k] = Forever) =>
      \/ faults > 0 \/ restarts > 0
      \/ \E r \in Requests : req[r].pc = "expire" /\ Key(r) = k

\* No request makes the current window last longer, whatever it is refused or
\* allowed: a client that keeps asking is not shut out by its asking
\* (rate_limiter.go:34).
WindowIsNotProlonged ==
  [][\A k \in Keys : ttl[k] # Forever => ttl'[k] <= ttl[k]]_vars

\* A client's counter comes to its end, and with it the refusals, unless a
\* command failed or the gateway stopped.
CounterEnds ==
  \A k \in Keys : count[k] > 0 ~> (count[k] = 0 \/ faults > 0 \/ restarts > 0)

-----------------------------------------------------------------------------
(* What the documentation says and the code does not do.                   *)

\* Each group has a limit of its own, "strict rate limit (10 req/min per IP)"
\* for the auth endpoints (router.go:65): a request is refused only after that
\* many requests of its group.
OwnLimit ==
  [][\A r \in Requests :
       (req[r].pc = "incr" /\ req'[r].pc = "idle" /\ restarts' = restarts)
         => made[Key(r)][Group(r)] >= Limit[Group(r)]]_vars

\* "A sliding-window rate limiter" (rate_limiter.go:12).
WithinTheLimit ==
  \A k \in Keys, g \in Groups :
    Cardinality(Through(recent[k], Limit[g], LastWindow)) <= Limit[g]

=============================================================================
