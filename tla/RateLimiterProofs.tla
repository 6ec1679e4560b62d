-------------------------- MODULE RateLimiterProofs --------------------------
(***************************************************************************)
(* Facts about the rate limiter that hold for every number of clients,     *)
(* requests in progress, groups, limits and windows.                       *)
(***************************************************************************)
EXTENDS RateLimiter, FiniteSetTheorems, TLAPS

\* Whoever is about to send EXPIRE counted the first request of a key that
\* nobody else is about to give an expiry.
ExpiryIsPending ==
  \A r \in Requests :
    req[r].pc = "expire" =>
      /\ count[Key(r)] > 0 /\ ttl[Key(r)] = Forever
      /\ \A s \in Requests : (req[s].pc = "expire" /\ Key(s) = Key(r)) => s = r

\* Inductive: LastingCounterIsAFault alone does not exclude that the request
\* about to send EXPIRE finds a window that is running already.
LimiterInv == TypeOK /\ ExpiryIsPending /\ LastingCounterIsAFault

ReqType == {Idle} \cup [pc : Pcs, client : Clients, route : UsedRoutes,
                        user : Users \cup {Nobody}]

-----------------------------------------------------------------------------

LEMMA SuccType ==
  ASSUME NEW n \in 0..CountCap
  PROVE  Succ(n) \in 1..CountCap /\ (Succ(n) = 1 <=> n = 0)
BY RateLimiterAssumption DEF Succ

\* A request in progress has a key, and the limiter sends it on as a request.
LEMMA KeyType ==
  ASSUME TypeOK, NEW r \in Requests, req[r].pc # "idle"
  PROVE  Key(r) \in Keys /\ AfterLimiter(req[r]) \in ReqType
                         /\ AfterLimiter(req[r]).pc \in {"auth", "handler"}
<1>1. req[r] \in [pc : Pcs, client : Clients, route : UsedRoutes, user : Users \cup {Nobody}]
  BY DEF TypeOK, Idle
<1>2. Key(r) \in Keys
  BY <1>1 DEF Key, rateLimitKey, Keys
<1>3. AfterLimiter(req[r]) = [req[r] EXCEPT !.pc = "auth"] \/
      AfterLimiter(req[r]) = [req[r] EXCEPT !.pc = "handler"]
  BY DEF AfterLimiter
<1> QED BY <1>1, <1>2, <1>3 DEF ReqType, Pcs

\* The history keeps its type whatever is added to it.
LEMMA HistoryType ==
  ASSUME TypeOK, NEW r \in Requests, req[r].pc # "idle"
  PROVE  /\ Counted(r) => made' \in [Keys -> [Groups -> 0..CountCap]]
         /\ LetThrough(r) => recent' \in [Keys -> [0..(Window - 1) -> [Groups -> 0..CountCap]]]
<1>1. Key(r) \in Keys  BY KeyType
<1> DEFINE k == Key(r)
           g == Group(r)
<1>2. ASSUME NEW f \in [Groups -> 0..CountCap]
      PROVE  [f EXCEPT ![g] = Succ(@)] \in [Groups -> 0..CountCap]
  <2>1. CASE g \in Groups
    <3>1. Succ(f[g]) \in 0..CountCap  BY <2>1, SuccType
    <3> QED BY <3>1
  <2>2. CASE g \notin Groups  BY <2>2
  <2> QED BY <2>1, <2>2
<1> HIDE DEF k, g
<1>3. made[k] \in [Groups -> 0..CountCap]  BY <1>1 DEF TypeOK, k
<1>4. 0 \in 0..(Window - 1)  BY RateLimiterAssumption
<1>5. recent[k][0] \in [Groups -> 0..CountCap]
  <2>1. recent[k] \in [0..(Window - 1) -> [Groups -> 0..CountCap]]  BY <1>1 DEF TypeOK, k
  <2> QED BY ONLY <1>4, <2>1
<1>6. ASSUME Counted(r) PROVE made' \in [Keys -> [Groups -> 0..CountCap]]
  <2>1. made' = [made EXCEPT ![k] = [made[k] EXCEPT ![g] = Succ(@)]]
    BY <1>6 DEF Counted, k, g
  <2>2. [made[k] EXCEPT ![g] = Succ(@)] \in [Groups -> 0..CountCap]  BY ONLY <1>2, <1>3
  <2>3. made \in [Keys -> [Groups -> 0..CountCap]]  BY DEF TypeOK
  <2> QED BY ONLY <2>1, <2>2, <2>3
<1>7. ASSUME LetThrough(r)
      PROVE  recent' \in [Keys -> [0..(Window - 1) -> [Groups -> 0..CountCap]]]
  <2>1. recent' = [recent EXCEPT ![k] =
                     [recent[k] EXCEPT ![0] = [recent[k][0] EXCEPT ![g] = Succ(@)]]]
    BY <1>7 DEF LetThrough, k, g
  <2>2. [recent[k] EXCEPT ![0] = [recent[k][0] EXCEPT ![g] = Succ(@)]]
          \in [0..(Window - 1) -> [Groups -> 0..CountCap]]
    BY <1>1, <1>2, <1>5 DEF TypeOK, k
  <2> QED BY <2>1, <2>2 DEF TypeOK
<1> QED BY <1>6, <1>7

\* INCR on a key.
LEMMA IncrementProps ==
  ASSUME TypeOK, NEW k \in Keys, Increment(k)
  PROVE  /\ count' \in [Keys -> 0..CountCap]
         /\ ttl' \in [Keys -> 1..Window \cup {Forever}]
         /\ count'[k] > 0 /\ (count'[k] = 1 <=> count[k] = 0)
         /\ count[k] > 0 => ttl'[k] = ttl[k]
         /\ count[k] = 0 => ttl'[k] = Forever
         /\ \A j \in Keys \ {k} : count'[j] = count[j] /\ ttl'[j] = ttl[j]
<1>1. count[k] \in 0..CountCap  BY DEF TypeOK
<1>2. count' = [count EXCEPT ![k] = Succ(count[k])]
  BY DEF Increment
<1>3. ttl' = [ttl EXCEPT ![k] = IF count[k] = 0 THEN Forever ELSE ttl[k]]
  BY DEF Increment
<1>4. Succ(count[k]) \in 1..CountCap /\ (Succ(count[k]) = 1 <=> count[k] = 0)
  BY <1>1, SuccType
<1> QED BY <1>1, <1>2, <1>3, <1>4, RateLimiterAssumption DEF TypeOK

\* What INCR disturbs: a key whose window runs, or whose first request is
\* about to set the expiry, keeps what it has.
LEMMA KeysOfOthers ==
  ASSUME LimiterInv, NEW r \in Requests, req[r].pc \in {"incr", "expire"},
         NEW q \in ReqType, q.pc # "expire", req' = [req EXCEPT ![r] = q]
  PROVE  \A s \in Requests : req'[s].pc = "expire" =>
           s # r /\ req[s].pc = "expire" /\ Key(s)' = Key(s)
BY DEF LimiterInv, TypeOK, Key, ReqType

-----------------------------------------------------------------------------

LEMMA InitLimiter == Init => LimiterInv
<1> SUFFICES ASSUME Init PROVE LimiterInv  OBVIOUS
<1>1. TypeOK
  BY RateLimiterAssumption DEF Init, TypeOK, Idle, None
<1>2. ExpiryIsPending /\ LastingCounterIsAFault
  BY DEF Init, Idle, ExpiryIsPending, LastingCounterIsAFault
<1> QED BY <1>1, <1>2 DEF LimiterInv

\* A step that touches neither Redis nor the set of requests about to send
\* EXPIRE keeps what is said of keys.
LEMMA KeysUntouched ==
  ASSUME LimiterInv, UNCHANGED <<redis, faults, restarts>>,
         NEW r \in Requests, req[r].pc # "expire",
         NEW q \in ReqType, q.pc # "expire", req' = [req EXCEPT ![r] = q]
  PROVE  ExpiryIsPending' /\ LastingCounterIsAFault'
<1>1. \A s \in Requests : /\ req'[s].pc = "expire" <=> req[s].pc = "expire"
                          /\ req[s].pc = "expire" => Key(s)' = Key(s)
  BY DEF LimiterInv, TypeOK, Key
<1>2. ExpiryIsPending'
  BY <1>1 DEF LimiterInv, ExpiryIsPending, redis
<1>3. LastingCounterIsAFault'
  BY <1>1 DEF LimiterInv, LastingCounterIsAFault, redis
<1> QED BY <1>2, <1>3

LEMMA ArriveInv ==
  ASSUME LimiterInv, NEW r \in Requests, NEW c \in Clients, NEW x \in UsedRoutes,
         Arrive(r, c, x)
  PROVE  LimiterInv'
<1> DEFINE q0 == [pc |-> "incr", client |-> c, route |-> x, user |-> Nobody]
           q  == IF limiter /\ Routes[x].group \in Groups THEN q0 ELSE AfterLimiter(q0)
<1>1. AfterLimiter(q0) = [q0 EXCEPT !.pc = "auth"] \/
      AfterLimiter(q0) = [q0 EXCEPT !.pc = "handler"]
  BY DEF AfterLimiter
<1>2. q \in ReqType /\ q.pc # "expire"  BY <1>1 DEF ReqType, Pcs
<1>3. req' = [req EXCEPT ![r] = q] /\ req[r].pc = "idle"  BY DEF Arrive
<1> HIDE DEF q
<1>4. TypeOK'  BY <1>2, <1>3 DEF LimiterInv, TypeOK, Arrive, ReqType, redis
<1>5. ExpiryIsPending' /\ LastingCounterIsAFault'
  BY <1>2, <1>3, KeysUntouched DEF Arrive
<1> QED BY <1>4, <1>5 DEF LimiterInv

LEMMA IncrInv ==
  ASSUME LimiterInv, NEW r \in Requests, Incr(r)
  PROVE  LimiterInv'
<1> DEFINE k == Key(r)
<1>0. TypeOK /\ req[r].pc = "incr" /\ Increment(k)  BY DEF Incr, LimiterInv
<1>1. k \in Keys /\ AfterLimiter(req[r]) \in ReqType
                 /\ AfterLimiter(req[r]).pc \in {"auth", "handler"}
  BY <1>0, KeyType
<1>2. /\ count' \in [Keys -> 0..CountCap]
      /\ ttl' \in [Keys -> 1..Window \cup {Forever}]
      /\ count'[k] > 0 /\ (count'[k] = 1 <=> count[k] = 0)
      /\ count[k] > 0 => ttl'[k] = ttl[k]
      /\ count[k] = 0 => ttl'[k] = Forever
      /\ \A j \in Keys \ {k} : count'[j] = count[j] /\ ttl'[j] = ttl[j]
  BY <1>0, <1>1, IncrementProps
<1>3. made' \in [Keys -> [Groups -> 0..CountCap]]
  BY <1>0, HistoryType DEF Incr
<1>4. recent' \in [Keys -> [0..(Window - 1) -> [Groups -> 0..CountCap]]]
  <2>1. LetThrough(r) \/ recent' = recent  BY DEF Incr
  <2> QED BY <2>1, <1>0, HistoryType DEF TypeOK
<1>5. CASE count[k] = 0
  <2>1. req' = [req EXCEPT ![r] = [req[r] EXCEPT !.pc = "expire"]]
    BY <1>2, <1>5 DEF Incr, SetsExpiry
  <2>2. [req[r] EXCEPT !.pc = "expire"] \in ReqType /\ Key(r)' = k
    <3>1. req[r] \in [pc : Pcs, client : Clients, route : UsedRoutes,
                      user : Users \cup {Nobody}]
      BY <1>0 DEF TypeOK, Idle
    <3>2. [req[r] EXCEPT !.pc = "expire"] \in ReqType  BY <3>1 DEF ReqType, Pcs
    <3>3. req'[r] = [req[r] EXCEPT !.pc = "expire"]  BY <1>0, <2>1 DEF TypeOK
    <3>4. /\ [req[r] EXCEPT !.pc = "expire"].user = req[r].user
          /\ [req[r] EXCEPT !.pc = "expire"].client = req[r].client
      BY <3>1
    <3> QED BY <3>2, <3>3, <3>4 DEF Key, rateLimitKey
  <2>3. TypeOK'
    BY <1>2, <1>3, <1>4, <2>1, <2>2 DEF TypeOK, ReqType, Incr, LimiterInv
  <2>4. \A s \in Requests \ {r} : req'[s] = req[s] /\ Key(s)' = Key(s)
    BY <1>0, <2>1 DEF TypeOK, Key
  <2>5. req'[r].pc = "expire"
    BY <1>0, <2>1 DEF TypeOK, Idle
  <2>6. \A s \in Requests \ {r} : req[s].pc = "expire" =>
          /\ Key(s) \in Keys /\ Key(s) # k /\ count[Key(s)] > 0 /\ ttl[Key(s)] = Forever
    BY <1>0, <1>5, KeyType DEF LimiterInv, ExpiryIsPending
  <2>7. ExpiryIsPending'
    BY <1>2, <1>5, <2>2, <2>4, <2>5, <2>6 DEF LimiterInv, ExpiryIsPending
  <2>8. faults' = faults /\ restarts' = restarts  BY DEF Incr
  <2>9. ASSUME NEW j \in Keys, count'[j] > 0, ttl'[j] = Forever
        PROVE  faults' > 0 \/ restarts' > 0 \/
               \E s \in Requests : req'[s].pc = "expire" /\ Key(s)' = j
    <3>1. CASE j = k  BY <3>1, <2>2, <2>5
    <3>2. CASE j # k
      <4>1. count[j] > 0 /\ ttl[j] = Forever  BY <3>2, <1>2, <2>9
      <4>2. CASE faults > 0 \/ restarts > 0  BY <4>2, <2>8
      <4>3. ASSUME NEW s \in Requests, req[s].pc = "expire", Key(s) = j
            PROVE  req'[s].pc = "expire" /\ Key(s)' = j
        BY <4>3, <1>0, <2>4
      <4> QED BY <4>1, <4>2, <4>3 DEF LimiterInv, LastingCounterIsAFault
    <3> QED BY <3>1, <3>2
  <2> QED BY <2>3, <2>7, <2>9 DEF LimiterInv, LastingCounterIsAFault
<1>6. CASE count[k] # 0
  <2>0. count[k] > 0  BY <1>0, <1>1, <1>6 DEF TypeOK
  <2>1. PICK q \in ReqType : q.pc # "expire" /\ req' = [req EXCEPT ![r] = q]
    BY <1>1, <1>2, <1>6 DEF Incr, SetsExpiry, ReqType, Idle
  <2>2. TypeOK'
    BY <1>2, <1>3, <1>4, <2>1 DEF TypeOK, ReqType, Incr, LimiterInv
  <2>3. \A s \in Requests : /\ req'[s].pc = "expire" <=> req[s].pc = "expire"
                            /\ req[s].pc = "expire" => Key(s)' = Key(s) /\ Key(s) \in Keys
    BY <1>0, <2>1, KeyType DEF TypeOK, Key
  <2>4. ttl' = ttl /\ \A j \in Keys : count[j] > 0 <=> count'[j] > 0
    <3>1. \A j \in Keys : ttl'[j] = ttl[j]  BY <1>2, <2>0
    <3>2. \A j \in Keys : count[j] > 0 <=> count'[j] > 0  BY <1>2, <2>0
    <3> QED BY <1>0, <1>2, <3>1, <3>2 DEF TypeOK
  <2>5. ExpiryIsPending'
    BY <2>3, <2>4 DEF LimiterInv, ExpiryIsPending
  <2>6. LastingCounterIsAFault'
    BY <2>3, <2>4 DEF LimiterInv, LastingCounterIsAFault, Incr
  <2> QED BY <2>2, <2>5, <2>6 DEF LimiterInv
<1> QED BY <1>5, <1>6

LEMMA ExpireInv ==
  ASSUME LimiterInv, NEW r \in Requests, Expire(r)
  PROVE  LimiterInv'
<1> DEFINE k == Key(r)
           q == AfterLimiter(req[r])
<1>0. TypeOK /\ req[r].pc = "expire"  BY DEF Expire, LimiterInv
<1>1. k \in Keys /\ q \in ReqType /\ q.pc \in {"auth", "handler"}  BY <1>0, KeyType
<1>2. req' = [req EXCEPT ![r] = q] /\ ttl' = [ttl EXCEPT ![k] = Window]  BY DEF Expire
<1>3. TypeOK'
  BY <1>0, <1>1, <1>2, RateLimiterAssumption DEF TypeOK, ReqType, Expire
<1>4. \A s \in Requests : req'[s].pc = "expire" =>
        s # r /\ req[s].pc = "expire" /\ Key(s)' = Key(s)
  BY <1>0, <1>1, <1>2, KeysOfOthers
<1>5. \A s \in Requests : req'[s].pc = "expire" =>
        Key(s) \in Keys \ {k} /\ ttl'[Key(s)] = ttl[Key(s)]
  BY <1>0, <1>1, <1>2, <1>4, KeyType DEF LimiterInv, ExpiryIsPending, TypeOK
<1>6. ExpiryIsPending'
  BY <1>4, <1>5 DEF LimiterInv, ExpiryIsPending, Expire
<1>7. ASSUME NEW j \in Keys, count'[j] > 0, ttl'[j] = Forever
      PROVE  faults' > 0 \/ restarts' > 0 \/
             \E s \in Requests : req'[s].pc = "expire" /\ Key(s)' = j
  <2>1. Window # Forever  BY RateLimiterAssumption DEF Forever
  <2>2. j # k /\ ttl[j] = Forever /\ count[j] > 0
    BY <1>0, <1>1, <1>2, <1>7, <2>1 DEF TypeOK, Expire
  <2>3. ASSUME NEW s \in Requests, req[s].pc = "expire", Key(s) = j
        PROVE  req'[s].pc = "expire" /\ Key(s)' = j
    BY <1>0, <1>2, <2>2, <2>3 DEF TypeOK, Key
  <2> QED BY <2>2, <2>3 DEF LimiterInv, LastingCounterIsAFault, Expire
<1> QED BY <1>3, <1>6, <1>7 DEF LimiterInv, LastingCounterIsAFault

LEMMA CommandFailsInv ==
  ASSUME LimiterInv, NEW r \in Requests, CommandFails(r)
  PROVE  LimiterInv'
<1> DEFINE k == Key(r)
           q == AfterLimiter(req[r])
<1>0. TypeOK /\ req[r].pc \in {"incr", "expire"}  BY DEF CommandFails, LimiterInv
<1>1. k \in Keys /\ q \in ReqType /\ q.pc \in {"auth", "handler"}  BY <1>0, KeyType
<1>2. req' = [req EXCEPT ![r] = q]  BY DEF CommandFails
<1>3. faults' \in 0..MaxFaults /\ faults' > 0
  BY <1>0, RateLimiterAssumption DEF CommandFails, TypeOK
<1>4. made' \in [Keys -> [Groups -> 0..CountCap]]
  <2>1. Counted(r) \/ made' = made  BY DEF CommandFails
  <2> QED BY <2>1, <1>0, HistoryType DEF TypeOK
<1>5. LastingCounterIsAFault'  BY <1>3 DEF LastingCounterIsAFault
<1>10. ASSUME count' \in [Keys -> 0..CountCap], ttl' \in [Keys -> 1..Window \cup {Forever}]
       PROVE  TypeOK'
  <2>1. req' \in [Requests -> ReqType]  BY <1>0, <1>1, <1>2 DEF TypeOK, ReqType
  <2>2. UNCHANGED <<limiter, restarts, recent>>  BY DEF CommandFails
  <2> QED BY <1>0, <1>3, <1>4, <1>10, <2>1, <2>2 DEF TypeOK, ReqType
<1>6. \A s \in Requests : req'[s].pc = "expire" =>
        s # r /\ req[s].pc = "expire" /\ Key(s)' = Key(s) /\ Key(s) \in Keys
  BY <1>0, <1>1, <1>2, KeysOfOthers, KeyType
<1>7. CASE UNCHANGED redis
  <2>1. TypeOK'  BY <1>0, <1>7, <1>10 DEF TypeOK, redis
  <2>2. ExpiryIsPending'  BY <1>6, <1>7 DEF LimiterInv, ExpiryIsPending, redis
  <2> QED BY <1>5, <2>1, <2>2 DEF LimiterInv
<1>8. CASE Increment(k)
  <2>1. /\ count' \in [Keys -> 0..CountCap]
        /\ ttl' \in [Keys -> 1..Window \cup {Forever}]
        /\ count'[k] > 0
        /\ count[k] > 0 => ttl'[k] = ttl[k]
        /\ \A j \in Keys \ {k} : count'[j] = count[j] /\ ttl'[j] = ttl[j]
    BY <1>0, <1>1, <1>8, IncrementProps
  <2>2. TypeOK'  BY <1>10, <2>1
  <2>3. ExpiryIsPending'  BY <1>6, <2>1 DEF LimiterInv, ExpiryIsPending
  <2> QED BY <1>5, <2>2, <2>3 DEF LimiterInv
<1>9. CASE req[r].pc = "expire"
  <2>0. PICK t \in {ttl[k], Window} : ttl' = [ttl EXCEPT ![k] = t] /\ count' = count
    BY <1>9 DEF CommandFails
  <2>1. t \in 1..Window \cup {Forever}
    BY <1>0, <1>1, RateLimiterAssumption DEF TypeOK
  <2>2. TypeOK'  BY <1>0, <1>10, <2>0, <2>1 DEF TypeOK
  <2>3. \A s \in Requests : req'[s].pc = "expire" => Key(s) # k
    BY <1>6, <1>9 DEF LimiterInv, ExpiryIsPending
  <2>4. \A s \in Requests : req'[s].pc = "expire" => ttl'[Key(s)] = ttl[Key(s)]
    BY <1>0, <1>6, <2>0, <2>3 DEF TypeOK
  <2>5. ExpiryIsPending'  BY <1>6, <2>0, <2>4 DEF LimiterInv, ExpiryIsPending
  <2> QED BY <1>5, <2>2, <2>5 DEF LimiterInv
<1> QED BY <1>7, <1>8, <1>9 DEF CommandFails

LEMMA AuthenticateInv ==
  ASSUME LimiterInv, NEW r \in Requests, NEW u \in Users \cup {Nobody}, Authenticate(r, u)
  PROVE  LimiterInv'
<1>1. PICK q \in ReqType : q.pc # "expire" /\ req' = [req EXCEPT ![r] = q]
  <2>1. req[r] \in [pc : Pcs, client : Clients, route : UsedRoutes, user : Users \cup {Nobody}]
    BY DEF LimiterInv, TypeOK, Idle, Authenticate
  <2>2. [[req[r] EXCEPT !.pc = "handler"] EXCEPT !.user = u] \in ReqType
    BY <2>1 DEF ReqType, Pcs
  <2> QED BY <2>1, <2>2 DEF Authenticate, ReqType, Idle
<1>2. TypeOK'
  <2>1. req' \in [Requests -> ReqType]  BY <1>1 DEF LimiterInv, TypeOK, ReqType
  <2>2. UNCHANGED <<limiter, count, ttl, faults, restarts, made, recent>>
    BY DEF Authenticate, redis
  <2> QED BY ONLY LimiterInv, <2>1, <2>2 DEF LimiterInv, TypeOK, ReqType
<1>3. req[r].pc # "expire"  BY DEF Authenticate
<1>4. ExpiryIsPending' /\ LastingCounterIsAFault'
  BY <1>1, <1>3, KeysUntouched DEF Authenticate
<1> QED BY <1>2, <1>4 DEF LimiterInv

LEMMA HandleInv ==
  ASSUME LimiterInv, NEW r \in Requests, Handle(r)
  PROVE  LimiterInv'
<1>1. Idle \in ReqType /\ Idle.pc # "expire" /\ req' = [req EXCEPT ![r] = Idle]
  BY DEF Handle, ReqType, Idle
<1>2. TypeOK'  BY <1>1 DEF LimiterInv, TypeOK, Handle, ReqType, redis
<1>3. req[r].pc # "expire"  BY DEF Handle
<1>4. ExpiryIsPending' /\ LastingCounterIsAFault'
  BY <1>1, <1>3, KeysUntouched DEF Handle
<1> QED BY <1>2, <1>4 DEF LimiterInv

LEMMA TickInv ==
  ASSUME LimiterInv, Tick
  PROVE  LimiterInv'
<1>0. TypeOK  BY DEF LimiterInv
<1>1. None \in [Groups -> 0..CountCap]  BY RateLimiterAssumption DEF None
<1>2. count' \in [Keys -> 0..CountCap] /\ made' \in [Keys -> [Groups -> 0..CountCap]]
  BY <1>0, <1>1, RateLimiterAssumption DEF Tick, TypeOK
<1>3. ASSUME NEW k \in Keys, ~(Dies(k) \/ ttl[k] = Forever)
      PROVE  ttl[k] - 1 \in 1..Window
  BY <1>0, <1>3, RateLimiterAssumption DEF TypeOK, Dies
<1>4. ttl' \in [Keys -> 1..Window \cup {Forever}]
  BY <1>3 DEF Tick
<1>5. recent' \in [Keys -> [0..(Window - 1) -> [Groups -> 0..CountCap]]]
  <2>1. ASSUME NEW k \in Keys, NEW a \in 0..(Window - 1)
        PROVE  (IF a = 0 THEN None ELSE recent[k][a - 1]) \in [Groups -> 0..CountCap]
    <3>1. CASE a = 0  BY <1>1, <3>1
    <3>2. CASE a # 0
      <4>1. a - 1 \in 0..(Window - 1)  BY <3>2, RateLimiterAssumption
      <4>2. recent[k] \in [0..(Window - 1) -> [Groups -> 0..CountCap]]  BY <1>0 DEF TypeOK
      <4>3. recent[k][a - 1] \in [Groups -> 0..CountCap]  BY ONLY <4>1, <4>2
      <4> QED BY ONLY <3>2, <4>3
    <3> QED BY <3>1, <3>2
  <2> QED BY <2>1 DEF Tick
<1>6. TypeOK'  BY <1>0, <1>2, <1>4, <1>5 DEF TypeOK, Tick
<1>7. \A s \in Requests : Key(s)' = Key(s) /\ req'[s] = req[s]  BY DEF Tick, Key
<1>8. \A k \in Keys : ttl[k] = Forever => count'[k] = count[k] /\ ttl'[k] = Forever
  BY <1>0 DEF Tick, Dies, Forever, TypeOK
<1>9. \A s \in Requests : req[s].pc = "expire" => Key(s) \in Keys  BY <1>0, KeyType
<1>10. ExpiryIsPending'
  BY <1>7, <1>8, <1>9 DEF LimiterInv, ExpiryIsPending
<1>11. \A k \in Keys : (count'[k] > 0 /\ ttl'[k] = Forever) => count[k] > 0 /\ ttl[k] = Forever
  <2> SUFFICES ASSUME NEW k \in Keys, count'[k] > 0, ttl'[k] = Forever
               PROVE  count[k] > 0 /\ ttl[k] = Forever
    OBVIOUS
  <2>1. ~Dies(k) /\ count[k] > 0  BY DEF Tick
  <2>2. ttl[k] # Forever => ttl'[k] \in 1..Window  BY <1>3, <2>1 DEF Tick
  <2> QED BY <2>1, <2>2 DEF Forever
<1>12. LastingCounterIsAFault'
  BY <1>7, <1>11 DEF LimiterInv, LastingCounterIsAFault, Tick
<1> QED BY <1>6, <1>10, <1>12 DEF LimiterInv

LEMMA RestartInv ==
  ASSUME LimiterInv, NEW answers \in BOOLEAN, Restart(answers)
  PROVE  LimiterInv'
<1>1. restarts' \in 0..MaxRestarts /\ restarts' > 0
  BY RateLimiterAssumption DEF LimiterInv, TypeOK, Restart
<1>2. \A r \in Requests : req'[r] = Idle  BY DEF Restart
<1>3. TypeOK'  BY <1>1 DEF LimiterInv, TypeOK, Restart, redis
<1>4. ExpiryIsPending'  BY <1>2 DEF ExpiryIsPending, Idle
<1>5. LastingCounterIsAFault'  BY <1>1 DEF LastingCounterIsAFault
<1> QED BY <1>3, <1>4, <1>5 DEF LimiterInv

LEMMA NextLimiter == LimiterInv /\ [Next]_vars => LimiterInv'
<1> SUFFICES ASSUME LimiterInv, [Next]_vars PROVE LimiterInv'  OBVIOUS
<1>1. CASE UNCHANGED vars
  <2>1. TypeOK'  BY <1>1 DEF LimiterInv, TypeOK, vars, redis
  <2>2. ExpiryIsPending' /\ LastingCounterIsAFault'
    BY <1>1 DEF LimiterInv, ExpiryIsPending, LastingCounterIsAFault, Key, vars, redis
  <2> QED BY <2>1, <2>2 DEF LimiterInv
<1>2. CASE Next
  BY <1>2, ArriveInv, IncrInv, ExpireInv, CommandFailsInv, AuthenticateInv, HandleInv,
     TickInv, RestartInv DEF Next
<1> QED BY <1>1, <1>2

THEOREM LimiterInvariant == Spec => []LimiterInv
<1> QED BY InitLimiter, NextLimiter, PTL DEF Spec

-----------------------------------------------------------------------------

\* The pipeline's variables keep their types.
THEOREM LimiterTypeCorrect == Spec => []TypeOK
<1>1. LimiterInv => TypeOK  BY DEF LimiterInv
<1> QED BY <1>1, LimiterInvariant, PTL

\* Only a failed command or a stopped gateway leaves a counter that refuses
\* its client for good, whatever the limits and the number of requests in
\* progress (rate_limiter.go:29-35).
THEOREM LastingCounterNeedsAFault == Spec => []LastingCounterIsAFault
<1>1. LimiterInv => LastingCounterIsAFault  BY DEF LimiterInv
<1> QED BY <1>1, LimiterInvariant, PTL

LEMMA StepKeepsWindow ==
  ASSUME LimiterInv, [Next]_vars, NEW k \in Keys, ttl[k] # Forever
  PROVE  ttl'[k] <= ttl[k]
<1>0. TypeOK /\ ttl[k] \in 1..Window  BY DEF LimiterInv, TypeOK
<1>1. CASE ttl' = ttl  BY <1>0, <1>1
<1>2. ASSUME NEW r \in Requests, req[r].pc # "idle", Increment(Key(r))
      PROVE  ttl'[k] <= ttl[k]
  <2>1. Key(r) \in Keys  BY <1>0, <1>2, KeyType
  <2>2. ttl'[k] = ttl[k] \/ ttl'[k] = Forever
    BY <1>0, <1>2, <2>1, IncrementProps DEF TypeOK, Increment
  <2> QED BY <1>0, <2>2 DEF Forever
<1>3. ASSUME NEW r \in Requests, req[r].pc = "expire", NEW t,
             ttl' = [ttl EXCEPT ![Key(r)] = t]
      PROVE  ttl'[k] <= ttl[k]
  <2>1. Key(r) # k  BY <1>3 DEF LimiterInv, ExpiryIsPending
  <2> QED BY <1>0, <1>3, <2>1 DEF TypeOK
<1>4. CASE Tick
  BY <1>0, <1>4 DEF Tick, Dies, Forever
<1>5. CASE \E r \in Requests : Incr(r)
  BY <1>2, <1>5 DEF Incr
<1>6. CASE \E r \in Requests : Expire(r)
  BY <1>3, <1>6 DEF Expire
<1>7. CASE \E r \in Requests : CommandFails(r)
  BY <1>1, <1>2, <1>3, <1>7 DEF CommandFails, redis
<1> QED
  BY <1>1, <1>4, <1>5, <1>6, <1>7 DEF Next, vars, redis, Arrive, Authenticate, Handle, Restart

\* No request prolongs the window that runs, refused or not
\* (rate_limiter.go:34).
THEOREM WindowNeverProlonged == Spec => WindowIsNotProlonged
<1>1. LimiterInv /\ [Next]_vars =>
        [\A k \in Keys : ttl[k] # Forever => ttl'[k] <= ttl[k]]_vars
  BY StepKeepsWindow
<1> QED BY <1>1, LimiterInvariant, PTL DEF Spec, WindowIsNotProlonged

-----------------------------------------------------------------------------
(* What the limiter lets through                                           *)

\* The history of one key: what it let through, by age and group.
History == [0..(Window - 1) -> [Groups -> 0..CountCap]]

\* The requests of the last window's length are those of the counter that runs,
\* all younger than e ticks, and those of an earlier one, all older: neither
\* counter let more than a limit through.  A counter that expires in t ticks
\* appeared no more than Window - t ticks ago.
Split(h, c, t, e) ==
  /\ t # Forever => e >= Window - t
  /\ \A n \in Nat : /\ Cardinality(Through(h, n, 0..(e - 1))) <= c
                    /\ Cardinality(Through(h, n, 0..(e - 1))) <= n
                    /\ Cardinality(Through(h, n, e..(Window - 1))) <= n

\* Inductive with LimiterInv, and the reason for AtMostTwiceTheLimit.
BudgetInv ==
  \A k \in Keys : \E e \in 1..Window : Split(recent[k], count[k], ttl[k], e)

LEMMA ThroughFinite ==
  ASSUME NEW h, NEW n, NEW A, IsFiniteSet(A)
  PROVE  /\ IsFiniteSet(Through(h, n, A)) /\ Cardinality(Through(h, n, A)) \in Nat
<1> DEFINE S == Through(h, n, A)
           T == (A \X Groups) \X (1..CountCap)
           f == [x \in S |-> <<<<x[1], x[2]>>, x[3]>>]
<1>1. IsFiniteSet(T)
  <2>1. IsFiniteSet(Groups) /\ IsFiniteSet(1..CountCap)
    BY RateLimiterAssumption, FS_Interval
  <2>2. IsFiniteSet(A \X Groups)  BY <2>1, FS_Product
  <2> QED BY <2>1, <2>2, FS_Product
<1>2. \A x \in S : x \in A \X Groups \X (1..CountCap)  BY DEF Through
<1>3. f \in [S -> T]  BY <1>2
<1>4. \A x, y \in S : f[x] = f[y] => x = y  BY <1>2
<1>5. f \in Injection(S, T)  BY <1>3, <1>4 DEF Injection, IsInjective
<1> HIDE DEF S, T, f
<1>6. IsFiniteSet(S)  BY <1>1, <1>5, FS_Injection
<1> QED BY <1>6, FS_CardinalityType DEF S

\* A history with no more than another, but for one more element.
LEMMA ThroughGrows ==
  ASSUME NEW h, NEW i, NEW n, NEW A, NEW B, IsFiniteSet(B), NEW x,
         Through(i, n, A) \subseteq Through(h, n, B) \cup {x}
  PROVE  Cardinality(Through(i, n, A)) <= Cardinality(Through(h, n, B)) + 1
<1> DEFINE S == Through(i, n, A)
           T == Through(h, n, B)
<1>1. IsFiniteSet(T) /\ Cardinality(T) \in Nat  BY ThroughFinite
<1>2. S \in SUBSET (T \cup {x})  OBVIOUS
<1> HIDE DEF S, T
<1>3. IsFiniteSet(T \cup {x}) /\ Cardinality(T \cup {x}) <= Cardinality(T) + 1
  <2>1. /\ IsFiniteSet(T \cup {x})
        /\ Cardinality(T \cup {x}) = IF x \in T THEN Cardinality(T) ELSE Cardinality(T) + 1
    BY ONLY <1>1, FS_AddElement
  <2> QED BY ONLY <1>1, <2>1
<1>4. IsFiniteSet(S) /\ Cardinality(S) <= Cardinality(T \cup {x})  BY <1>2, <1>3, FS_Subset
<1>5. Cardinality(S) \in Nat /\ Cardinality(T \cup {x}) \in Nat
  BY <1>3, <1>4, FS_CardinalityType
<1>6. Cardinality(S) <= Cardinality(T) + 1  BY ONLY <1>1, <1>3, <1>4, <1>5
<1> QED BY <1>6 DEF S, T

LEMMA ThroughNoMore ==
  ASSUME NEW h, NEW i, NEW n, NEW A, NEW B, IsFiniteSet(B),
         Through(i, n, A) \subseteq Through(h, n, B)
  PROVE  Cardinality(Through(i, n, A)) <= Cardinality(Through(h, n, B))
BY ThroughFinite, FS_Subset

\* Requests that are counted and not let through take nothing from the budget.
LEMMA SplitKept ==
  ASSUME NEW h \in History, NEW e \in 1..Window, NEW c \in Nat, NEW d \in Nat, c <= d,
         NEW t, NEW u, u = t \/ u = Forever \/ u = Window, Split(h, c, t, e)
  PROVE  Split(h, d, u, e)
<1>0. Window \in Nat /\ Window > 0  BY RateLimiterAssumption
<1>1. u # Forever => e >= Window - u  BY <1>0 DEF Split
<1>2. ASSUME NEW n \in Nat
      PROVE  /\ Cardinality(Through(h, n, 0..(e - 1))) <= d
             /\ Cardinality(Through(h, n, 0..(e - 1))) <= n
             /\ Cardinality(Through(h, n, e..(Window - 1))) <= n
  <2>1. Cardinality(Through(h, n, 0..(e - 1))) \in Nat  BY ThroughFinite, FS_Interval
  <2>2. /\ Cardinality(Through(h, n, 0..(e - 1))) <= c
        /\ Cardinality(Through(h, n, 0..(e - 1))) <= n
        /\ Cardinality(Through(h, n, e..(Window - 1))) <= n
    BY DEF Split
  <2> QED BY <2>1, <2>2
<1> QED BY <1>1, <1>2 DEF Split

\* A request that is let through by the count it raised.
LEMMA SplitAdd ==
  ASSUME NEW h \in History, NEW e \in 1..Window, NEW c \in Nat, NEW g \in Groups,
         c + 1 <= Limit[g], NEW i \in History, i = [h EXCEPT ![0][g] = Succ(@)],
         NEW t, NEW u, u = t \/ u = Forever \/ u = Window, Split(h, c, t, e)
  PROVE  Split(i, c + 1, u, e)
<1>0. /\ Window \in Nat /\ Window > 0 /\ CountCap \in Nat /\ Limit[g] \in Nat
      /\ 0 \in LastWindow /\ 0..(e - 1) \subseteq LastWindow
      /\ e..(Window - 1) \subseteq LastWindow \ {0}
  BY RateLimiterAssumption DEF LastWindow
<1>1. u # Forever => e >= Window - u  BY <1>0 DEF Split
<1>2. \A a \in LastWindow, x \in Groups :
        i[a][x] = IF a = 0 /\ x = g THEN Succ(h[0][g]) ELSE h[a][x]
  BY <1>0 DEF History, LastWindow
<1>3. h[0][g] \in Nat /\ Succ(h[0][g]) <= h[0][g] + 1 /\ Succ(h[0][g]) \in Nat
  BY <1>0 DEF Succ, History, LastWindow
<1> DEFINE new == <<0, g, h[0][g] + 1>>
<1>4. ASSUME NEW n \in Nat, NEW A \in SUBSET LastWindow,
             NEW y \in Through(i, n, A), y \notin Through(h, n, A)
      PROVE  Limit[g] <= n /\ y = new /\ 0 \in A
  <2>1. /\ y \in A \X Groups \X (1..CountCap) /\ Limit[y[2]] <= n
        /\ y[3] <= i[y[1]][y[2]] /\ ~ (y[3] <= h[y[1]][y[2]])
    BY <1>4 DEF Through
  <2>2. y[1] = 0 /\ y[2] = g  BY <1>2, <2>1
  <2>3. y[3] \in Nat /\ y[3] <= h[0][g] + 1 /\ ~ (y[3] <= h[0][g])
    BY <1>0, <1>2, <1>3, <2>1, <2>2
  <2>4. y[3] = h[0][g] + 1  BY <1>3, <2>3
  <2> QED BY <2>1, <2>2, <2>4
<1>5. ASSUME NEW n \in Nat
      PROVE  /\ Cardinality(Through(i, n, 0..(e - 1))) <= c + 1
             /\ Cardinality(Through(i, n, 0..(e - 1))) <= n
             /\ Cardinality(Through(i, n, e..(Window - 1))) <= n
  <2> DEFINE A == 0..(e - 1)
             B == e..(Window - 1)
  <2>1. /\ Cardinality(Through(h, n, A)) <= c
        /\ Cardinality(Through(h, n, A)) <= n
        /\ Cardinality(Through(h, n, B)) <= n
    BY DEF Split
  <2>2. /\ A \in SUBSET LastWindow /\ B \in SUBSET LastWindow /\ 0 \notin B
        /\ IsFiniteSet(A) /\ IsFiniteSet(B)
    <3>1. 0 \in Int /\ e - 1 \in Int /\ e \in Int /\ Window - 1 \in Int  BY <1>0
    <3>2. IsFiniteSet(A) /\ IsFiniteSet(B)  BY <3>1, FS_Interval
    <3> QED BY <1>0, <3>2
  <2> HIDE DEF A, B, new
  <2>3. /\ Cardinality(Through(h, n, A)) \in Nat /\ Cardinality(Through(h, n, B)) \in Nat
        /\ Cardinality(Through(i, n, A)) \in Nat /\ Cardinality(Through(i, n, B)) \in Nat
    BY <2>2, ThroughFinite
  <2>4. Through(i, n, B) \subseteq Through(h, n, B)  BY <1>4, <2>2
  <2>5. Cardinality(Through(i, n, B)) <= Cardinality(Through(h, n, B))
    BY <2>2, <2>4, ThroughNoMore
  <2>6. CASE Limit[g] <= n
    <3>1. Through(i, n, A) \subseteq Through(h, n, A) \cup {new}  BY <1>4, <2>2
    <3>2. Cardinality(Through(i, n, A)) <= Cardinality(Through(h, n, A)) + 1
      BY <2>2, <3>1, ThroughGrows
    <3> QED BY <1>0, <2>1, <2>3, <2>5, <2>6, <3>2 DEF A, B
  <2>7. CASE ~ (Limit[g] <= n)
    <3>1. Through(i, n, A) \subseteq Through(h, n, A)  BY <1>4, <2>2, <2>7
    <3>2. Cardinality(Through(i, n, A)) <= Cardinality(Through(h, n, A))
      BY <2>2, <3>1, ThroughNoMore
    <3> QED BY <2>1, <2>3, <2>5, <3>2 DEF A, B
  <2> QED BY <2>6, <2>7
<1> QED BY <1>1, <1>5 DEF Split

\* A tick later everything is a tick older.
Older(h) == [a \in LastWindow |-> IF a = 0 THEN None ELSE h[a - 1]]

LEMMA OlderThrough ==
  ASSUME NEW h, NEW n, NEW A \in SUBSET LastWindow, NEW B, IsFiniteSet(B),
         \A a \in A : a # 0 => a - 1 \in B
  PROVE  Cardinality(Through(Older(h), n, A)) <= Cardinality(Through(h, n, B))
<1> DEFINE S == Through(Older(h), n, A)
           T == Through(h, n, B)
           f == [x \in S |-> <<x[1] - 1, x[2], x[3]>>]
<1>1. ASSUME NEW x \in S
      PROVE  /\ x \in Int \X Groups \X (1..CountCap)
             /\ <<x[1] - 1, x[2], x[3]>> \in T
  <2>1. /\ x \in A \X Groups \X (1..CountCap) /\ Limit[x[2]] <= n
        /\ x[3] <= Older(h)[x[1]][x[2]]
    BY DEF Through
  <2>2. x[1] # 0
    <3> SUFFICES ASSUME x[1] = 0 PROVE FALSE  OBVIOUS
    <3>1. Older(h)[x[1]][x[2]] = 0  BY <2>1 DEF Older, None
    <3> QED BY <2>1, <3>1
  <2>3. Older(h)[x[1]] = h[x[1] - 1] /\ x[1] - 1 \in B /\ x[1] \in Int
    <3>1. x[1] \in A /\ x[1] \in LastWindow  BY <2>1
    <3>2. x[1] - 1 \in B  BY <2>2, <3>1
    <3>3. Older(h)[x[1]] = h[x[1] - 1]  BY <2>2, <3>1 DEF Older
    <3>4. x[1] \in Int  BY <3>1, RateLimiterAssumption DEF LastWindow
    <3> QED BY <3>2, <3>3, <3>4
  <2> QED BY <2>1, <2>3 DEF Through
<1>2. IsFiniteSet(T)  BY ThroughFinite
<1>3. f \in [S -> T]
  <2> HIDE DEF S, T
  <2> QED BY <1>1
<1>4. \A x, y \in S : f[x] = f[y] => x = y
  <2> HIDE DEF S, T
  <2> QED BY <1>1
<1>5. f \in Injection(S, T)  BY <1>3, <1>4 DEF Injection, IsInjective
<1> HIDE DEF S, T, f
<1>6. Cardinality(S) <= Cardinality(T)  BY <1>2, <1>5, FS_Injection
<1> QED BY <1>6 DEF S, T

LEMMA ThroughNone ==
  ASSUME NEW h, NEW n
  PROVE  Cardinality(Through(h, n, {})) = 0 /\ IsFiniteSet({})
<1>1. Through(h, n, {}) = {}  BY DEF Through
<1> QED BY <1>1, FS_EmptySet

LEMMA SplitTick ==
  ASSUME NEW h \in History, NEW e \in 1..Window, NEW c \in Nat,
         NEW t \in 1..Window \cup {Forever}, Split(h, c, t, e)
  PROVE  \E d \in 1..Window :
           Split(Older(h), IF t = 1 THEN 0 ELSE c,
                 IF t = 1 \/ t = Forever THEN Forever ELSE t - 1, d)
<1>0. Window \in Nat /\ Window > 0 /\ 1 \in 1..Window /\ Forever = -1
  BY RateLimiterAssumption DEF Forever
<1> DEFINE d == IF t = 1 THEN 1 ELSE IF e < Window THEN e + 1 ELSE Window
           b == IF t = 1 THEN 0 ELSE c
           u == IF t = 1 \/ t = Forever THEN Forever ELSE t - 1
<1>1. d \in 1..Window  BY <1>0
<1>2. t # Forever => e >= Window - t  BY DEF Split
<1>3. u # Forever => d >= Window - u
  <2>1. CASE t = 1 \/ t = Forever  BY <2>1
  <2>2. CASE t # 1 /\ t # Forever
    <3>1. t \in 1..Window /\ t > 1 /\ u = t - 1 /\ e >= Window - t  BY <1>0, <1>2, <2>2
    <3> QED BY <1>0, <2>2, <3>1
  <2> QED BY <2>1, <2>2
<1>4. ASSUME NEW n \in Nat
      PROVE  /\ Cardinality(Through(Older(h), n, 0..(d - 1))) <= b
             /\ Cardinality(Through(Older(h), n, 0..(d - 1))) <= n
             /\ Cardinality(Through(Older(h), n, d..(Window - 1))) <= n
  <2> DEFINE A == 0..(d - 1)
             B == d..(Window - 1)
             C == 0..(e - 1)
             D == e..(Window - 1)
  <2>1. /\ Cardinality(Through(h, n, C)) <= c
        /\ Cardinality(Through(h, n, C)) <= n
        /\ Cardinality(Through(h, n, D)) <= n
    BY DEF Split
  <2>2. /\ A \in SUBSET LastWindow /\ B \in SUBSET LastWindow
        /\ IsFiniteSet(A) /\ IsFiniteSet(B) /\ IsFiniteSet(C) /\ IsFiniteSet(D)
        /\ IsFiniteSet({})
    <3>1. 0 \in Int /\ e - 1 \in Int /\ e \in Int /\ Window - 1 \in Int  BY <1>0
    <3>2. d - 1 \in Int /\ d \in Int
      <4> HIDE DEF d
      <4> QED BY <1>1
    <3>3. A \in SUBSET LastWindow /\ B \in SUBSET LastWindow
      <4> HIDE DEF d
      <4> QED BY <1>0, <1>1 DEF LastWindow
    <3> HIDE DEF d
    <3>4. IsFiniteSet(A) /\ IsFiniteSet(B) /\ IsFiniteSet(C) /\ IsFiniteSet(D)
      BY <3>1, <3>2, FS_Interval
    <3> QED BY <3>3, <3>4, FS_EmptySet
  <2>3. /\ \A a \in A : t # 1 /\ a # 0 => a - 1 \in C
        /\ \A a \in A : t = 1 => a = 0
        /\ \A a \in B : t = 1 /\ a # 0 => a - 1 \in C
        /\ \A a \in B : t # 1 /\ a # 0 => a - 1 \in D
    BY <1>0, <1>2
  <2> HIDE DEF A, B, C, D
  <2>4. /\ Cardinality(Through(Older(h), n, A)) \in Nat
        /\ Cardinality(Through(Older(h), n, B)) \in Nat
        /\ Cardinality(Through(h, n, C)) \in Nat /\ Cardinality(Through(h, n, D)) \in Nat
    BY <2>2, ThroughFinite
  <2>5. CASE t = 1
    <3>1. Cardinality(Through(Older(h), n, A)) <= Cardinality(Through(h, n, {}))
      BY <2>2, <2>3, <2>5, OlderThrough
    <3>2. Cardinality(Through(Older(h), n, B)) <= Cardinality(Through(h, n, C))
      BY <2>2, <2>3, <2>5, OlderThrough
    <3>3. Cardinality(Through(h, n, {})) = 0  BY ThroughNone
    <3> QED BY <2>1, <2>4, <2>5, <3>1, <3>2, <3>3 DEF A, B
  <2>6. CASE t # 1
    <3>1. Cardinality(Through(Older(h), n, A)) <= Cardinality(Through(h, n, C))
      BY <2>2, <2>3, <2>6, OlderThrough
    <3>2. Cardinality(Through(Older(h), n, B)) <= Cardinality(Through(h, n, D))
      BY <2>2, <2>3, <2>6, OlderThrough
    <3> QED BY <2>1, <2>4, <2>6, <3>1, <3>2 DEF A, B
  <2> QED BY <2>5, <2>6
<1>5. Split(Older(h), b, u, d)
  <2> HIDE DEF b, u, d
  <2> QED BY ONLY <1>3, <1>4 DEF Split
<1> QED BY <1>1, <1>5

LEMMA HistoryOfKey ==
  ASSUME TypeOK, NEW k \in Keys
  PROVE  /\ recent[k] \in History /\ count[k] \in Nat
         /\ ttl[k] \in 1..Window \cup {Forever}
BY RateLimiterAssumption DEF TypeOK, History

\* A step that lets nobody through, as the budget sees it.
LEMMA BudgetKept ==
  ASSUME TypeOK, TypeOK', BudgetInv, recent' = recent,
         \A k \in Keys : /\ count[k] <= count'[k]
                         /\ ttl'[k] = ttl[k] \/ ttl'[k] = Forever \/ ttl'[k] = Window
  PROVE  BudgetInv'
<1> SUFFICES ASSUME NEW k \in Keys
             PROVE  \E e \in 1..Window : Split(recent'[k], count'[k], ttl'[k], e)
  BY DEF BudgetInv
<1>1. recent[k] \in History /\ count[k] \in Nat  BY HistoryOfKey
<1>2. count'[k] \in Nat  BY RateLimiterAssumption DEF TypeOK
<1>3. PICK e \in 1..Window : Split(recent[k], count[k], ttl[k], e)  BY DEF BudgetInv
<1>4. Split(recent[k], count'[k], ttl'[k], e)
  <2>1. /\ count[k] <= count'[k]
        /\ ttl'[k] = ttl[k] \/ ttl'[k] = Forever \/ ttl'[k] = Window
    OBVIOUS
  <2> QED BY ONLY <1>1, <1>2, <1>3, <2>1, SplitKept
<1> QED BY <1>4

\* INCR counts; it leaves the expiry of a key that exists, and gives a new one none.
LEMMA IncrementCounts ==
  ASSUME TypeOK, NEW k \in Keys, Increment(k), NEW j \in Keys
  PROVE  /\ count[j] <= count'[j]
         /\ ttl'[j] = ttl[j] \/ ttl'[j] = Forever
         /\ j = k => count'[j] = Succ(count[k])
         /\ j # k => count'[j] = count[j] /\ ttl'[j] = ttl[j]
<1>1. count[j] \in 0..CountCap /\ count[k] \in 0..CountCap /\ CountCap \in Nat
  BY RateLimiterAssumption DEF TypeOK
<1>2. count'[j] = IF j = k THEN Succ(count[k]) ELSE count[j]  BY DEF Increment, TypeOK
<1>3. ttl'[j] = IF j = k /\ count[k] = 0 THEN Forever ELSE ttl[j]  BY DEF Increment, TypeOK
<1> QED BY <1>1, <1>2, <1>3 DEF Succ

LEMMA IncrBudget ==
  ASSUME LimiterInv, TypeOK', BudgetInv, NEW r \in Requests, Incr(r)
  PROVE  BudgetInv'
<1> DEFINE k == Key(r)
           g == Group(r)
<1>0. TypeOK /\ req[r].pc # "idle"  BY DEF Incr, LimiterInv
<1>1. k \in Keys /\ Increment(k)  BY <1>0, KeyType DEF Incr
<1>2. \A j \in Keys : /\ count[j] <= count'[j]
                      /\ ttl'[j] = ttl[j] \/ ttl'[j] = Forever
                      /\ j = k => count'[j] = Succ(count[k])
                      /\ j # k => count'[j] = count[j] /\ ttl'[j] = ttl[j]
  BY <1>0, <1>1, IncrementCounts
<1>3. \/ recent' = recent
      \/ LetThrough(r) /\ Allowed(count'[k], g)
  BY DEF Incr
<1>4. CASE recent' = recent
  BY <1>0, <1>2, <1>4, BudgetKept
<1>5. CASE LetThrough(r) /\ Allowed(count'[k], g)
  <2> HIDE DEF k, g
  <2>1. recent' = [recent EXCEPT ![k][0][g] = Succ(@)]  BY <1>5 DEF LetThrough, k, g
  <2>2. \A j \in Keys : /\ recent[j] \in History /\ count[j] \in Nat
                        /\ recent'[j] \in History /\ count'[j] \in Nat
    BY <1>0, RateLimiterAssumption DEF TypeOK, History
  <2>3. ASSUME NEW j \in Keys, j # k
        PROVE  \E e \in 1..Window : Split(recent'[j], count'[j], ttl'[j], e)
    <3>1. recent'[j] = recent[j]  BY <1>0, <2>1, <2>3 DEF TypeOK
    <3>2. count'[j] = count[j] /\ ttl'[j] = ttl[j]  BY <1>2, <2>3
    <3> QED BY <3>1, <3>2 DEF BudgetInv
  <2>4. \E e \in 1..Window : Split(recent'[k], count'[k], ttl'[k], e)
    <3>1. PICK e \in 1..Window : Split(recent[k], count[k], ttl[k], e)  BY <1>1 DEF BudgetInv
    <3>2. /\ recent'[k] = [recent[k] EXCEPT ![0][g] = Succ(@)]
          /\ recent[k] \in History /\ recent'[k] \in History /\ count[k] \in Nat
      BY <1>0, <1>1, <2>1, <2>2 DEF TypeOK
    <3>3. /\ count'[k] = Succ(count[k])
          /\ ttl'[k] = ttl[k] \/ ttl'[k] = Forever \/ ttl'[k] = Window
          /\ count[k] <= count'[k] /\ count'[k] \in Nat
      BY <1>1, <1>2, <2>2
    <3>4. CASE g \in Groups
      <4>1. Limit[g] \in Nat /\ Limit[g] < CountCap /\ CountCap \in Nat
        BY <3>4, RateLimiterAssumption
      <4>2. Succ(count[k]) <= Limit[g]  BY <1>5, <3>3 DEF Allowed
      <4>3. count'[k] = count[k] + 1 /\ count[k] + 1 <= Limit[g]
        BY <3>2, <3>3, <4>1, <4>2 DEF Succ
      <4>4. Split(recent'[k], count[k] + 1, ttl'[k], e)
        BY ONLY <3>1, <3>2, <3>3, <3>4, <4>3, SplitAdd
      <4> QED BY <4>3, <4>4
    <3>5. CASE g \notin Groups
      <4>1. recent'[k] = recent[k]
        <5>1. recent[k][0] \in [Groups -> 0..CountCap] /\ 0 \in 0..(Window - 1)
          BY <3>2, RateLimiterAssumption DEF History
        <5>2. [recent[k][0] EXCEPT ![g] = Succ(@)] = recent[k][0]  BY <3>5, <5>1
        <5>3. recent'[k] = [recent[k] EXCEPT ![0] = [recent[k][0] EXCEPT ![g] = Succ(@)]]
          BY <3>2
        <5>4. recent'[k] = [recent[k] EXCEPT ![0] = recent[k][0]]  BY ONLY <5>2, <5>3
        <5> QED BY <3>2, <5>4 DEF History
      <4>2. Split(recent'[k], count'[k], ttl'[k], e)
        BY ONLY <3>1, <3>2, <3>3, <4>1, SplitKept
      <4> QED BY <4>2
    <3> QED BY <3>4, <3>5
  <2>5. \A j \in Keys : \E e \in 1..Window : Split(recent'[j], count'[j], ttl'[j], e)
    <3> SUFFICES ASSUME NEW j \in Keys
                 PROVE  \E e \in 1..Window : Split(recent'[j], count'[j], ttl'[j], e)
      OBVIOUS
    <3>1. CASE j = k  BY ONLY <2>4, <3>1
    <3>2. CASE j # k  BY ONLY <2>3, <3>2, j \in Keys
    <3> QED BY <3>1, <3>2
  <2> QED BY <2>5 DEF BudgetInv
<1> QED BY <1>3, <1>4, <1>5

LEMMA TickBudget ==
  ASSUME TypeOK, BudgetInv, Tick
  PROVE  BudgetInv'
<1> SUFFICES ASSUME NEW k \in Keys
             PROVE  \E e \in 1..Window : Split(recent'[k], count'[k], ttl'[k], e)
  BY DEF BudgetInv
<1>1. /\ recent[k] \in History /\ count[k] \in Nat
      /\ ttl[k] \in 1..Window \cup {Forever}
  BY HistoryOfKey
<1>2. /\ recent'[k] = Older(recent[k])
      /\ count'[k] = IF ttl[k] = 1 THEN 0 ELSE count[k]
      /\ ttl'[k] = IF ttl[k] = 1 \/ ttl[k] = Forever THEN Forever ELSE ttl[k] - 1
  BY DEF Tick, Older, Dies, LastWindow
<1>3. PICK e \in 1..Window : Split(recent[k], count[k], ttl[k], e)  BY DEF BudgetInv
<1>4. PICK d \in 1..Window :
        Split(Older(recent[k]), IF ttl[k] = 1 THEN 0 ELSE count[k],
              IF ttl[k] = 1 \/ ttl[k] = Forever THEN Forever ELSE ttl[k] - 1, d)
  BY ONLY <1>1, <1>3, SplitTick
<1>5. Split(recent'[k], count'[k], ttl'[k], d)  BY ONLY <1>2, <1>4
<1> QED BY <1>5

LEMMA InitBudget == Init => BudgetInv
<1> SUFFICES ASSUME Init, NEW k \in Keys
             PROVE  \E e \in 1..Window : Split(recent[k], count[k], ttl[k], e)
  BY DEF BudgetInv
<1>0. Window \in Nat /\ Window > 0 /\ CountCap \in Nat  BY RateLimiterAssumption
<1>1. ttl[k] = Forever /\ count[k] = 0  BY DEF Init
<1>2. recent[k] = [a \in 0..(Window - 1) |-> None]  BY DEF Init
<1>3. recent[k] \in History
  <2>1. None \in [Groups -> 0..CountCap]  BY <1>0 DEF None
  <2> QED BY <1>2, <2>1 DEF History
<1>4. ASSUME NEW n \in Nat, NEW A \in SUBSET LastWindow
      PROVE  Cardinality(Through(recent[k], n, A)) = 0
  <2>1. \A x \in A \X Groups \X (1..CountCap) : recent[k][x[1]][x[2]] = 0
    <3>1. \A a \in LastWindow, g \in Groups : recent[k][a][g] = 0  BY <1>2 DEF None, LastWindow
    <3> QED BY <3>1
  <2>2. Through(recent[k], n, A) = {}  BY <1>0, <2>1 DEF Through
  <2> QED BY <2>2, FS_EmptySet
<1>5. \A n \in Nat : /\ Cardinality(Through(recent[k], n, 0..(1 - 1))) = 0
                     /\ Cardinality(Through(recent[k], n, 1..(Window - 1))) = 0
  <2>1. 0..(1 - 1) \in SUBSET LastWindow /\ 1..(Window - 1) \in SUBSET LastWindow
    BY <1>0 DEF LastWindow
  <2> QED BY ONLY <1>4, <2>1
<1>6. Split(recent[k], 0, Forever, 1)  BY <1>5 DEF Split
<1>7. 1 \in 1..Window  BY <1>0
<1> QED BY ONLY <1>1, <1>6, <1>7

LEMMA NextBudget == LimiterInv /\ TypeOK' /\ BudgetInv /\ [Next]_vars => BudgetInv'
<1> SUFFICES ASSUME LimiterInv, TypeOK', BudgetInv, [Next]_vars PROVE BudgetInv'  OBVIOUS
<1>0. TypeOK /\ \A k \in Keys : count[k] \in Nat
  BY RateLimiterAssumption DEF LimiterInv, TypeOK
<1>1. ASSUME recent' = recent, count' = count, ttl' = ttl PROVE BudgetInv'
  BY <1>0, <1>1, BudgetKept
<1>2. CASE \E r \in Requests : Incr(r)  BY <1>2, IncrBudget
<1>3. CASE Tick  BY <1>0, <1>3, TickBudget
<1>4. ASSUME NEW r \in Requests, req[r].pc # "idle", recent' = recent, count' = count, NEW t,
             t = ttl[Key(r)] \/ t = Window, ttl' = [ttl EXCEPT ![Key(r)] = t]
      PROVE  BudgetInv'
  <2>1. \A k \in Keys : ttl'[k] = ttl[k] \/ ttl'[k] = Forever \/ ttl'[k] = Window
    BY <1>0, <1>4 DEF TypeOK
  <2>2. \A k \in Keys : count[k] <= count'[k]  BY <1>0, <1>4
  <2> QED BY ONLY <1>0, <1>4, <2>1, <2>2, TypeOK', BudgetInv, BudgetKept
<1>5. CASE \E r \in Requests : Expire(r)
  BY <1>4, <1>5 DEF Expire
<1>6. ASSUME NEW r \in Requests, req[r].pc # "idle", recent' = recent, Increment(Key(r))
      PROVE  BudgetInv'
  <2>1. Key(r) \in Keys  BY <1>0, <1>6, KeyType
  <2>2. \A j \in Keys : /\ count[j] <= count'[j]
                        /\ ttl'[j] = ttl[j] \/ ttl'[j] = Forever \/ ttl'[j] = Window
    BY <1>0, <1>6, <2>1, IncrementCounts
  <2> QED BY ONLY <1>0, <1>6, <2>2, TypeOK', BudgetInv, BudgetKept
<1>7. CASE \E r \in Requests : CommandFails(r)
  BY <1>1, <1>4, <1>6, <1>7 DEF CommandFails, redis
<1> QED
  BY <1>1, <1>2, <1>3, <1>5, <1>7 DEF Next, vars, redis, Arrive, Authenticate, Handle, Restart

\* Whatever the groups, limits and window: the requests let through in a
\* stretch of one window's length, over all groups whose limit is at most n,
\* are no more than 2n (rate_limiter.go:26-41).
THEOREM AtMostTwice == Spec => []AtMostTwiceTheLimit
<1>1. LimiterInv /\ BudgetInv => AtMostTwiceTheLimit
  <2> SUFFICES ASSUME LimiterInv, BudgetInv, NEW k \in Keys, NEW g \in Groups
               PROVE  Cardinality(Through(recent[k], Limit[g], LastWindow)) <= 2 * Limit[g]
    BY DEF AtMostTwiceTheLimit
  <2>0. Window \in Nat /\ Window > 0 /\ Limit[g] \in Nat  BY RateLimiterAssumption
  <2>1. PICK e \in 1..Window : Split(recent[k], count[k], ttl[k], e)  BY DEF BudgetInv
  <2> DEFINE A == 0..(e - 1)
             B == e..(Window - 1)
             S == Through(recent[k], Limit[g], A)
             T == Through(recent[k], Limit[g], B)
  <2>2. Cardinality(S) <= Limit[g] /\ Cardinality(T) <= Limit[g]  BY <2>0, <2>1 DEF Split
  <2>3. A \cup B = LastWindow  BY <2>0 DEF LastWindow
  <2>4. Through(recent[k], Limit[g], LastWindow) = S \cup T
    <3> HIDE DEF A, B
    <3> QED BY <2>3 DEF Through
  <2>5. /\ IsFiniteSet(S) /\ Cardinality(S) \in Nat
        /\ IsFiniteSet(T) /\ Cardinality(T) \in Nat
    <3>1. e \in Int /\ Window - 1 \in Int  BY <2>0
    <3>2. IsFiniteSet(A) /\ IsFiniteSet(B)  BY <3>1, FS_Interval
    <3> HIDE DEF A, B
    <3> QED BY <3>2, ThroughFinite
  <2> HIDE DEF A, B, S, T
  <2>6. /\ Cardinality(S \cup T) = Cardinality(S) + Cardinality(T) - Cardinality(S \cap T)
        /\ Cardinality(S \cap T) \in Nat
    <3>1. S \cap T \in SUBSET S  OBVIOUS
    <3>2. IsFiniteSet(S \cap T)  BY <2>5, <3>1, FS_Subset
    <3> QED BY <2>5, <3>2, FS_Union, FS_CardinalityType
  <2> QED BY <2>0, <2>2, <2>4, <2>5, <2>6
<1>2. LimiterInv' => TypeOK'  BY DEF LimiterInv
<1>3. Init => LimiterInv /\ BudgetInv  BY InitLimiter, InitBudget
<1>4. LimiterInv /\ BudgetInv /\ [Next]_vars => (LimiterInv /\ BudgetInv)'
  BY <1>2, NextLimiter, NextBudget
<1> QED BY <1>1, <1>3, <1>4, PTL DEF Spec

=============================================================================
