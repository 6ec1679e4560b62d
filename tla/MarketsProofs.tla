---------------------------- MODULE MarketsProofs ----------------------------
(***************************************************************************)
(* Markets, for every set of calls and markets and every number of faults: *)
(* market-svc implements its lifecycle, answers tell what happened, and a  *)
(* resolved market is shown with its winner.                               *)
(***************************************************************************)
EXTENDS Markets, TLAPS

-----------------------------------------------------------------------------
(* The inductive invariant                                                 *)

\* A market that is there has its outcomes, and its winner's flag.
MarketInv ==
  \A m \in Markets :
    /\ row[m] \in readable[m]
    /\ row[m] # NoRow => outcomes[m] \in 2..MaxOutcomes
    /\ row[m].status = "resolved" <=> row[m].winner # 0
    /\ row[m].winner # 0 => row[m].winner \in flags[m]

Creating  == {"insert", "batch"}
Checked   == {"sweep", "flag", "update", "pay"}

\* Each program has its own commands.
OpOK(r) ==
  /\ r.pc \in Creating => r.op = "create"
  /\ r.pc \in {"closed", "belongs"} \cup Checked => r.op = "resolve"
  /\ r.pc \in {"read", "write"} => r.op = "status" /\ r.to \in {"open", "closed", "cancelled"}
  /\ r.pc = "commit" => r.op \in {"create", "resolve"}
  /\ r.pc = "list" => r.op = "list"
  /\ r.op = "list" => r.pc \in {"list", "outcomes", "answered"}
  /\ r.op = "create" => r.pc \in Creating \cup {"commit", "answered"}
  /\ r.op = "none" <=> r.pc = "new"
  /\ r.pc = "get" => r.op \in {"get", "status", "resolve"}
  /\ (r.pc # "new" /\ r.op # "list") => r.market \in Markets

\* The market of a creation is not there yet.
CreateOK(r, rows) ==
  (r.op = "create" /\ r.pc # "answered") => rows[r.market] = NoRow /\ r.k \in 2..MaxOutcomes

\* The row that a call will write back is still remembered.
Held(r, rows, old) == r.row \in old[r.market] /\ rows[r.market] # NoRow

StatusOK(r, rows, old) ==
  r.pc = "write" => /\ Held(r, rows, old)
                    /\ <<r.row.status, r.to>> \in validTransitions
                    /\ r.row.winner = 0

ResolveOK(r, rows, old, n) ==
  /\ (r.op = "resolve" /\ r.pc \in Checked \cup {"belongs", "commit"})
       => Held(r, rows, old) /\ r.row.status = "closed"
  /\ (r.op = "resolve" /\ r.pc \in Checked \cup {"commit"}) => r.k \in 1..n[r.market]

\* What a call has committed, and what it has answered.
AnswerOK(c, r, done) ==
  /\ c \in done => r.pc \in {"get", "outcomes", "answered"} /\ r.code # 400
  /\ r.code # 0 => r.pc = "answered"
  /\ (r.op \in {"status", "resolve"} /\ r.pc \in {"get", "outcomes"}) => c \in done
  /\ (r.code \in {200, 201} /\ r.op \notin {"get", "list"}) => c \in done

CallOK(c, r, rows, old, n, done) ==
  /\ OpOK(r) /\ CreateOK(r, rows) /\ StatusOK(r, rows, old)
  /\ ResolveOK(r, rows, old, n) /\ AnswerOK(c, r, done)

CallInv == \A c \in Calls : CallOK(c, call[c], row, readable, outcomes, wrote)

\* No two calls create the same market.
CreatesDiffer ==
  \A c, d \in Calls : (c # d /\ call[c].op = "create" /\ call[d].op = "create")
                        => call[c].market # call[d].market

ShownInv ==
  \A c \in Calls, m \in Markets :
    /\ call[c].pc \notin {"outcomes", "answered"} => shown[c][m] = Unread
    /\ shown[c][m].row.status = "resolved" => shown[c][m].row.winner \in flags[m]
    /\ (shown[c][m].read /\ shown[c][m].row.status = "resolved")
         => shown[c][m].row.winner \in shown[c][m].flags

MarketsInv == TypeOK /\ MarketInv /\ CallInv /\ CreatesDiffer /\ ShownInv

-----------------------------------------------------------------------------
(* Steps of one call                                                       *)

\* What a step of c leaves the other calls, and its market.
Kept(c) ==
  /\ readable' \in [Markets -> SUBSET Rows]
  /\ \A m \in Markets : /\ row'[m] \in readable'[m]
                        /\ readable'[m] \subseteq readable[m] \cup {row'[m]}
                        /\ row[m] # NoRow => row'[m] # NoRow /\ outcomes'[m] = outcomes[m]
  /\ \A d \in Calls \ {c} : (InFlight(d) /\ call[d].market \in Markets)
       => readable[call[d].market] \subseteq readable'[call[d].market]
  /\ \A d \in Calls \ {c} : (call[d].op = "create" /\ call[d].pc # "answered")
       => row'[call[d].market] = row[call[d].market]
  /\ wrote \subseteq wrote' /\ wrote' \subseteq wrote \cup {c}

\* The other calls keep what they know.
LEMMA OthersKeep ==
  ASSUME MarketsInv, NEW c \in Calls, Kept(c), NEW d \in Calls \ {c}
  PROVE  CallOK(d, call[d], row', readable', outcomes', wrote')
<1>1. call[d] \in CallType /\ CallOK(d, call[d], row, readable, outcomes, wrote)
  BY DEF MarketsInv, TypeOK, CallInv
<1>2. OpOK(call[d])  BY <1>1 DEF CallOK
<1>3. CreateOK(call[d], row')
  BY <1>1 DEF CallOK, CreateOK, Kept
<1>4. ASSUME call[d].pc \notin {"new", "answered"}, call[d].op \in {"status", "resolve"},
             Held(call[d], row, readable)
      PROVE  Held(call[d], row', readable') /\ outcomes'[call[d].market] = outcomes[call[d].market]
  <2>1. call[d].market \in Markets  BY <1>2, <1>4 DEF OpOK
  <2> QED BY <1>4, <2>1 DEF Kept, Held, InFlight
<1>5. StatusOK(call[d], row', readable')
  BY <1>1, <1>2, <1>4 DEF CallOK, StatusOK, OpOK
<1>6. ResolveOK(call[d], row', readable', outcomes')
  BY <1>1, <1>4 DEF CallOK, ResolveOK, Checked
<1>7. AnswerOK(d, call[d], wrote')
  BY <1>1 DEF CallOK, AnswerOK, Kept
<1> QED BY <1>2, <1>3, <1>5, <1>6, <1>7 DEF CallOK

LEMMA CallsKeep ==
  ASSUME MarketsInv, NEW c \in Calls, NEW r, call' = [call EXCEPT ![c] = r], Kept(c),
         CallOK(c, r, row', readable', outcomes', wrote'),
         r.op = "create" => \A d \in Calls \ {c} : call[d].op = "create" => call[d].market # r.market
  PROVE  CallInv' /\ CreatesDiffer'
<1>1. \A d \in Calls : call'[d] = IF d = c THEN r ELSE call[d]
  BY DEF MarketsInv, TypeOK
<1>2. CallInv'
  BY <1>1, OthersKeep DEF CallInv
<1>3. CreatesDiffer'
  BY <1>1 DEF CreatesDiffer, MarketsInv
<1> QED BY <1>2, <1>3

LEMMA SameOp ==
  ASSUME MarketsInv, NEW c \in Calls, NEW r, r.op = call[c].op, r.market = call[c].market
  PROVE  r.op = "create" => \A d \in Calls \ {c} : call[d].op = "create" => call[d].market # r.market
BY DEF MarketsInv, CreatesDiffer

\* A step that changes neither tables nor history.
LEMMA KeptUnchanged ==
  ASSUME MarketsInv, NEW c \in Calls, UNCHANGED <<tables, history>>
  PROVE  Kept(c) /\ MarketInv' /\ UNCHANGED Lifecycle!vars
BY DEF MarketsInv, MarketInv, TypeOK, Kept, tables, history, Lifecycle!vars

LEMMA RememberKeeps ==
  ASSUME MarketsInv, NEW c \in Calls, call[c].op # "list", NEW m \in Markets,
         m = call[c].market, NEW s \in Rows, RememberOnly(c, s)
  PROVE  /\ readable' \in [Markets -> SUBSET Rows]
         /\ readable' = [readable EXCEPT ![m] = readable'[m]]
         /\ \/ readable'[m] = {s}
            \/ readable'[m] = readable[m] \cup {s}
         /\ \A d \in Calls \ {c} : (InFlight(d) /\ call[d].market \in Markets)
              => readable[call[d].market] \subseteq readable'[call[d].market]
BY DEF MarketsInv, TypeOK, RememberOnly

LEMMA RememberMore ==
  ASSUME MarketsInv, NEW c \in Calls, call[c].op # "list", NEW m \in Markets,
         m = call[c].market, NEW s \in Rows, Remember(c, s)
  PROVE  /\ readable' \in [Markets -> SUBSET Rows]
         /\ readable' = [readable EXCEPT ![m] = readable[m] \cup {s}]
BY DEF MarketsInv, TypeOK, Remember

\* A step of c to r that changes no table and shows nothing new.
LEMMA PlainStep ==
  ASSUME MarketsInv, NEW c \in Calls, NEW r \in CallType, call' = [call EXCEPT ![c] = r],
         UNCHANGED <<tables, shown, history>>, faults' \in 0..MaxFaults,
         CallOK(c, r, row, readable, outcomes, wrote),
         r.pc \in {"outcomes", "answered"} \/ call[c].pc \notin {"outcomes", "answered"},
         r.op = "create" => \A d \in Calls \ {c} : call[d].op = "create" => call[d].market # r.market
  PROVE  MarketsInv' /\ UNCHANGED Lifecycle!vars
<1>1. Kept(c) /\ MarketInv' /\ UNCHANGED Lifecycle!vars
  BY KeptUnchanged
<1>2. CallInv' /\ CreatesDiffer'
  BY <1>1, CallsKeep DEF tables, history
<1>3. TypeOK'
  BY DEF MarketsInv, TypeOK, tables, history
<1>4. ShownInv'
  BY DEF MarketsInv, TypeOK, ShownInv, tables
<1> QED BY <1>1, <1>2, <1>3, <1>4 DEF MarketsInv

\* The call c after an answer to q = call[c].
Ended(q, code) == [q EXCEPT !.pc = "answered", !.code = code]

LEMMA AnsweredType ==
  ASSUME NEW q \in CallType, NEW code \in {200, 201, 400, 500}
  PROVE  /\ Ended(q, code) \in CallType
         /\ Ended(q, code).op = q.op /\ Ended(q, code).market = q.market
         /\ Ended(q, code).pc = "answered" /\ Ended(q, code).code = code
<1> DEFINE a == [q EXCEPT !.pc = "answered"]
           r == Ended(q, code)
<1>1. a \in CallType  BY DEF CallType
<1>2. r = [a EXCEPT !.code = code]  BY DEF Ended
<1>3. \A x \in CallType : [x EXCEPT !.code = code] \in CallType  BY DEF CallType
<1>4. a.op = q.op /\ a.market = q.market /\ a.pc = "answered"  BY DEF CallType
<1> HIDE DEF a, r
<1>5. r \in CallType  BY ONLY <1>1, <1>2, <1>3
<1>6. r.op = a.op /\ r.market = a.market /\ r.pc = a.pc /\ r.code = code
  BY ONLY <1>1, <1>2 DEF CallType
<1> QED BY <1>4, <1>5, <1>6 DEF r

LEMMA StepInv ==
  ASSUME MarketsInv, NEW c \in Calls, NEW p, Step(c, p),
         [call[c] EXCEPT !.pc = p] \in CallType,
         CallOK(c, [call[c] EXCEPT !.pc = p], row, readable, outcomes, wrote),
         p \in {"outcomes", "answered"} \/ call[c].pc \notin {"outcomes", "answered"}
  PROVE  MarketsInv' /\ UNCHANGED Lifecycle!vars
<1> DEFINE r == [call[c] EXCEPT !.pc = p]
<1>1. r.op = call[c].op /\ r.market = call[c].market /\ r.pc = p
  BY DEF MarketsInv, TypeOK, CallType
<1>2. faults' \in 0..MaxFaults  BY DEF Step, MarketsInv, TypeOK
<1>3. call' = [call EXCEPT ![c] = r]  BY DEF Step, Goto, MarketsInv, TypeOK
<1> HIDE DEF r
<1> QED BY <1>1, <1>2, <1>3, SameOp, PlainStep DEF Step, r

\* The end of a call that writes nothing more: the history forgets or does not.
LEMMA EndKeeps ==
  ASSUME MarketsInv, NEW c \in Calls, RememberOnly(c, row[call[c].market]),
         call[c].op = "list" \/ call[c].market \in Markets, UNCHANGED <<tables, wrote>>
  PROVE  Kept(c) /\ MarketInv' /\ [Lifecycle!Next]_Lifecycle!vars
<1>1. CASE call[c].op = "list"
  <2>1. UNCHANGED <<tables, history>>  BY <1>1 DEF RememberOnly, history
  <2> QED BY <2>1, KeptUnchanged
<1>2. ASSUME call[c].op # "list", NEW m \in Markets, m = call[c].market,
             NEW s \in Rows, s = row[m]
      PROVE  Kept(c) /\ MarketInv' /\ [Lifecycle!Next]_Lifecycle!vars
  <2>1. s \in readable[m]  BY <1>2 DEF MarketsInv, MarketInv
  <2>2. RememberOnly(c, s)  BY <1>2
  <2>3. /\ readable' \in [Markets -> SUBSET Rows]
        /\ readable' = [readable EXCEPT ![m] = readable'[m]]
        /\ \/ readable'[m] = {s}
           \/ readable'[m] = readable[m] \cup {s}
        /\ \A d \in Calls \ {c} : (InFlight(d) /\ call[d].market \in Markets)
             => readable[call[d].market] \subseteq readable'[call[d].market]
    <3>1. call[c].op # "list" /\ m = call[c].market  BY <1>2
    <3> QED BY <2>2, <3>1, RememberKeeps
  <2>4. \A x \in Markets : readable'[x] = IF x = m THEN readable'[m] ELSE readable[x]
    BY <2>3 DEF MarketsInv, TypeOK
  <2>5. Kept(c)
    BY <1>2, <2>1, <2>3, <2>4 DEF Kept, tables, MarketsInv, MarketInv
  <2>6. MarketInv'
    BY <1>2, <2>1, <2>3, <2>4 DEF MarketsInv, MarketInv, tables
  <2>7. CASE readable'[m] = {s}
    <3>1. UNCHANGED <<row, outcomes, flags>>  BY DEF tables
    <3>2. readable' = [readable EXCEPT ![m] = {row[m]}]  BY ONLY <1>2, <2>3, <2>7
    <3>3. Lifecycle!Forget(m)  BY ONLY <3>1, <3>2 DEF Lifecycle!Forget
    <3> QED BY <1>2, <2>5, <2>6, <3>3 DEF Lifecycle!Next
  <2>8. CASE readable'[m] = readable[m] \cup {s}
    <3>1. readable[m] \cup {s} = readable[m]  BY <2>1
    <3>2. readable' = [readable EXCEPT ![m] = readable[m]]  BY ONLY <2>3, <2>8, <3>1
    <3>3. readable' = readable  BY <3>2 DEF MarketsInv, TypeOK
    <3> QED BY <2>5, <2>6, <3>3 DEF Lifecycle!vars, tables
  <2> QED BY <2>3, <2>7, <2>8
<1> QED BY <1>1, <1>2 DEF MarketsInv, TypeOK

LEMMA EndsKeep ==
  ASSUME MarketsInv, NEW c \in Calls, NEW r \in CallType, call' = [call EXCEPT ![c] = r],
         r.pc = "answered", r.op = call[c].op, r.market = call[c].market, r.pc = "answered",
         Kept(c), MarketInv', CallOK(c, r, row', readable', outcomes', wrote'),
         UNCHANGED <<tables, shown>>, faults' \in 0..MaxFaults
  PROVE  MarketsInv'
<1>1. CallInv' /\ CreatesDiffer'  BY SameOp, CallsKeep
<1>2. wrote' \subseteq Calls /\ readable' \in [Markets -> SUBSET Rows]
  BY DEF MarketsInv, TypeOK, Kept
<1>3. TypeOK'  BY <1>2 DEF MarketsInv, TypeOK, tables
<1>4. ShownInv'  BY DEF MarketsInv, TypeOK, ShownInv, tables
<1> QED BY <1>1, <1>3, <1>4 DEF MarketsInv

LEMMA EndInv ==
  ASSUME MarketsInv, NEW c \in Calls, NEW code \in {200, 400, 500}, Answer(c, code),
         InFlight(c), RememberOnly(c, row[call[c].market]),
         UNCHANGED <<tables, shown, wrote>>, faults' \in 0..MaxFaults,
         code = 400 => c \notin wrote,
         code = 200 => call[c].pc = "outcomes"
  PROVE  MarketsInv' /\ [Lifecycle!Next]_Lifecycle!vars
<1>1. call[c] \in CallType /\ CallOK(c, call[c], row, readable, outcomes, wrote)
  BY DEF MarketsInv, TypeOK, CallInv
<1>2. call[c].op = "list" \/ call[c].market \in Markets
  BY <1>1 DEF CallOK, OpOK, InFlight
<1>3. Kept(c) /\ MarketInv' /\ [Lifecycle!Next]_Lifecycle!vars
  BY <1>2, EndKeeps
<1>4. ASSUME NEW r, r = Ended(call[c], code)
      PROVE  MarketsInv'
  <2>1. r \in CallType  BY <1>1, <1>4, AnsweredType
  <2>2. call' = [call EXCEPT ![c] = r]  BY <1>4 DEF Answer, Ended, MarketsInv, TypeOK
  <2>3. /\ r.op = call[c].op /\ r.market = call[c].market /\ r.pc = "answered"
        /\ r.code = code
    BY <1>1, <1>4, AnsweredType
  <2>4. OpOK(r)  BY <1>1, <2>3 DEF OpOK, CallOK, Creating, Checked, InFlight
  <2>5. CreateOK(r, row') /\ StatusOK(r, row', readable') /\ ResolveOK(r, row', readable', outcomes')
    BY <2>3 DEF CreateOK, StatusOK, ResolveOK, Checked
  <2>6. AnswerOK(c, r, wrote')
    BY <1>1, <2>3 DEF AnswerOK, CallOK, OpOK, CallType, Creating, InFlight
  <2>7. CallOK(c, r, row', readable', outcomes', wrote')
    BY <2>4, <2>5, <2>6 DEF CallOK
  <2> QED BY <1>3, <2>1, <2>2, <2>3, <2>7, EndsKeep
<1> QED BY <1>3, <1>4

-----------------------------------------------------------------------------
(* Steps that write                                                        *)

LEMMA RememberWrite ==
  ASSUME MarketsInv, NEW c \in Calls, call[c].op # "list", NEW m \in Markets,
         m = call[c].market, NEW s \in Rows, RememberOnly(c, s) \/ Remember(c, s)
  PROVE  /\ readable' \in [Markets -> SUBSET Rows]
         /\ readable' = [readable EXCEPT ![m] = readable'[m]]
         /\ s \in readable'[m] /\ readable'[m] \subseteq readable[m] \cup {s}
         /\ \A d \in Calls \ {c} : (InFlight(d) /\ call[d].market \in Markets)
              => readable[call[d].market] \subseteq readable'[call[d].market]
<1>1. CASE RememberOnly(c, s)
  <2>1. /\ readable' \in [Markets -> SUBSET Rows]
        /\ readable' = [readable EXCEPT ![m] = readable'[m]]
        /\ \/ readable'[m] = {s}
           \/ readable'[m] = readable[m] \cup {s}
        /\ \A d \in Calls \ {c} : (InFlight(d) /\ call[d].market \in Markets)
             => readable[call[d].market] \subseteq readable'[call[d].market]
    BY <1>1, RememberKeeps
  <2> QED BY <2>1
<1>2. CASE Remember(c, s)
  <2>1. /\ readable' \in [Markets -> SUBSET Rows]
        /\ readable' = [readable EXCEPT ![m] = readable[m] \cup {s}]
    BY <1>2, RememberMore
  <2> QED BY <2>1 DEF MarketsInv, TypeOK
<1> QED BY <1>1, <1>2

\* A step of c that writes the row s of its market m, and no other's.
WritesRow(c, m, s) ==
  /\ call[c].op # "list" /\ m = call[c].market
  /\ RememberOnly(c, s) \/ Remember(c, s)
  /\ row' = [row EXCEPT ![m] = s] /\ s # NoRow
  /\ row[m] # NoRow => outcomes' = outcomes
  /\ outcomes' = [outcomes EXCEPT ![m] = outcomes'[m]]
  /\ \A d \in Calls \ {c} : (call[d].op = "create" /\ call[d].pc # "answered")
       => call[d].market # m
  /\ wrote' = wrote \cup {c}

LEMMA WriteKeeps ==
  ASSUME MarketsInv, NEW c \in Calls, NEW m \in Markets, NEW s \in Rows, WritesRow(c, m, s)
  PROVE  /\ Kept(c)
         /\ Lifecycle!Become(m, s)
         /\ \A x \in Markets : row'[x] = IF x = m THEN s ELSE row[x]
<1>1. /\ readable' \in [Markets -> SUBSET Rows]
      /\ readable' = [readable EXCEPT ![m] = readable'[m]]
      /\ s \in readable'[m] /\ readable'[m] \subseteq readable[m] \cup {s}
      /\ \A d \in Calls \ {c} : (InFlight(d) /\ call[d].market \in Markets)
           => readable[call[d].market] \subseteq readable'[call[d].market]
  <2>1. call[c].op # "list" /\ m = call[c].market /\ (RememberOnly(c, s) \/ Remember(c, s))
    BY DEF WritesRow
  <2> QED BY ONLY MarketsInv, c \in Calls, m \in Markets, s \in Rows, <2>1, RememberWrite
<1>2. ASSUME NEW x \in Markets
      PROVE  /\ row'[x] = IF x = m THEN s ELSE row[x]
             /\ readable'[x] = IF x = m THEN readable'[m] ELSE readable[x]
             /\ x # m => outcomes'[x] = outcomes[x]
  <2>1. row' = [row EXCEPT ![m] = s] /\ outcomes' = [outcomes EXCEPT ![m] = outcomes'[m]]
    BY DEF WritesRow
  <2>2. x \in DOMAIN row /\ x \in DOMAIN readable /\ x \in DOMAIN outcomes
    BY DEF MarketsInv, TypeOK
  <2> QED BY ONLY <1>1, <2>1, <2>2
<1>3. ASSUME NEW d \in Calls \ {c}, call[d].op = "create", call[d].pc # "answered"
      PROVE  row'[call[d].market] = row[call[d].market]
  <2>1. call[d].market # m /\ row' = [row EXCEPT ![m] = s]  BY <1>3 DEF WritesRow
  <2>2. row \in [Markets -> Rows] /\ d \in Calls  BY DEF MarketsInv, TypeOK
  <2>3. CASE call[d].market \in Markets  BY ONLY <2>1, <2>2, <2>3
  <2>4. CASE call[d].market \notin Markets
    <3>1. CallOK(d, call[d], row, readable, outcomes, wrote)
      BY <2>2 DEF MarketsInv, CallInv
    <3> QED BY <1>3, <2>4, <3>1 DEF CallOK, OpOK
  <2> QED BY <2>3, <2>4
<1>4. ASSUME NEW x \in Markets
      PROVE  /\ row'[x] \in readable'[x]
             /\ readable'[x] \subseteq readable[x] \cup {row'[x]}
             /\ row[x] # NoRow => row'[x] # NoRow /\ outcomes'[x] = outcomes[x]
  <2>1. CASE x = m
    <3>1. s # NoRow /\ (row[m] # NoRow => outcomes' = outcomes)  BY DEF WritesRow
    <3> QED BY ONLY <1>1, <1>2, <2>1, <3>1
  <2>2. CASE x # m
    <3>1. row[x] \in readable[x]  BY DEF MarketsInv, MarketInv
    <3>2. /\ row'[x] = row[x] /\ readable'[x] = readable[x] /\ outcomes'[x] = outcomes[x]
      BY <1>2, <2>2
    <3> QED BY ONLY <3>1, <3>2
  <2> QED BY <2>1, <2>2
<1>5. wrote' = wrote \cup {c} /\ row' = [row EXCEPT ![m] = s]  BY DEF WritesRow
<1>6. Kept(c)
  BY ONLY <1>1, <1>3, <1>4, <1>5 DEF Kept
<1>7. Lifecycle!Become(m, s)
  BY ONLY <1>1, <1>5 DEF Lifecycle!Become
<1> QED BY <1>2, <1>6, <1>7

\* What a call is after its write.
LEMMA WrittenInv ==
  ASSUME MarketsInv, NEW c \in Calls, NEW r \in CallType, call' = [call EXCEPT ![c] = r],
         (r.pc = "get" /\ r.op \in {"status", "resolve"}) \/ r.pc = "answered",
         r.op = call[c].op, r.market = call[c].market, call[c].pc \in {"write", "commit"},
         r.pc = "answered" \/ r.code = 0, r.code # 400,
         Kept(c), MarketInv', c \in wrote', UNCHANGED shown, faults' \in 0..MaxFaults,
         row' \in [Markets -> Rows], outcomes' \in [Markets -> 0..MaxOutcomes],
         flags' \in [Markets -> SUBSET (1..MaxOutcomes)],
         \A m \in Markets : flags[m] \subseteq flags'[m]
  PROVE  MarketsInv'
<1>1. call[c] \in CallType /\ CallOK(c, call[c], row, readable, outcomes, wrote)
  BY DEF MarketsInv, TypeOK, CallInv
<1>2. OpOK(r)
  BY <1>1 DEF CallOK, OpOK, CallType, Creating, Checked
<1>3. CreateOK(r, row') /\ StatusOK(r, row', readable') /\ ResolveOK(r, row', readable', outcomes')
  BY <1>2 DEF OpOK, CreateOK, StatusOK, ResolveOK, Creating, Checked
<1>4. AnswerOK(c, r, wrote')
  BY DEF AnswerOK
<1>5. CallInv' /\ CreatesDiffer'
  <2>1. CallOK(c, r, row', readable', outcomes', wrote')
    BY <1>2, <1>3, <1>4 DEF CallOK
  <2>2. r.op = "create"
          => \A d \in Calls \ {c} : call[d].op = "create" => call[d].market # r.market
    BY ONLY MarketsInv, c \in Calls, r.op = call[c].op, r.market = call[c].market, SameOp
  <2> QED BY <2>1, <2>2, CallsKeep
<1>6. wrote' \subseteq Calls /\ readable' \in [Markets -> SUBSET Rows]
  BY DEF MarketsInv, TypeOK, Kept
<1>7. TypeOK'  BY <1>6 DEF MarketsInv, TypeOK
<1>8. ShownInv'
  BY DEF MarketsInv, TypeOK, ShownInv
<1> QED BY <1>5, <1>7, <1>8 DEF MarketsInv

\* The two ways in which a call goes on after its write.
Wrote(c, r) ==
  /\ call' = [call EXCEPT ![c] = r]
  /\ r \in CallType
  /\ (r.pc = "get" /\ r.op \in {"status", "resolve"}) \/ r.pc = "answered"
  /\ r.op = call[c].op /\ r.market = call[c].market
  /\ (r.pc = "answered" \/ r.code = 0) /\ r.code # 400

LEMMA StatusWritten ==
  ASSUME MarketsInv, NEW c \in Calls, WriteStatus(c), Written(c),
         RememberOnly(c, NewRow(c)) \/ Remember(c, NewRow(c)),
         NEW r, Wrote(c, r), faults' \in 0..MaxFaults
  PROVE  MarketsInv' /\ [Lifecycle!Next]_Lifecycle!vars
<1>0. call[c] \in CallType /\ CallOK(c, call[c], row, readable, outcomes, wrote)
  BY DEF MarketsInv, TypeOK, CallInv
<1>1. /\ call[c].pc = "write" /\ call[c].op = "status"
      /\ call[c].to \in {"open", "closed", "cancelled"}
      /\ call[c].market \in Markets
      /\ Held(call[c], row, readable)
      /\ <<call[c].row.status, call[c].to>> \in validTransitions
      /\ call[c].row.winner = 0
  BY <1>0 DEF WriteStatus, CallOK, OpOK, StatusOK
<1>2. ASSUME NEW m \in Markets, m = call[c].market,
             NEW s \in Rows, s = [status |-> call[c].to, winner |-> 0]
      PROVE  MarketsInv' /\ [Lifecycle!Next]_Lifecycle!vars
  <2>1. NewRow(c) = s
    BY <1>0, <1>1, <1>2 DEF NewRow, CallType, Rows
  <2>2. /\ row' = [row EXCEPT ![m] = s] /\ UNCHANGED <<outcomes, flags, shown>>
        /\ wrote' = wrote \cup {c}
        /\ RememberOnly(c, s) \/ Remember(c, s)
    BY <1>2, <2>1 DEF WriteStatus, Written
  <2>3. s # NoRow /\ s.status \in {"open", "closed", "cancelled"} /\ s.winner = 0
    BY <1>1, <1>2 DEF NoRow
  <2>4. \A d \in Calls \ {c} : (call[d].op = "create" /\ call[d].pc # "answered")
          => call[d].market # m
    BY <1>1, <1>2 DEF MarketsInv, CallInv, CallOK, CreateOK, Held
  <2>5. outcomes' = [outcomes EXCEPT ![m] = outcomes'[m]]
    BY <2>2 DEF MarketsInv, TypeOK
  <2>6. /\ Kept(c) /\ Lifecycle!Become(m, s)
        /\ \A x \in Markets : row'[x] = IF x = m THEN s ELSE row[x]
    <3>1. call[c].op # "list" /\ m = call[c].market  BY <1>1, <1>2
    <3>2. row[m] # NoRow => outcomes' = outcomes  BY <2>2
    <3>3. s # NoRow  BY <2>3
    <3>4. row' = [row EXCEPT ![m] = s] /\ wrote' = wrote \cup {c}  BY <2>2
    <3>5. RememberOnly(c, s) \/ Remember(c, s)  BY <2>2
    <3>6. WritesRow(c, m, s)
      BY ONLY <2>4, <2>5, <3>1, <3>2, <3>3, <3>4, <3>5 DEF WritesRow
    <3> QED BY ONLY MarketsInv, c \in Calls, <1>2, <3>6, WriteKeeps
  <2>7. MarketInv'
    BY <1>1, <1>2, <2>2, <2>3, <2>6 DEF MarketsInv, MarketInv, Kept, Held
  <2>8. MarketsInv'
    <3>1. row' \in [Markets -> Rows]  BY <2>2 DEF MarketsInv, TypeOK
    <3>2. /\ outcomes' \in [Markets -> 0..MaxOutcomes]
          /\ flags' \in [Markets -> SUBSET (1..MaxOutcomes)]
          /\ \A x \in Markets : flags[x] \subseteq flags'[x]
      BY <2>2 DEF MarketsInv, TypeOK
    <3>3. Kept(c) /\ MarketInv'  BY <2>6, <2>7
    <3>4. call[c].pc \in {"write", "commit"} /\ c \in wrote' /\ UNCHANGED shown
      BY <1>1, <2>2
    <3> QED
      BY ONLY MarketsInv, c \in Calls, Wrote(c, r), faults' \in 0..MaxFaults,
              <3>1, <3>2, <3>3, <3>4, WrittenInv DEF Wrote
  <2>9. Lifecycle!Move(m)
    <3>1. call[c].row \in readable[m]  BY <1>1, <1>2 DEF Held
    <3>2. <<call[c].row.status, call[c].to>> \in Lifecycle!Follows
      BY <1>1 DEF validTransitions, Lifecycle!Follows
    <3>3. call[c].to \in {f[2] : f \in {g \in Lifecycle!Follows : g[1] = call[c].row.status}}
      BY <3>2
    <3> QED BY <1>2, <2>2, <2>6, <3>1, <3>3 DEF Lifecycle!Move
  <2> QED BY <2>8, <2>9 DEF Lifecycle!Next
<1>3. call[c].market \in Markets /\ [status |-> call[c].to, winner |-> 0] \in Rows
  BY <1>1, MarketsAssumption DEF Rows, Statuses
<1> QED BY <1>2, <1>3

LEMMA CreateWritten ==
  ASSUME MarketsInv, NEW c \in Calls, Commit(c), call[c].op = "create", Written(c),
         RememberOnly(c, NewRow(c)) \/ Remember(c, NewRow(c)),
         NEW r, Wrote(c, r), faults' \in 0..MaxFaults
  PROVE  MarketsInv' /\ [Lifecycle!Next]_Lifecycle!vars
<1>0. call[c] \in CallType /\ CallOK(c, call[c], row, readable, outcomes, wrote)
  BY DEF MarketsInv, TypeOK, CallInv
<1>1. /\ call[c].pc = "commit" /\ call[c].market \in Markets
      /\ row[call[c].market] = NoRow /\ call[c].k \in 2..MaxOutcomes
  BY <1>0 DEF Commit, CallOK, OpOK, CreateOK
<1>2. ASSUME NEW m \in Markets, m = call[c].market, NEW s \in Rows, s = Draft
      PROVE  MarketsInv' /\ [Lifecycle!Next]_Lifecycle!vars
  <2>1. NewRow(c) = s
    BY <1>2 DEF NewRow
  <2>2. /\ row' = [row EXCEPT ![m] = s] /\ wrote' = wrote \cup {c}
        /\ UNCHANGED <<flags, shown>>
        /\ outcomes' = [outcomes EXCEPT ![m] = call[c].k]
    BY <1>2, <2>1 DEF Commit, Written
  <2>3. s # NoRow /\ s.status = "draft" /\ s.winner = 0  BY <1>2 DEF NoRow, Draft
  <2>4. \A d \in Calls \ {c} : (call[d].op = "create" /\ call[d].pc # "answered")
          => call[d].market # m
    BY <1>2 DEF MarketsInv, CreatesDiffer
  <2>5. outcomes' = [outcomes EXCEPT ![m] = outcomes'[m]] /\ outcomes'[m] = call[c].k
    BY <2>2 DEF MarketsInv, TypeOK
  <2>6. /\ Kept(c) /\ Lifecycle!Become(m, s)
        /\ \A x \in Markets : row'[x] = IF x = m THEN s ELSE row[x]
    <3>1. call[c].op # "list" /\ m = call[c].market  BY <1>2
    <3>2. row[m] # NoRow => outcomes' = outcomes  BY <1>1, <1>2
    <3>3. s # NoRow  BY <2>3
    <3>4. row' = [row EXCEPT ![m] = s] /\ wrote' = wrote \cup {c}  BY <2>2
    <3>5. RememberOnly(c, s) \/ Remember(c, s)  BY <2>1
    <3>6. WritesRow(c, m, s)
      BY ONLY <2>4, <2>5, <3>1, <3>2, <3>3, <3>4, <3>5 DEF WritesRow
    <3> QED BY ONLY MarketsInv, c \in Calls, <1>2, <3>6, WriteKeeps
  <2>7. MarketInv'
    BY <1>1, <2>2, <2>3, <2>5, <2>6 DEF MarketsInv, MarketInv, Kept
  <2>8. MarketsInv'
    <3>1. row' \in [Markets -> Rows]  BY <2>2 DEF MarketsInv, TypeOK
    <3>2. outcomes' \in [Markets -> 0..MaxOutcomes]
      BY <1>1, <2>2, MarketsAssumption DEF MarketsInv, TypeOK
    <3>3. /\ flags' \in [Markets -> SUBSET (1..MaxOutcomes)]
          /\ \A x \in Markets : flags[x] \subseteq flags'[x]
      BY <2>2 DEF MarketsInv, TypeOK
    <3>4. Kept(c) /\ MarketInv'  BY <2>6, <2>7
    <3>5. call[c].pc \in {"write", "commit"} /\ c \in wrote' /\ UNCHANGED shown
      BY <1>1, <2>2
    <3> QED
      BY ONLY MarketsInv, c \in Calls, Wrote(c, r), faults' \in 0..MaxFaults,
              <3>1, <3>2, <3>3, <3>4, <3>5, WrittenInv DEF Wrote
  <2>9. Lifecycle!Create(m)
    BY <1>1, <1>2, <2>2, <2>6
      DEF Lifecycle!Create, Lifecycle!NoRow, Lifecycle!Draft, NoRow, Draft
  <2> QED BY <2>8, <2>9 DEF Lifecycle!Next
<1>3. Draft \in Rows  BY MarketsAssumption DEF Draft, Rows, Statuses
<1> QED BY <1>1, <1>2, <1>3

LEMMA ResolveKeeps ==
  ASSUME MarketsInv, NEW c \in Calls, call[c].op = "resolve", NEW m \in Markets,
         m = call[c].market, row[m] # NoRow, NEW s \in Rows, s # NoRow,
         RememberOnly(c, s) \/ Remember(c, s), row' = [row EXCEPT ![m] = s],
         wrote' = wrote \cup {c}, outcomes' = outcomes
  PROVE  /\ Kept(c) /\ Lifecycle!Become(m, s)
         /\ \A x \in Markets : row'[x] = IF x = m THEN s ELSE row[x]
<1>1. \A d \in Calls \ {c} : (call[d].op = "create" /\ call[d].pc # "answered")
        => call[d].market # m
  BY DEF MarketsInv, CallInv, CallOK, CreateOK
<1>2. outcomes' = [outcomes EXCEPT ![m] = outcomes'[m]]
  BY DEF MarketsInv, TypeOK
<1>3. call[c].op # "list" /\ m = call[c].market  OBVIOUS
<1>4. row[m] # NoRow => outcomes' = outcomes  OBVIOUS
<1>5. s # NoRow /\ row' = [row EXCEPT ![m] = s] /\ wrote' = wrote \cup {c}  OBVIOUS
<1>6. RememberOnly(c, s) \/ Remember(c, s)  OBVIOUS
<1>7. WritesRow(c, m, s)
  BY ONLY <1>1, <1>2, <1>3, <1>4, <1>5, <1>6 DEF WritesRow
<1> QED BY ONLY MarketsInv, c \in Calls, m \in Markets, s \in Rows, <1>7, WriteKeeps

LEMMA ResolveWritten ==
  ASSUME MarketsInv, NEW c \in Calls, Commit(c), call[c].op = "resolve", Written(c),
         RememberOnly(c, NewRow(c)) \/ Remember(c, NewRow(c)),
         NEW r, Wrote(c, r), faults' \in 0..MaxFaults
  PROVE  MarketsInv' /\ [Lifecycle!Next]_Lifecycle!vars
<1>0. call[c] \in CallType /\ CallOK(c, call[c], row, readable, outcomes, wrote)
  BY DEF MarketsInv, TypeOK, CallInv
<1>1. /\ call[c].pc = "commit" /\ call[c].market \in Markets
      /\ Held(call[c], row, readable) /\ call[c].row.status = "closed"
      /\ call[c].k \in 1..outcomes[call[c].market]
  BY <1>0 DEF Commit, CallOK, OpOK, ResolveOK
<1>2. ASSUME NEW m \in Markets, m = call[c].market, NEW k \in 1..MaxOutcomes, k = call[c].k,
             NEW s \in Rows, s = [status |-> "resolved", winner |-> k]
      PROVE  MarketsInv' /\ [Lifecycle!Next]_Lifecycle!vars
  <2>1. NewRow(c) = s
    BY <1>2 DEF NewRow
  <2>2. /\ row' = [row EXCEPT ![m] = s] /\ wrote' = wrote \cup {c}
        /\ UNCHANGED <<outcomes, shown>>
        /\ flags' = [flags EXCEPT ![m] = @ \cup {k}]
    BY <1>2, <2>1 DEF Commit, Written, Flagged
  <2>3. s # NoRow /\ s.status = "resolved" /\ s.winner = k /\ k # 0
    BY <1>2 DEF NoRow
  <2>6. /\ Kept(c) /\ Lifecycle!Become(m, s)
        /\ \A x \in Markets : row'[x] = IF x = m THEN s ELSE row[x]
    <3>1. call[c].op = "resolve" /\ m = call[c].market  BY <1>2
    <3>2. row[m] # NoRow  BY <1>1, <1>2 DEF Held
    <3>3. RememberOnly(c, s) \/ Remember(c, s)  BY <2>1
    <3>4. row' = [row EXCEPT ![m] = s] /\ wrote' = wrote \cup {c} /\ outcomes' = outcomes
      BY <2>2
    <3> QED BY <2>3, <3>1, <3>2, <3>3, <3>4, ResolveKeeps
  <2>7. \A x \in Markets : flags'[x] = IF x = m THEN flags[x] \cup {k} ELSE flags[x]
    BY <2>2 DEF MarketsInv, TypeOK
  <2>8. MarketInv'
    <3>1. \A x \in Markets : row'[x] \in readable'[x]  BY <2>6 DEF Kept
    <3>2. \A x \in Markets : row'[x] # NoRow => outcomes'[x] \in 2..MaxOutcomes
      BY <1>1, <1>2, <2>2, <2>6 DEF MarketsInv, MarketInv, Held
    <3>3. \A x \in Markets : row'[x].status = "resolved" <=> row'[x].winner # 0
      BY <2>3, <2>6 DEF MarketsInv, MarketInv
    <3>4. \A x \in Markets : row'[x].winner # 0 => row'[x].winner \in flags'[x]
      BY <2>3, <2>6, <2>7 DEF MarketsInv, MarketInv
    <3> QED BY <3>1, <3>2, <3>3, <3>4 DEF MarketInv
  <2>9. MarketsInv'
    <3>1. row' \in [Markets -> Rows] /\ outcomes' \in [Markets -> 0..MaxOutcomes]
      BY <2>2 DEF MarketsInv, TypeOK
    <3>2. flags' \in [Markets -> SUBSET (1..MaxOutcomes)]
      BY <2>2 DEF MarketsInv, TypeOK
    <3>3. \A x \in Markets : flags[x] \subseteq flags'[x]
      BY <2>7
    <3>4. Kept(c) /\ MarketInv'  BY <2>6, <2>8
    <3>5. call[c].pc \in {"write", "commit"} /\ c \in wrote' /\ UNCHANGED shown
      BY <1>1, <2>2
    <3> QED
      BY ONLY MarketsInv, c \in Calls, Wrote(c, r), faults' \in 0..MaxFaults,
              <3>1, <3>2, <3>3, <3>4, <3>5, WrittenInv DEF Wrote
  <2>10. Lifecycle!Resolve(m, k) /\ k \in 1..outcomes[m]
    BY <1>1, <1>2, <2>2, <2>6 DEF Lifecycle!Resolve, Held
  <2> QED BY <2>9, <2>10 DEF Lifecycle!Next
<1>3. /\ call[c].k \in 1..MaxOutcomes
      /\ [status |-> "resolved", winner |-> call[c].k] \in Rows
  BY <1>0, <1>1 DEF Rows, Statuses, MarketsInv, TypeOK, CallType
<1> QED BY <1>1, <1>2, <1>3

\* Written, whatever becomes of its answer.
LEMMA WrittenStep ==
  ASSUME MarketsInv, NEW c \in Calls, Written(c),
         RememberOnly(c, NewRow(c)) \/ Remember(c, NewRow(c)),
         NEW r, Wrote(c, r), faults' \in 0..MaxFaults
  PROVE  MarketsInv' /\ [Lifecycle!Next]_Lifecycle!vars
BY StatusWritten, CreateWritten, ResolveWritten DEF Written, Commit

LEMMA ConfirmedInv ==
  ASSUME MarketsInv, NEW c \in Calls, Confirmed(c)
  PROVE  MarketsInv' /\ [Lifecycle!Next]_Lifecycle!vars
<1>1. call[c] \in CallType /\ CallOK(c, call[c], row, readable, outcomes, wrote)
  BY DEF MarketsInv, TypeOK, CallInv
<1>2. call[c].pc \in {"write", "commit"}
  BY DEF Confirmed, Written, WriteStatus, Commit
<1>3. call[c].op \in {"create", "status", "resolve"} /\ call[c].code = 0
  BY <1>1, <1>2 DEF CallOK, OpOK, AnswerOK
<1>4. faults' \in 0..MaxFaults  BY DEF Confirmed, MarketsInv, TypeOK
<1>5. CASE Answer(c, 201)
  <2>1. ASSUME NEW r, r = Ended(call[c], 201)
        PROVE  Wrote(c, r)
    <3>1. call' = [call EXCEPT ![c] = r]  BY <1>5, <2>1 DEF Answer, Ended
    <3>2. /\ r \in CallType /\ r.op = call[c].op /\ r.market = call[c].market
          /\ r.pc = "answered" /\ r.code = 201
      BY <1>1, <2>1, AnsweredType
    <3> QED BY <3>1, <3>2 DEF Wrote
  <2> QED BY <1>4, <2>1, WrittenStep DEF Confirmed
<1>6. CASE Goto(c, "get") /\ call[c].op # "create"
  <2>1. ASSUME NEW r, r = [call[c] EXCEPT !.pc = "get"]
        PROVE  Wrote(c, r)
    <3>1. call' = [call EXCEPT ![c] = r]  BY <1>6, <2>1 DEF Goto, MarketsInv, TypeOK
    <3> QED BY <1>1, <1>3, <1>6, <2>1, <3>1 DEF Wrote, CallType
  <2> QED BY <1>4, <2>1, WrittenStep DEF Confirmed
<1> QED BY <1>5, <1>6 DEF Confirmed

LEMMA ReplyLostInv ==
  ASSUME MarketsInv, NEW c \in Calls, ReplyLost(c)
  PROVE  MarketsInv' /\ [Lifecycle!Next]_Lifecycle!vars
<1>1. call[c] \in CallType  BY DEF MarketsInv, TypeOK
<1>2. faults' \in 0..MaxFaults  BY MarketsAssumption DEF ReplyLost, MarketsInv, TypeOK
<1>3. ASSUME NEW r, r = Ended(call[c], 500)
      PROVE  Wrote(c, r)
  <2>1. call' = [call EXCEPT ![c] = r]  BY <1>3 DEF Answer, ReplyLost, Ended
  <2>2. /\ r \in CallType /\ r.op = call[c].op /\ r.market = call[c].market
        /\ r.pc = "answered" /\ r.code = 500
    BY <1>1, <1>3, AnsweredType
  <2> QED BY <2>1, <2>2 DEF Wrote
<1> QED BY <1>2, <1>3, WrittenStep DEF ReplyLost

-----------------------------------------------------------------------------
(* Steps that read                                                         *)

\* A call that holds the row it has just read.
LEMMA ReadInv ==
  ASSUME MarketsInv, NEW c \in Calls, NEW p \in {"write", "belongs"}, Read(c, p),
         InFlight(c), call[c].pc # "outcomes", row[call[c].market] # NoRow,
         p = "write" => /\ call[c].pc = "read"
                        /\ <<row[call[c].market].status, call[c].to>> \in validTransitions,
         p = "belongs" => call[c].pc = "closed" /\ row[call[c].market].status = "closed"
  PROVE  MarketsInv' /\ UNCHANGED Lifecycle!vars
<1>1. call[c] \in CallType /\ CallOK(c, call[c], row, readable, outcomes, wrote)
  BY DEF MarketsInv, TypeOK, CallInv
<1>2. call[c].pc \in {"read", "closed"} /\ call[c].op \in {"status", "resolve"}
      /\ call[c].market \in Markets
  BY <1>1 DEF CallOK, OpOK
<1>3. ASSUME NEW m \in Markets, m = call[c].market, NEW s \in Rows, s = row[m],
             NEW r, r = [call[c] EXCEPT !.row = s, !.pc = p]
      PROVE  MarketsInv' /\ UNCHANGED Lifecycle!vars
  <2>1. r \in CallType
    <3>1. [call[c] EXCEPT !.row = s] \in CallType  BY <1>1 DEF CallType
    <3>2. \A q \in CallType : [q EXCEPT !.pc = p] \in CallType  BY DEF CallType
    <3>3. r = [[call[c] EXCEPT !.row = s] EXCEPT !.pc = p]  BY <1>3
    <3> QED BY <3>1, <3>2, <3>3
  <2>2. /\ r.op = call[c].op /\ r.market = m /\ r.pc = p /\ r.row = s
        /\ r.to = call[c].to /\ r.k = call[c].k /\ r.code = call[c].code
    BY <1>1, <1>3 DEF CallType
  <2>3. call' = [call EXCEPT ![c] = r]  BY <1>3 DEF Read
  <2>4. s \in readable[m] /\ s # NoRow
    BY <1>3 DEF MarketsInv, MarketInv
  <2>5. <<s.status, call[c].to>> \in validTransitions => s.winner = 0
    BY <1>3 DEF validTransitions, MarketsInv, MarketInv
  <2>6. OpOK(r)
    BY <1>1, <1>2, <2>2 DEF CallOK, OpOK, Creating, Checked
  <2>7. StatusOK(r, row, readable)
    BY <1>3, <2>2, <2>4, <2>5 DEF StatusOK, Held
  <2>8. ResolveOK(r, row, readable, outcomes)
    BY <1>3, <2>2, <2>4 DEF ResolveOK, Held, Checked
  <2>9. CreateOK(r, row)  BY <1>2, <2>2 DEF CreateOK
  <2>10. AnswerOK(c, r, wrote)
    BY <1>1, <1>2, <2>2 DEF CallOK, AnswerOK
  <2>11. CallOK(c, r, row, readable, outcomes, wrote)
    BY <2>6, <2>7, <2>8, <2>9, <2>10 DEF CallOK
  <2>12. r.op # "create" /\ call[c].pc \notin {"outcomes", "answered"}
    BY <1>2, <2>2
  <2>13. faults' \in 0..MaxFaults  BY DEF Read, MarketsInv, TypeOK
  <2>14. UNCHANGED <<tables, shown, history>>  BY DEF Read
  <2> QED BY <2>1, <2>3, <2>11, <2>12, <2>13, <2>14, PlainStep
<1> QED BY <1>2, <1>3 DEF MarketsInv, TypeOK

LEMMA BreakInv ==
  ASSUME MarketsInv, NEW c \in Calls, Break(c), InFlight(c), faults' \in 0..MaxFaults
  PROVE  MarketsInv' /\ [Lifecycle!Next]_Lifecycle!vars
BY EndInv DEF Break

LEMMA RefuseInv ==
  ASSUME MarketsInv, NEW c \in Calls, Refuse(c), InFlight(c),
         call[c].pc \notin {"get", "outcomes"}
  PROVE  MarketsInv' /\ [Lifecycle!Next]_Lifecycle!vars
<1>1. c \notin wrote
  BY DEF MarketsInv, CallInv, CallOK, AnswerOK, InFlight
<1>2. faults' \in 0..MaxFaults  BY DEF Refuse, MarketsInv, TypeOK
<1> QED BY <1>1, <1>2, EndInv DEF Refuse

LEMMA ChecksInv ==
  ASSUME MarketsInv, NEW c \in Calls, ReadForUpdate(c) \/ CheckClosed(c)
  PROVE  MarketsInv' /\ [Lifecycle!Next]_Lifecycle!vars
<1>1. InFlight(c) /\ call[c].pc \in {"read", "closed"}
  BY DEF ReadForUpdate, CheckClosed, InFlight
<1>2. CASE Break(c) /\ UNCHANGED faults
  <2>1. faults' \in 0..MaxFaults  BY <1>2 DEF MarketsInv, TypeOK
  <2> QED BY <1>1, <1>2, <2>1, BreakInv
<1>3. CASE Refuse(c)
  BY <1>1, <1>3, RefuseInv
<1>4. CASE /\ call[c].pc = "read" /\ row[call[c].market] # NoRow /\ Read(c, "write")
           /\ isValidTransition(row[call[c].market].status, call[c].to)
  <2>1. <<row[call[c].market].status, call[c].to>> \in validTransitions
    BY <1>4 DEF isValidTransition
  <2>2. InFlight(c) /\ call[c].pc # "outcomes" /\ call[c].pc = "read"  BY <1>1, <1>4
  <2>3. Read(c, "write") /\ row[call[c].market] # NoRow  BY <1>4
  <2> QED BY <2>1, <2>2, <2>3, ReadInv
<1>5. CASE /\ call[c].pc = "closed" /\ row[call[c].market].status = "closed"
           /\ Read(c, "belongs")
  <2>1. row[call[c].market] # NoRow  BY <1>5 DEF NoRow
  <2>2. InFlight(c) /\ call[c].pc # "outcomes"  BY <1>1, <1>5
  <2> QED BY <1>5, <2>1, <2>2, ReadInv
<1> QED BY <1>2, <1>3, <1>4, <1>5 DEF ReadForUpdate, CheckClosed

-----------------------------------------------------------------------------
(* Requests                                                                *)

LEMMA NewInv ==
  ASSUME MarketsInv, NEW c \in Calls, call[c].pc = "new", NEW r \in CallType,
         call' = [call EXCEPT ![c] = r], UNCHANGED <<tables, shown, faults, history>>,
         OpOK(r), r.pc \in {"read", "closed", "insert", "get", "list", "answered"},
         r.op \in {"status", "resolve"} => r.pc # "get",
         r.code = 0 \/ (r.code = 400 /\ r.pc = "answered"),
         r.op = "create" => Fresh(r.market),
         (r.op = "create" /\ r.pc # "answered") => r.k \in 2..MaxOutcomes
  PROVE  MarketsInv' /\ UNCHANGED Lifecycle!vars
<1>1. call[c] \in CallType /\ CallOK(c, call[c], row, readable, outcomes, wrote)
  BY DEF MarketsInv, TypeOK, CallInv
<1>2. c \notin wrote  BY <1>1 DEF CallOK, AnswerOK
<1>3. CreateOK(r, row)  BY DEF CreateOK, Fresh
<1>4. StatusOK(r, row, readable) /\ ResolveOK(r, row, readable, outcomes)
  BY DEF StatusOK, ResolveOK, Checked
<1>5. AnswerOK(c, r, wrote)  BY <1>2 DEF AnswerOK
<1>6. CallOK(c, r, row, readable, outcomes, wrote)  BY <1>3, <1>4, <1>5 DEF CallOK
<1>7. ASSUME r.op = "create", NEW d \in Calls \ {c}, call[d].op = "create"
      PROVE  call[d].market # r.market
  <2>1. call[d].pc # "new"  BY <1>7 DEF MarketsInv, CallInv, CallOK, OpOK
  <2> QED BY <1>7, <2>1 DEF Fresh
<1>8. faults' \in 0..MaxFaults  BY DEF MarketsInv, TypeOK
<1>9. UNCHANGED <<tables, shown, history>>  OBVIOUS
<1>10. call[c].pc \notin {"outcomes", "answered"}  OBVIOUS
<1> QED BY <1>6, <1>7, <1>8, <1>9, <1>10, PlainStep

LEMMA CreateMarketInv ==
  ASSUME MarketsInv, NEW c \in Calls, NEW m \in Markets, NEW name \in Names,
         NEW n \in 0..MaxOutcomes, NEW fit, CreateMarket(c, m, name, n, fit)
  PROVE  MarketsInv' /\ UNCHANGED Lifecycle!vars
<1>1. call[c].pc = "new" /\ Fresh(m) /\ UNCHANGED <<tables, shown, faults, history>>
  BY DEF CreateMarket, Request, RequestRefused
<1>2. ASSUME NEW k \in 2..MaxOutcomes, Request(c, "create", m, "none", k, "insert")
      PROVE  MarketsInv' /\ UNCHANGED Lifecycle!vars
  <2> DEFINE r == [pc |-> "insert", op |-> "create", market |-> m, to |-> "none", k |-> k,
                   row |-> NoRow, code |-> 0]
  <2>1. r \in CallType  BY MarketsAssumption DEF CallType, Rows, NoRow
  <2>2. OpOK(r)  BY DEF OpOK, Creating, Checked
  <2>3. call' = [call EXCEPT ![c] = r]  BY <1>2 DEF Request
  <2> QED BY <1>1, <2>1, <2>2, <2>3, NewInv
<1>3. CASE RequestRefused(c, "create", m)
  <2> DEFINE r == [pc |-> "answered", op |-> "create", market |-> m, to |-> "none", k |-> 0,
                   row |-> NoRow, code |-> 400]
  <2>1. r \in CallType  BY MarketsAssumption DEF CallType, Rows, NoRow
  <2>2. OpOK(r)  BY DEF OpOK, Creating, Checked
  <2>3. call' = [call EXCEPT ![c] = r]  BY <1>3 DEF RequestRefused
  <2> QED BY <1>1, <2>1, <2>2, <2>3, NewInv
<1>4. ValidLabels(MarketType(name), n) => Labels(MarketType(name), n) \in 2..MaxOutcomes
  BY MarketsAssumption DEF ValidLabels, Labels, MarketType
<1> QED BY <1>2, <1>3, <1>4 DEF CreateMarket

LEMMA OtherRequestsInv ==
  ASSUME MarketsInv, NEW c \in Calls, NEW m \in Markets,
         \/ \E to \in Statuses : UpdateMarketStatus(c, m, to)
         \/ \E k \in 1..MaxOutcomes : ResolveMarket(c, m, k)
         \/ GetMarket(c, m)
  PROVE  MarketsInv' /\ UNCHANGED Lifecycle!vars
<1>1. call[c].pc = "new" /\ UNCHANGED <<tables, shown, faults, history>>
  BY DEF UpdateMarketStatus, ResolveMarket, GetMarket, Request, RequestRefused
<1>2. ASSUME NEW to \in {"open", "closed", "cancelled"}, Request(c, "status", m, to, 0, "read")
      PROVE  MarketsInv' /\ UNCHANGED Lifecycle!vars
  <2> DEFINE r == [pc |-> "read", op |-> "status", market |-> m, to |-> to, k |-> 0,
                   row |-> NoRow, code |-> 0]
  <2>1. r \in CallType  BY MarketsAssumption DEF CallType, Rows, NoRow, Statuses
  <2>2. OpOK(r)  BY DEF OpOK, Creating, Checked
  <2>3. call' = [call EXCEPT ![c] = r]  BY <1>2 DEF Request
  <2> QED BY <1>1, <2>1, <2>2, <2>3, NewInv
<1>3. CASE RequestRefused(c, "status", m)
  <2> DEFINE r == [pc |-> "answered", op |-> "status", market |-> m, to |-> "none", k |-> 0,
                   row |-> NoRow, code |-> 400]
  <2>1. r \in CallType  BY MarketsAssumption DEF CallType, Rows, NoRow
  <2>2. OpOK(r)  BY DEF OpOK, Creating, Checked
  <2>3. call' = [call EXCEPT ![c] = r]  BY <1>3 DEF RequestRefused
  <2> QED BY <1>1, <2>1, <2>2, <2>3, NewInv
<1>4. ASSUME NEW k \in 1..MaxOutcomes, ResolveMarket(c, m, k)
      PROVE  MarketsInv' /\ UNCHANGED Lifecycle!vars
  <2> DEFINE r == [pc |-> "closed", op |-> "resolve", market |-> m, to |-> "none", k |-> k,
                   row |-> NoRow, code |-> 0]
  <2>1. r \in CallType  BY MarketsAssumption DEF CallType, Rows, NoRow
  <2>2. OpOK(r)  BY DEF OpOK, Creating, Checked
  <2>3. call' = [call EXCEPT ![c] = r]  BY <1>4 DEF ResolveMarket, Request
  <2> QED BY <1>1, <2>1, <2>2, <2>3, NewInv
<1>5. CASE GetMarket(c, m)
  <2> DEFINE r == [pc |-> "get", op |-> "get", market |-> m, to |-> "none", k |-> 0,
                   row |-> NoRow, code |-> 0]
  <2>1. r \in CallType  BY MarketsAssumption DEF CallType, Rows, NoRow
  <2>2. OpOK(r)  BY DEF OpOK, Creating, Checked
  <2>3. call' = [call EXCEPT ![c] = r]  BY <1>5 DEF GetMarket, Request
  <2> QED BY <1>1, <2>1, <2>2, <2>3, NewInv
<1> QED BY <1>2, <1>3, <1>4, <1>5 DEF UpdateMarketStatus

LEMMA ListInv ==
  ASSUME MarketsInv, NEW c \in Calls, ListMarkets(c)
  PROVE  MarketsInv' /\ UNCHANGED Lifecycle!vars
<1>1. call[c].pc = "new" /\ UNCHANGED <<tables, shown, faults, history>>
  BY DEF ListMarkets, Request
<1> DEFINE r == [pc |-> "list", op |-> "list", market |-> "none", to |-> "none", k |-> 0,
                 row |-> NoRow, code |-> 0]
<1>2. r \in CallType  BY MarketsAssumption DEF CallType, Rows, NoRow
<1>3. OpOK(r)  BY DEF OpOK, Creating, Checked
<1>4. call' = [call EXCEPT ![c] = r]  BY DEF ListMarkets, Request
<1> QED BY <1>1, <1>2, <1>3, <1>4, NewInv

-----------------------------------------------------------------------------
(* Commands that change nothing that others see                            *)

Moves == {<<"belongs", "sweep">>, <<"sweep", "flag">>, <<"flag", "update">>,
          <<"update", "pay">>, <<"pay", "commit">>,
          <<"insert", "batch">>, <<"batch", "commit">>}

LEMMA AdvanceInv ==
  ASSUME MarketsInv, NEW c \in Calls, NEW p, Step(c, p), <<call[c].pc, p>> \in Moves,
         call[c].pc = "belongs" => call[c].k \in 1..outcomes[call[c].market]
  PROVE  MarketsInv' /\ UNCHANGED Lifecycle!vars
<1> DEFINE r == [call[c] EXCEPT !.pc = p]
<1>1. call[c] \in CallType /\ CallOK(c, call[c], row, readable, outcomes, wrote)
  BY DEF MarketsInv, TypeOK, CallInv
<1>2. /\ p \in {"sweep", "flag", "update", "pay", "commit", "batch"}
      /\ call[c].pc \in {"belongs", "sweep", "flag", "update", "pay", "insert", "batch"}
  BY DEF Moves
<1>3. r \in CallType  BY <1>1, <1>2 DEF CallType
<1>4. /\ r.pc = p /\ r.op = call[c].op /\ r.market = call[c].market /\ r.to = call[c].to
      /\ r.k = call[c].k /\ r.row = call[c].row /\ r.code = call[c].code
  BY <1>1 DEF CallType
<1> HIDE DEF r
<1>5. OpOK(r)
  BY <1>1, <1>2, <1>4 DEF CallOK, OpOK, Creating, Checked, Moves
<1>6. CreateOK(r, row) /\ StatusOK(r, row, readable)
  BY <1>1, <1>2, <1>4 DEF CallOK, CreateOK, StatusOK
<1>7. ResolveOK(r, row, readable, outcomes)
  BY <1>1, <1>2, <1>4 DEF CallOK, OpOK, ResolveOK, Held, Checked, Creating, Moves
<1>8. AnswerOK(c, r, wrote)
  BY <1>1, <1>2, <1>4 DEF CallOK, AnswerOK, OpOK, Creating, Checked
<1>9. CallOK(c, r, row, readable, outcomes, wrote)
  BY <1>5, <1>6, <1>7, <1>8 DEF CallOK
<1> QED BY <1>2, <1>3, <1>9, StepInv DEF r

LEMMA StepsInv ==
  ASSUME MarketsInv, NEW c \in Calls,
         \/ CheckBelongs(c) \/ Sweep(c) \/ SetWinner(c) \/ Update(c) \/ PayOut(c)
         \/ Insert(c) \/ CreateBatch(c)
  PROVE  MarketsInv' /\ [Lifecycle!Next]_Lifecycle!vars
<1>1. ASSUME CheckBelongs(c), Refuse(c)
      PROVE  MarketsInv' /\ [Lifecycle!Next]_Lifecycle!vars
  BY <1>1, RefuseInv DEF CheckBelongs, InFlight
<1>2. CASE /\ CheckBelongs(c) /\ Step(c, "sweep")
           /\ call[c].k \in 1..outcomes[call[c].market]
  BY <1>2, AdvanceInv DEF CheckBelongs, Moves
<1>3. CASE Sweep(c)  BY <1>3, AdvanceInv DEF Sweep, Moves
<1>4. CASE SetWinner(c)  BY <1>4, AdvanceInv DEF SetWinner, Moves
<1>5. CASE Update(c)  BY <1>5, AdvanceInv DEF Update, Moves
<1>6. CASE PayOut(c)  BY <1>6, AdvanceInv DEF PayOut, Moves
<1>7. CASE Insert(c)  BY <1>7, AdvanceInv DEF Insert, Moves
<1>8. CASE CreateBatch(c)  BY <1>8, AdvanceInv DEF CreateBatch, Moves
<1> QED BY <1>1, <1>2, <1>3, <1>4, <1>5, <1>6, <1>7, <1>8 DEF CheckBelongs

-----------------------------------------------------------------------------
(* What is shown                                                           *)

Entries == [row : Rows, flags : SUBSET (1..MaxOutcomes), read : BOOLEAN]
Pages   == [Markets -> Entries]

EntryOK(e, winners) ==
  /\ e.row.status = "resolved" => e.row.winner \in winners
  /\ (e.read /\ e.row.status = "resolved") => e.row.winner \in e.flags

PageOK(w) == \A m \in Markets : EntryOK(w[m], flags[m])

LEMMA ShowInv ==
  ASSUME MarketsInv, NEW c \in Calls, NEW r \in CallType, call' = [call EXCEPT ![c] = r],
         r.pc = "outcomes", r.op = call[c].op, r.market = call[c].market,
         CallOK(c, r, row, readable, outcomes, wrote),
         UNCHANGED <<tables, history>>, faults' \in 0..MaxFaults,
         NEW w \in Pages, PageOK(w), shown' = [shown EXCEPT ![c] = w]
  PROVE  MarketsInv' /\ UNCHANGED Lifecycle!vars
<1>1. Kept(c) /\ MarketInv' /\ UNCHANGED Lifecycle!vars
  BY KeptUnchanged
<1>2. CallInv' /\ CreatesDiffer'
  BY <1>1, SameOp, CallsKeep DEF tables, history
<1>3. TypeOK'
  BY DEF MarketsInv, TypeOK, tables, history, Pages, Entries
<1>4. ASSUME NEW d \in Calls, NEW m \in Markets
      PROVE  /\ call'[d].pc \notin {"outcomes", "answered"} => shown'[d][m] = Unread
             /\ shown'[d][m].row.status = "resolved" => shown'[d][m].row.winner \in flags'[m]
             /\ (shown'[d][m].read /\ shown'[d][m].row.status = "resolved")
                  => shown'[d][m].row.winner \in shown'[d][m].flags
  <2>1. CASE d = c
    <3>1. shown'[d] = w /\ call'[d] = r /\ flags' = flags
      BY <2>1 DEF MarketsInv, TypeOK, tables
    <3> QED BY <3>1 DEF PageOK, EntryOK
  <2>2. CASE d # c
    <3>1. shown'[d] = shown[d] /\ call'[d] = call[d] /\ flags' = flags
      BY <2>2 DEF MarketsInv, TypeOK, tables
    <3> QED BY <3>1 DEF MarketsInv, ShownInv
  <2> QED BY <2>1, <2>2
<1>5. ShownInv'  BY <1>4 DEF ShownInv
<1> QED BY <1>1, <1>2, <1>3, <1>5 DEF MarketsInv

\* The first read of an answer.
LEMMA FirstReadInv ==
  ASSUME MarketsInv, NEW c \in Calls, GetByID(c) \/ ListPage(c)
  PROVE  MarketsInv' /\ [Lifecycle!Next]_Lifecycle!vars
<1>1. call[c] \in CallType /\ CallOK(c, call[c], row, readable, outcomes, wrote)
  BY DEF MarketsInv, TypeOK, CallInv
<1>2. call[c].pc \in {"get", "list"} /\ InFlight(c)
  BY DEF GetByID, ListPage, InFlight
<1>3. CASE Break(c) /\ UNCHANGED faults
  <2>1. faults' \in 0..MaxFaults  BY <1>3 DEF MarketsInv, TypeOK
  <2> QED BY <1>2, <1>3, <2>1, BreakInv
<1>4. \A m \in Markets : shown[c][m] = Unread
  BY <1>2 DEF MarketsInv, ShownInv
<1>5. Unread.read = FALSE /\ Unread.flags = {} /\ Unread.row = NoRow /\ NoRow.status = "none"
  BY DEF Unread, RowRead, NoRow
<1>6. \A m \in Markets : row[m].status = "resolved" => row[m].winner \in flags[m]
  BY DEF MarketsInv, MarketInv
<1>7. ASSUME UNCHANGED <<tables, faults, history>>, Goto(c, "outcomes"),
             NEW w \in Pages, shown' = [shown EXCEPT ![c] = w],
             \A m \in Markets : w[m] = Unread \/ (w[m].row = row[m] /\ w[m].read = FALSE)
      PROVE  MarketsInv' /\ UNCHANGED Lifecycle!vars
  <2> DEFINE r == [call[c] EXCEPT !.pc = "outcomes"]
  <2>1. r \in CallType  BY <1>1 DEF CallType
  <2>2. /\ r.pc = "outcomes" /\ r.op = call[c].op /\ r.market = call[c].market
        /\ r.to = call[c].to /\ r.k = call[c].k /\ r.row = call[c].row /\ r.code = call[c].code
    BY <1>1 DEF CallType
  <2>3. call' = [call EXCEPT ![c] = r]  BY <1>7 DEF Goto, MarketsInv, TypeOK
  <2> HIDE DEF r
  <2>4. OpOK(r)  BY <1>1, <1>2, <2>2 DEF CallOK, OpOK, Creating, Checked
  <2>5. CreateOK(r, row) /\ StatusOK(r, row, readable) /\ ResolveOK(r, row, readable, outcomes)
    BY <1>1, <1>2, <2>2 DEF CallOK, OpOK, CreateOK, StatusOK, ResolveOK, Creating, Checked
  <2>6. AnswerOK(c, r, wrote)  BY <1>1, <1>2, <2>2 DEF CallOK, AnswerOK, OpOK
  <2>7. CallOK(c, r, row, readable, outcomes, wrote)
    BY <2>4, <2>5, <2>6 DEF CallOK
  <2>8. \A m \in Markets : EntryOK(w[m], flags[m])
    BY <1>5, <1>6, <1>7 DEF EntryOK
  <2>9. faults' \in 0..MaxFaults  BY <1>7 DEF MarketsInv, TypeOK
  <2>10. UNCHANGED <<tables, history>>  BY <1>7
  <2>11. PageOK(w)  BY <2>8 DEF PageOK
  <2> QED BY <1>7, <2>1, <2>2, <2>3, <2>7, <2>9, <2>10, <2>11, ShowInv
<1>8. ASSUME NEW s \in Rows  PROVE RowRead(s) \in Entries /\ RowRead(s).row = s /\ RowRead(s).read = FALSE
  BY DEF RowRead, Entries
<1>81. \A m \in Markets : row[m] \in Rows  BY DEF MarketsInv, TypeOK
<1>9. ASSUME NEW m \in Markets, m = call[c].market, GetByID(c), ~(Break(c) /\ UNCHANGED faults)
      PROVE  MarketsInv' /\ UNCHANGED Lifecycle!vars
  <2> DEFINE w == [shown[c] EXCEPT ![m] = RowRead(row[m])]
  <2>1. RowRead(row[m]) \in Entries  BY <1>8, <1>81
  <2>2. shown[c] \in Pages  BY DEF Pages, Entries, MarketsInv, TypeOK
  <2>3. w \in Pages  BY <2>1, <2>2 DEF Pages
  <2>4. shown' = [shown EXCEPT ![c] = w]  BY <1>9 DEF GetByID, MarketsInv, TypeOK
  <2>5. \A x \in Markets : w[x] = Unread \/ (w[x].row = row[x] /\ w[x].read = FALSE)
    BY <1>4, <1>8, <1>81, <2>2 DEF Pages
  <2>6. UNCHANGED <<tables, faults, history>> /\ Goto(c, "outcomes")
    BY <1>9 DEF GetByID
  <2> HIDE DEF w
  <2> QED BY <1>7, <2>3, <2>4, <2>5, <2>6
<1>11. ASSUME ListPage(c)
       PROVE  MarketsInv' /\ UNCHANGED Lifecycle!vars
  <2> DEFINE w == [m \in Markets |-> RowRead(row[m])]
  <2>1. w \in Pages  BY <1>8, <1>81 DEF Pages
  <2>2. shown' = [shown EXCEPT ![c] = w]  BY <1>11 DEF ListPage
  <2>3. \A x \in Markets : w[x].row = row[x] /\ w[x].read = FALSE  BY <1>8, <1>81
  <2>4. UNCHANGED <<tables, faults, history>> /\ Goto(c, "outcomes")
    BY <1>11 DEF ListPage
  <2> HIDE DEF w
  <2> QED BY <1>7, <2>1, <2>2, <2>3, <2>4
<1>10. call[c].pc = "get" => call[c].market \in Markets
  BY <1>1 DEF CallOK, OpOK
<1> QED BY <1>3, <1>9, <1>10, <1>11 DEF GetByID

\* The outcomes of one market, and a list that goes on without them.
LEMMA OutcomesInv ==
  ASSUME MarketsInv, NEW c \in Calls, NEW m \in Markets,
         ListByMarket(c, m) \/ OutcomesFail(c, m)
  PROVE  MarketsInv' /\ UNCHANGED Lifecycle!vars
<1>1. /\ call[c] \in CallType /\ CallOK(c, call[c], row, readable, outcomes, wrote)
      /\ call[c].pc = "outcomes"
  BY DEF MarketsInv, TypeOK, CallInv, ListByMarket, OutcomesFail
<1>2. faults' \in 0..MaxFaults
  BY MarketsAssumption DEF ListByMarket, OutcomesFail, MarketsInv, TypeOK
<1>3. UNCHANGED <<tables, history>> /\ call' = [call EXCEPT ![c] = call[c]]
  BY DEF ListByMarket, OutcomesFail, MarketsInv, TypeOK
<1>4. \A x \in Markets : EntryOK(shown[c][x], flags[x])
  BY DEF MarketsInv, ShownInv, EntryOK
<1>5. ASSUME NEW w \in Pages, shown' = [shown EXCEPT ![c] = w], PageOK(w)
      PROVE  MarketsInv' /\ UNCHANGED Lifecycle!vars
  <2>1. call[c].op = call[c].op /\ call[c].market = call[c].market  OBVIOUS
  <2> QED BY <1>1, <1>2, <1>3, <1>5, ShowInv
<1>6. CASE ListByMarket(c, m)
  <2> DEFINE p == [row |-> shown[c][m].row, flags |-> flags[m], read |-> TRUE]
             w == [shown[c] EXCEPT ![m] = p]
  <2>1. p \in Entries  BY DEF Entries, MarketsInv, TypeOK
  <2>2. p.row = shown[c][m].row /\ p.flags = flags[m]  OBVIOUS
  <2>3. shown' = [shown EXCEPT ![c] = w]  BY <1>6 DEF ListByMarket, MarketsInv, TypeOK
  <2> HIDE DEF p
  <2>4. w \in Pages  BY <2>1 DEF Pages, Entries, MarketsInv, TypeOK
  <2>5. \A x \in Markets : w[x] = IF x = m THEN p ELSE shown[c][x]  BY DEF MarketsInv, TypeOK
  <2> HIDE DEF w
  <2>6. ASSUME NEW x \in Markets
        PROVE  EntryOK(w[x], flags[x])
    <3>1. CASE x = m
      <4>1. w[x] = p  BY <2>5, <3>1
      <4>2. shown[c][m].row.status = "resolved" => shown[c][m].row.winner \in flags[m]
        BY <1>4 DEF EntryOK
      <4>3. EntryOK(p, flags[m])  BY <2>2, <4>2 DEF EntryOK
      <4> QED BY <3>1, <4>1, <4>3
    <3>2. CASE x # m
      <4>1. w[x] = shown[c][x]  BY <2>5, <3>2
      <4> QED BY <1>4, <4>1
    <3> QED BY <3>1, <3>2
  <2>7. PageOK(w)  BY <2>6 DEF PageOK
  <2> QED BY <1>5, <2>3, <2>4, <2>7
<1>7. CASE OutcomesFail(c, m)
  <2> DEFINE w == [shown[c] EXCEPT ![m] = Unread]
  <2>1. Unread \in Entries  BY MarketsAssumption DEF Entries, Unread, RowRead, Rows, NoRow
  <2>2. w \in Pages  BY <2>1 DEF Pages, Entries, MarketsInv, TypeOK
  <2>3. \A x \in Markets : w[x] = IF x = m THEN Unread ELSE shown[c][x]
    BY DEF MarketsInv, TypeOK
  <2>4. shown' = [shown EXCEPT ![c] = w]  BY <1>7 DEF OutcomesFail, MarketsInv, TypeOK
  <2> HIDE DEF w
  <2>5. ASSUME NEW x \in Markets
        PROVE  EntryOK(w[x], flags[x])
    <3>1. CASE x = m
      <4>1. w[x] = Unread  BY <2>3, <3>1
      <4>2. EntryOK(Unread, flags[x])  BY DEF EntryOK, Unread, RowRead, NoRow
      <4> QED BY <4>1, <4>2
    <3>2. CASE x # m
      <4>1. w[x] = shown[c][x]  BY <2>3, <3>2
      <4> QED BY <1>4, <4>1
    <3> QED BY <3>1, <3>2
  <2>6. PageOK(w)  BY <2>5 DEF PageOK
  <2> QED BY <1>5, <2>2, <2>4, <2>6
<1> QED BY <1>6, <1>7

LEMMA RespondInv ==
  ASSUME MarketsInv, NEW c \in Calls, Respond(c)
  PROVE  MarketsInv' /\ [Lifecycle!Next]_Lifecycle!vars
<1>1. InFlight(c) /\ call[c].pc = "outcomes"  BY DEF Respond, InFlight
<1>2. faults' \in 0..MaxFaults  BY DEF Respond, MarketsInv, TypeOK
<1> QED BY <1>1, <1>2, EndInv DEF Respond

LEMMA FailInv ==
  ASSUME MarketsInv, NEW c \in Calls, Fail(c)
  PROVE  MarketsInv' /\ [Lifecycle!Next]_Lifecycle!vars
<1>1. faults' \in 0..MaxFaults  BY MarketsAssumption DEF Fail, MarketsInv, TypeOK
<1> QED BY <1>1, BreakInv DEF Fail

-----------------------------------------------------------------------------
(* The theorems                                                            *)

LEMMA InitInv ==
  ASSUME Init
  PROVE  MarketsInv /\ Lifecycle!Init
<1>1. row \in [Markets -> Rows]  BY DEF Init
<1>2. \A m \in Markets : row[m] \in {r \in Rows : /\ r.winner \in 0..2
                                                  /\ r.status = "resolved" <=> r.winner # 0}
  BY DEF Init
<1>21. \A m \in Markets : row[m].winner \in 0..2  BY <1>2
<1>22. \A m \in Markets : row[m].status = "resolved" <=> row[m].winner # 0  BY <1>2
<1>23. \A m \in Markets : flags[m] = {row[m].winner} \ {0}  BY DEF Init
<1>24. \A m \in Markets : outcomes[m] = IF row[m] = NoRow THEN 0 ELSE 2  BY DEF Init
<1>3. [pc |-> "new", op |-> "none", market |-> "none", to |-> "none", k |-> 0,
       row |-> NoRow, code |-> 0] \in CallType
  BY MarketsAssumption DEF CallType, Rows, NoRow
<1>4. TypeOK
  <2>1. outcomes \in [Markets -> 0..MaxOutcomes]  BY MarketsAssumption DEF Init
  <2>2. flags \in [Markets -> SUBSET (1..MaxOutcomes)]
    <3>1. \A m \in Markets : {row[m].winner} \ {0} \in SUBSET (1..MaxOutcomes)
      <4>1. \A w \in 0..2 : {w} \ {0} \in SUBSET (1..MaxOutcomes)  BY ONLY MarketsAssumption
      <4> QED BY <1>21, <4>1
    <3> QED BY <3>1 DEF Init
  <2>3. call \in [Calls -> CallType]  BY <1>3 DEF Init
  <2>4. Unread \in [row : Rows, flags : SUBSET (1..MaxOutcomes), read : BOOLEAN]
    BY MarketsAssumption DEF Unread, RowRead, Rows, NoRow
  <2>5. shown \in [Calls -> [Markets -> [row : Rows, flags : SUBSET (1..MaxOutcomes),
                                         read : BOOLEAN]]]
    BY <2>4 DEF Init
  <2>6. faults \in 0..MaxFaults /\ wrote \subseteq Calls  BY MarketsAssumption DEF Init
  <2>7. readable \in [Markets -> SUBSET Rows]  BY <1>1 DEF Init
  <2> QED BY <1>1, <2>1, <2>2, <2>3, <2>5, <2>6, <2>7 DEF TypeOK
<1>5. MarketInv
  <2>1. \A m \in Markets : row[m] \in readable[m]  BY DEF Init
  <2>2. ASSUME NEW m \in Markets
        PROVE  /\ row[m] # NoRow => outcomes[m] \in 2..MaxOutcomes
               /\ row[m].status = "resolved" <=> row[m].winner # 0
               /\ row[m].winner # 0 => row[m].winner \in flags[m]
    <3>1. 2 \in 2..MaxOutcomes  BY MarketsAssumption
    <3>2. outcomes[m] = IF row[m] = NoRow THEN 0 ELSE 2  BY <1>24
    <3>3. flags[m] = {row[m].winner} \ {0}  BY <1>23
    <3>4. row[m].status = "resolved" <=> row[m].winner # 0  BY <1>22
    <3>5. row[m] # NoRow => outcomes[m] \in 2..MaxOutcomes  BY ONLY <3>1, <3>2
    <3>6. row[m].winner # 0 => row[m].winner \in flags[m]  BY ONLY <3>3
    <3> QED BY ONLY <3>4, <3>5, <3>6
  <2> QED BY ONLY <2>1, <2>2 DEF MarketInv
<1>6. \A c \in Calls : call[c].pc = "new" /\ call[c].op = "none" /\ call[c].code = 0 /\ c \notin wrote
  BY DEF Init
<1>7. CallInv
  BY <1>6 DEF CallInv, CallOK, OpOK, CreateOK, StatusOK, ResolveOK, AnswerOK, Creating, Checked
<1>8. CreatesDiffer  BY <1>6 DEF CreatesDiffer
<1>9. ShownInv
  <2>1. \A c \in Calls, m \in Markets : shown[c][m] = Unread  BY DEF Init
  <2> QED BY <2>1 DEF ShownInv, Unread, RowRead, NoRow
<1>10. Lifecycle!Init
  <2>1. readable = [m \in Markets |-> {row[m]}]  BY DEF Init
  <2>2. ASSUME NEW m \in Markets
        PROVE  /\ flags[m] = {row[m].winner} \ {0}
               /\ row[m] # NoRow => outcomes[m] \in 2..MaxOutcomes
               /\ row[m].status = "resolved" <=> row[m].winner # 0
    BY <1>22, <1>23, <1>5 DEF MarketInv
  <2> QED BY ONLY <2>1, <2>2 DEF Lifecycle!Init, Lifecycle!NoRow, NoRow
<1> QED BY <1>4, <1>5, <1>7, <1>8, <1>9, <1>10 DEF MarketsInv

LEMMA NextInv ==
  ASSUME MarketsInv, [Next]_vars
  PROVE  MarketsInv' /\ [Lifecycle!Next]_Lifecycle!vars
<1>1. ASSUME NEW c \in Calls, NEW m \in Markets, NewCall(c, m)
      PROVE  MarketsInv' /\ [Lifecycle!Next]_Lifecycle!vars
  BY <1>1, CreateMarketInv, OtherRequestsInv DEF NewCall
<1>2. ASSUME NEW c \in Calls, ListMarkets(c)
      PROVE  MarketsInv' /\ [Lifecycle!Next]_Lifecycle!vars
  BY <1>2, ListInv
<1>3. ASSUME NEW c \in Calls, Command(c)
      PROVE  MarketsInv' /\ [Lifecycle!Next]_Lifecycle!vars
  BY <1>3, ChecksInv, StepsInv, ConfirmedInv, FirstReadInv, RespondInv, OutcomesInv DEF Command
<1>4. ASSUME NEW c \in Calls, Fail(c) \/ ReplyLost(c) \/ \E m \in Markets : OutcomesFail(c, m)
      PROVE  MarketsInv' /\ [Lifecycle!Next]_Lifecycle!vars
  BY <1>4, FailInv, ReplyLostInv, OutcomesInv
<1>5. CASE UNCHANGED vars
  <2>1. /\ row' = row /\ outcomes' = outcomes /\ flags' = flags /\ call' = call
        /\ shown' = shown /\ faults' = faults /\ wrote' = wrote /\ readable' = readable
    BY ONLY <1>5 DEF vars, tables, history
  <2>2. TypeOK'  BY ONLY <2>1, MarketsInv DEF MarketsInv, TypeOK
  <2>3. MarketInv'  BY ONLY <2>1, MarketsInv DEF MarketsInv, MarketInv
  <2>4. CallInv'  BY ONLY <2>1, MarketsInv DEF MarketsInv, CallInv
  <2>5. CreatesDiffer'  BY ONLY <2>1, MarketsInv DEF MarketsInv, CreatesDiffer
  <2>6. ShownInv'  BY ONLY <2>1, MarketsInv DEF MarketsInv, ShownInv
  <2>7. UNCHANGED Lifecycle!vars  BY ONLY <2>1 DEF Lifecycle!vars
  <2> QED BY ONLY <2>2, <2>3, <2>4, <2>5, <2>6, <2>7 DEF MarketsInv
<1> QED BY <1>1, <1>2, <1>3, <1>4, <1>5 DEF Next

\* The invariant holds, and every step is a step of the lifecycle or none.
LEMMA MarketsInvariant == Spec => []MarketsInv
<1>1. Init => MarketsInv  BY InitInv
<1>2. MarketsInv /\ [Next]_vars => MarketsInv'  BY NextInv
<1> QED BY <1>1, <1>2, PTL DEF Spec

\* However calls overlap, fail or lose their answers: market-svc implements the
\* lifecycle of a market (market.go:80-197, settlement.go:61-161).
THEOREM MarketsImplementLifecycle == Spec => ImplementsLifecycle
<1>1. Init => Lifecycle!Init  BY InitInv
<1>2. MarketsInv /\ [Next]_vars => [Lifecycle!Next]_Lifecycle!vars  BY NextInv
<1> QED BY <1>1, <1>2, MarketsInvariant, PTL DEF Spec, ImplementsLifecycle, Lifecycle!Spec

\* A 400 has changed nothing and a success has committed (admin.go:229-253).
THEOREM AnswersAreTrue == Spec => []AnswersTellTheOutcome
<1>1. MarketsInv => AnswersTellTheOutcome
  BY DEF MarketsInv, CallInv, CallOK, AnswerOK, AnswersTellTheOutcome
<1> QED BY <1>1, MarketsInvariant, PTL

\* A market shown as resolved is shown with its winner (server.go:206).
THEOREM ResolvedIsShownWithWinner == Spec => []ResolvedShowsItsWinner
<1>1. MarketsInv => ResolvedShowsItsWinner
  BY DEF MarketsInv, ShownInv, ResolvedShowsItsWinner
<1> QED BY <1>1, MarketsInvariant, PTL

\* The types of Markets.
THEOREM MarketsTypeCorrect == Spec => []TypeOK
<1>1. MarketsInv => TypeOK  BY DEF MarketsInv
<1> QED BY <1>1, MarketsInvariant, PTL

=============================================================================
