------------------------------- MODULE Markets -------------------------------
(***************************************************************************)
(* Markets through the gateway: the administrator's calls and the public   *)
(* reads, from the HTTP request over market-svc to PostgreSQL and back to  *)
(* the answer.  A call is a program of commands; calls interleave command  *)
(* by command, a command can fail, and its answer can be lost.  Settlement *)
(* models what a resolution pays; here a payout is one command that is     *)
(* part of the transaction.                                                *)
(***************************************************************************)
EXTENDS Integers, FiniteSets

CONSTANTS
  Calls,        \* calls, each made once
  Markets,      \* ids of markets
  MaxOutcomes,  \* bound on the labels of a market
  MaxFaults     \* bound on commands that fail or whose answer is lost

ASSUME MarketsAssumption == MaxOutcomes \in Nat /\ MaxOutcomes >= 3 /\ MaxFaults \in Nat

VARIABLES
  row,       \* table markets: status and resolved_outcome_id (0 is NULL)
  outcomes,  \* table outcomes: how many each market has
  flags,     \* table outcomes: those with is_winner
  call,      \* program counter, arguments, registers and answer of each call
  shown,     \* shown[c][m]: row and flagged outcomes of m in the answer to c
  faults,
  wrote,     \* history: the calls whose writes are committed
  readable   \* history: rows of a market that a call in flight can have read

tables  == <<row, outcomes, flags>>
history == <<wrote, readable>>
vars    == <<tables, call, shown, faults, history>>

Statuses == {"draft", "open", "closed", "resolved", "cancelled"}
NoRow == [status |-> "none", winner |-> 0]
Draft == [status |-> "draft", winner |-> 0]
Rows  == [status : Statuses \cup {"none"}, winner : 0..MaxOutcomes]

\* A market in an answer, with its row and before its outcomes.
RowRead(r) == [row |-> r, flags |-> {}, read |-> FALSE]
Unread == RowRead(NoRow)

-----------------------------------------------------------------------------
(* Calls                                                                   *)

InFlight(c) == call[c].pc \notin {"new", "answered"}

\* History: r is the row of c's market after this step, or at its end.
Remember(c, r) ==
  readable' = [readable EXCEPT ![call[c].market] = @ \cup {r}]

RememberOnly(c, r) ==
  LET m == call[c].market
      alone == \A d \in Calls \ {c} : InFlight(d) => call[d].market # m
  IN  readable' = IF call[c].op = "list" THEN readable
                  ELSE [readable EXCEPT ![m] = IF alone THEN {r} ELSE @ \cup {r}]

Goto(c, pc) == call' = [call EXCEPT ![c].pc = pc]
Answer(c, code) == call' = [call EXCEPT ![c] = [@ EXCEPT !.pc = "answered", !.code = code]]

\* BAD_REQUEST is InvalidArgument, and that is 400.  It ends a call that has
\* written nothing yet.
Refuse(c) ==
  /\ Answer(c, 400)
  /\ RememberOnly(c, row[call[c].market])
  /\ UNCHANGED <<tables, shown, faults, wrote>>

\* Any other error, also that of a row that is not there, is Internal and 500.
Break(c) ==
  /\ Answer(c, 500)
  /\ RememberOnly(c, row[call[c].market])
  /\ UNCHANGED <<tables, shown, wrote>>

Step(c, pc) ==
  /\ Goto(c, pc)
  /\ UNCHANGED <<tables, shown, faults, history>>

Request(c, op, m, to, k, pc) ==
  /\ call[c].pc = "new"
  /\ call' = [call EXCEPT ![c] = [pc |-> pc, op |-> op, market |-> m, to |-> to, k |-> k,
                                  row |-> NoRow, code |-> 0]]
  /\ UNCHANGED <<tables, shown, faults, history>>

RequestRefused(c, op, m) ==
  /\ call[c].pc = "new"
  /\ call' = [call EXCEPT ![c] = [pc |-> "answered", op |-> op, market |-> m, to |-> "none",
                                  k |-> 0, row |-> NoRow, code |-> 400]]
  /\ UNCHANGED <<tables, shown, faults, history>>

-----------------------------------------------------------------------------
(* POST /admin/markets                                                     *)

\* The type's name is looked up among the names of the enumeration, so the
\* API's own "binary" and "multi" are unspecified, and that is binary.
Names == {"MARKET_TYPE_BINARY", "MARKET_TYPE_MULTI", "other"}
MarketType(name) == IF name = "MARKET_TYPE_MULTI" THEN "multi" ELSE "binary"

ValidLabels(type, n) ==
  \/ type = "binary" /\ n \in {0, 2}
  \/ type = "multi"  /\ n >= 2

Labels(type, n) == IF type = "binary" THEN 2 ELSE n

\* generateID gives an id that no call has mentioned.
Fresh(m) == row[m] = NoRow /\ \A d \in Calls : call[d].pc # "new" => call[d].market # m

\* The lengths of the texts, then what the service checks.
CreateMarket(c, m, name, n, textsFit) ==
  /\ Fresh(m)
  /\ IF textsFit /\ ValidLabels(MarketType(name), n)
     THEN Request(c, "create", m, "none", Labels(MarketType(name), n), "insert")
     ELSE RequestRefused(c, "create", m)

-----------------------------------------------------------------------------
(* POST /admin/markets/:id/status                                          *)

AnyTransition(from, to) == TRUE          \* mutated form: no check

validTransitions ==
  {<<"draft", "open">>, <<"open", "closed">>,
   <<"closed", "resolved">>, <<"closed", "cancelled">>}

isValidTransition(from, to) == <<from, to>> \in validTransitions

UpdateMarketStatus(c, m, to) ==
  IF to \in {"open", "closed", "cancelled"}
  THEN Request(c, "status", m, to, 0, "read")
  ELSE RequestRefused(c, "status", m)

\* GetByID, and the checks on the row.
Read(c, pc) ==
  /\ call' = [call EXCEPT ![c] = [@ EXCEPT !.row = row[call[c].market], !.pc = pc]]
  /\ UNCHANGED <<tables, shown, faults, history>>

ReadForUpdate(c) ==
  /\ call[c].pc = "read"
  /\ LET r == row[call[c].market]
     IN  \/ r = NoRow /\ Break(c) /\ UNCHANGED faults
         \/ r # NoRow /\ isValidTransition(r.status, call[c].to) /\ Read(c, "write")
         \/ r # NoRow /\ ~isValidTransition(r.status, call[c].to) /\ Refuse(c)

\* A transaction has written the market's row.
RowLocked(c) ==
  \E d \in Calls \ {c} : call[d].market = call[c].market /\ call[d].pc \in {"pay", "commit"}

\* The row a call writes: all of it, as it was read, but for the status.
NewRow(c) ==
  CASE call[c].op = "create"  -> Draft
    [] call[c].op = "status"  -> [call[c].row EXCEPT !.status = call[c].to]
    [] call[c].op = "resolve" -> [status |-> "resolved", winner |-> call[c].k]

WriteStatus(c) ==
  /\ call[c].pc = "write"
  /\ ~RowLocked(c)
  /\ UNCHANGED <<outcomes, flags>>

-----------------------------------------------------------------------------
(* POST /admin/markets/:id/resolve                                         *)

ResolveMarket(c, m, k) == Request(c, "resolve", m, "none", k, "closed")

CheckClosed(c) ==
  /\ call[c].pc = "closed"
  /\ LET r == row[call[c].market]
     IN  \/ r = NoRow /\ Break(c) /\ UNCHANGED faults
         \/ r.status = "closed" /\ Read(c, "belongs")
         \/ r.status \notin {"none", "closed"} /\ Refuse(c)

CheckBelongs(c) ==
  /\ call[c].pc = "belongs"
  /\ IF call[c].k \in 1..outcomes[call[c].market]
     THEN Step(c, "sweep")
     ELSE Refuse(c)

\* The call that cancels the orders, and the commands of the transaction:
\* SetWinner, Update, the payouts.
Sweep(c) == call[c].pc = "sweep" /\ Step(c, "flag")
SetWinner(c) ==
  /\ call[c].pc = "flag"
  /\ ~\E d \in Calls \ {c} : /\ call[d].op = "resolve"
                             /\ call[d].market = call[c].market
                             /\ call[d].k = call[c].k
                             /\ call[d].pc \in {"update", "pay", "commit"}
  /\ Step(c, "update")
Update(c) == call[c].pc = "update" /\ ~RowLocked(c) /\ Step(c, "pay")
PayOut(c) == call[c].pc = "pay" /\ Step(c, "commit")

-----------------------------------------------------------------------------
(* Transactions                                                            *)

Insert(c) == call[c].pc = "insert" /\ Step(c, "batch")

InsertAtOnce(c) ==                       \* mutated form: no transaction around it
  /\ call[c].pc = "insert"
  /\ row' = [row EXCEPT ![call[c].market] = Draft]
  /\ Goto(c, "batch")
  /\ Remember(c, Draft)
  /\ UNCHANGED <<outcomes, flags, shown, faults, wrote>>

CreateBatch(c) == call[c].pc = "batch" /\ Step(c, "commit")

NoFlag(c) == flags                       \* mutated form: SetWinner outside
Flagged(c) == [flags EXCEPT ![call[c].market] = @ \cup {call[c].k}]

Commit(c) ==
  /\ call[c].pc = "commit"
  /\ \/ /\ call[c].op = "create"
        /\ outcomes' = [outcomes EXCEPT ![call[c].market] = call[c].k]
        /\ UNCHANGED flags
     \/ /\ call[c].op = "resolve"
        /\ flags' = Flagged(c)
        /\ UNCHANGED outcomes

\* What a call has written is now seen by all.
Written(c) ==
  /\ WriteStatus(c) \/ Commit(c)
  /\ row' = [row EXCEPT ![call[c].market] = NewRow(c)]
  /\ wrote' = wrote \cup {c}
  /\ UNCHANGED shown

\* The handlers of the changes of a market ask for it again.
Confirmed(c) ==
  /\ Written(c)
  /\ \/ call[c].op = "create" /\ Answer(c, 201) /\ RememberOnly(c, NewRow(c))
     \/ call[c].op # "create" /\ Goto(c, "get") /\ Remember(c, NewRow(c))
  /\ UNCHANGED faults

-----------------------------------------------------------------------------
(* GET /markets/:id and GET /markets                                       *)

GetMarket(c, m) == Request(c, "get", m, "none", 0, "get")
ListMarkets(c) == Request(c, "list", "none", "none", 0, "list")

\* GetMarket: the row, and the outcomes by another command.
GetByID(c) ==
  /\ call[c].pc = "get"
  /\ LET m == call[c].market
     IN  \/ row[m] = NoRow /\ Break(c) /\ UNCHANGED faults
         \/ /\ row[m] # NoRow
            /\ shown' = [shown EXCEPT ![c][m] = RowRead(row[m])]
            /\ Goto(c, "outcomes")
            /\ UNCHANGED <<tables, faults, history>>

\* The page of markets, in one command.
ListPage(c) ==
  /\ call[c].pc = "list"
  /\ shown' = [shown EXCEPT ![c] = [m \in Markets |-> RowRead(row[m])]]
  /\ Goto(c, "outcomes")
  /\ UNCHANGED <<tables, faults, history>>

\* Of a list, GetMarket for one market after the other.
Unfinished(c) == {m \in Markets : shown[c][m].row # NoRow /\ ~shown[c][m].read}

ListByMarket(c, m) ==
  /\ call[c].pc = "outcomes"
  /\ m \in Unfinished(c)
  /\ shown' = [shown EXCEPT ![c][m] = [row |-> @.row, flags |-> flags[m], read |-> TRUE]]
  /\ UNCHANGED <<tables, call, faults, history>>

Respond(c) ==
  /\ call[c].pc = "outcomes"
  /\ Unfinished(c) = {}
  /\ Answer(c, 200)
  /\ RememberOnly(c, row[call[c].market])
  /\ UNCHANGED <<tables, shown, faults, wrote>>

-----------------------------------------------------------------------------
(* Failures                                                                *)

FailUnnoticed(c) ==                      \* mutated form: the error of Update is dropped
  /\ faults < MaxFaults
  /\ faults' = faults + 1
  /\ call[c].pc = "write"
  /\ Goto(c, "get")
  /\ UNCHANGED <<tables, shown, history>>

\* A command fails, or the gateway gives up: what is not committed is undone.
Fail(c) ==
  /\ faults < MaxFaults
  /\ faults' = faults + 1
  /\ InFlight(c)
  /\ ~(call[c].op = "list" /\ call[c].pc = "outcomes")
  /\ Break(c)

\* The list goes on without the outcomes that could not be read.
OutcomesFail(c, m) ==
  /\ faults < MaxFaults
  /\ faults' = faults + 1
  /\ call[c].pc = "outcomes" /\ call[c].op = "list"
  /\ m \in Unfinished(c)
  /\ shown' = [shown EXCEPT ![c][m] = Unread]
  /\ UNCHANGED <<tables, call, history>>

\* The write is done and its answer does not arrive.
ReplyLost(c) ==
  /\ faults < MaxFaults
  /\ faults' = faults + 1
  /\ Written(c)
  /\ Answer(c, 500)
  /\ RememberOnly(c, NewRow(c))

-----------------------------------------------------------------------------

Init ==
  /\ row \in [Markets -> {r \in Rows : /\ r.winner \in 0..2
                                       /\ r.status = "resolved" <=> r.winner # 0}]
  /\ outcomes = [m \in Markets |-> IF row[m] = NoRow THEN 0 ELSE 2]
  /\ flags = [m \in Markets |-> {row[m].winner} \ {0}]
  /\ call = [c \in Calls |-> [pc |-> "new", op |-> "none", market |-> "none", to |-> "none", k |-> 0,
                              row |-> NoRow, code |-> 0]]
  /\ shown = [c \in Calls |-> [m \in Markets |-> Unread]]
  /\ faults = 0
  /\ wrote = {}
  /\ readable = [m \in Markets |-> {row[m]}]

NewCall(c, m) ==
  \/ \E name \in Names, n \in 0..MaxOutcomes, fit \in BOOLEAN :
       CreateMarket(c, m, name, n, fit)
  \/ \E to \in Statuses : UpdateMarketStatus(c, m, to)
  \/ \E k \in 1..MaxOutcomes : ResolveMarket(c, m, k)
  \/ GetMarket(c, m)

Command(c) ==
  \/ ReadForUpdate(c) \/ CheckClosed(c) \/ CheckBelongs(c)
  \/ Sweep(c) \/ SetWinner(c) \/ Update(c) \/ PayOut(c)
  \/ Insert(c) \/ CreateBatch(c) \/ Confirmed(c)
  \/ GetByID(c) \/ ListPage(c) \/ Respond(c)
  \/ \E m \in Markets : ListByMarket(c, m)

Next == \E c \in Calls : \/ \E m \in Markets : NewCall(c, m)
                         \/ ListMarkets(c)
                         \/ Command(c)
                         \/ Fail(c) \/ ReplyLost(c)
                         \/ \E m \in Markets : OutcomesFail(c, m)

Spec == Init /\ [][Next]_vars

-----------------------------------------------------------------------------
(* Properties                                                              *)

CallType ==
  [pc : {"new", "read", "write", "closed", "belongs", "sweep", "flag", "update", "pay",
         "insert", "batch", "commit", "get", "list", "outcomes", "answered"},
   op : {"none", "create", "status", "resolve", "get", "list"},
   market : Markets \cup {"none"}, to : Statuses \cup {"none"}, k : 0..MaxOutcomes,
   row : Rows, code : {0, 200, 201, 400, 500}]

TypeOK ==
  /\ row \in [Markets -> Rows]
  /\ outcomes \in [Markets -> 0..MaxOutcomes]
  /\ flags \in [Markets -> SUBSET (1..MaxOutcomes)]
  /\ call \in [Calls -> CallType]
  /\ shown \in [Calls -> [Markets -> [row : Rows, flags : SUBSET (1..MaxOutcomes),
                                      read : BOOLEAN]]]
  /\ faults \in 0..MaxFaults
  /\ wrote \subseteq Calls
  /\ readable \in [Markets -> SUBSET Rows]

\* Whatever overlaps, fails or loses its answer: a market is seen with its
\* outcomes or not at all (market.go:142), a resolution comes with its winner's
\* flag (settlement.go:96), and a row is one valid transition away from one
\* that a call still in flight can have read (market.go:180), which is the
\* present one when the call is the only one on its market.
Lifecycle == INSTANCE MarketLifecycle
ImplementsLifecycle == Lifecycle!Spec

\* A call answered with 400 has changed nothing, and one answered with success
\* has committed its change, although the answer comes from later commands
\* (admin.go:229-253).  After 500 both are possible.
AnswersTellTheOutcome ==
  \A c \in Calls : call[c].pc = "answered" =>
    /\ call[c].code = 400 => c \notin wrote
    /\ (call[c].code \in {200, 201} /\ call[c].op \notin {"get", "list"}) => c \in wrote

\* The answer has no field for the winner: a client learns it from is_winner,
\* which another command reads than the status.  A market shown as resolved
\* with its outcomes has the winner among them (server.go:206, market.go:165).
ResolvedShowsItsWinner ==
  \A c \in Calls, m \in Markets :
    (shown[c][m].read /\ shown[c][m].row.status = "resolved")
      => shown[c][m].row.winner \in shown[c][m].flags

\* "Returns a NOT_FOUND error if the market does not exist" (market.go:163).
MissingIsNotFound ==
  \A c \in Calls : (call[c].pc = "answered" /\ call[c].code = 500) => faults > 0

=============================================================================
