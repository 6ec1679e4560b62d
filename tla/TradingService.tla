---------------------------- MODULE TradingService ----------------------------
(***************************************************************************)
(* The trading service of one market: OrderService and MintService         *)
(* (services/trading-svc/internal/service/order.go, mint.go) over          *)
(* PostgreSQL (READ COMMITTED, no explicit row locks) and the in-memory    *)
(* matching engine.                                                        *)
(*                                                                         *)
(* A gRPC call is a process that runs its handler's statements one at a    *)
(* time; todo[c] is what is left of it.  A "get" reads a row into reg[c],  *)
(* a "put" writes that row back changed by a delta, and a "set" writes a   *)
(* row whatever it held.  In a transaction the writes of a call are in     *)
(* writes[c] until it commits, and the rows written are locked; outside of *)
(* one every statement commits by itself.                                  *)
(***************************************************************************)
EXTENDS EngineCalls, FiniteSets

CONSTANTS
  Users, Outcomes,
  Calls,            \* gRPC calls that may be made; an order has its call's id
  Unit,             \* price of 1.00, in ticks
  InitialBalance,   \* of a new user, in ticks
  Endowed,          \* user -> complete sets minted before the run starts
  Requests,         \* the orders that may be placed
  MintSizes,        \* the quantities that may be minted
  Kinds,            \* the handlers the run exercises
  MaxInFlight,      \* bound on concurrent calls
  MaxFaults,        \* bound on failing statements
  MaxCrashes        \* bound on restarts of the service

ASSUME TradingAssumption ==
  /\ Unit \in Nat /\ InitialBalance \in Nat
  /\ MaxInFlight \in Nat /\ MaxFaults \in Nat /\ MaxCrashes \in Nat
  /\ Endowed \in [Users -> Nat]
  /\ \A u \in Users : Endowed[u] * Unit <= InitialBalance
  /\ Requests \subseteq [user : Users, outcome : Outcomes, side : Sides,
                         price : Nat, qty : Nat]
  /\ MintSizes \subseteq Nat
  /\ Kinds \subseteq {"place", "cancel", "cancelall", "mint", "status", "resolve"}

VARIABLES
  db,         \* committed rows, by key
  writes,     \* rows written by each open transaction
  kind,       \* which handler each call runs
  todo,       \* statements left to each call
  reg,        \* row the call read last
  status,     \* "idle", "running", "ok" or "failed"
  book,       \* the engine: outcome -> book
  heap,       \* the engine's order objects
  arrived,    \* order ids by created_at
  faults, crashes,
  torn,       \* history: orders whose cancellation stopped half-way
  diverged    \* history: a call failed after the engine had acted on it

engine  == <<book, heap>>
bounds  == <<faults, crashes>>
history == <<torn, diverged>>
vars == <<db, writes, kind, todo, reg, status, engine, arrived, bounds, history>>

-----------------------------------------------------------------------------
(* Rows and their keys.                                                    *)

UserKey(u)     == <<"user", u>>
PosKey(u, k)   == <<"position", u, k>>
OrderKey(o)    == <<"order", o>>
TradeKey(c, i) == <<"trade", c, i>>
MintKey(c)     == <<"mint", c>>
MarketKey      == <<"market">>
OutcomeKey(k)  == <<"outcome", k>>

Overlay(f, g) == [x \in DOMAIN f \cup DOMAIN g |->
                    IF x \in DOMAIN f THEN f[x] ELSE g[x]]

\* "settle" is the transaction of a settlement (module Settlement).
InTx(c) == kind[c] \in {"place", "mint", "settle"}

\* What call c reads: its own writes over the committed rows.
Visible(c, key) == IF key \in DOMAIN writes[c] THEN writes[c][key] ELSE db[key]

Exists(c, key) == key \in DOMAIN writes[c] \cup DOMAIN db

LockedByOther(c, key) == \E d \in Calls \ {c} : key \in DOMAIN writes[d]

\* INSERT or UPDATE of one row: waits for a transaction that has written it.
RowWrite(c, key, row) ==
  /\ ~LockedByOther(c, key)
  /\ IF InTx(c)
     THEN writes' = [writes EXCEPT ![c] = Overlay([x \in {key} |-> row], @)] /\ db' = db
     ELSE db' = Overlay([x \in {key} |-> row], db) /\ writes' = writes

\* The committed orders that are open, older first; and best price first.
IsOpen(row) == row.status \in {"open", "partially_filled"}
ListAllOpenOrders ==
  SelectSeq(arrived, LAMBDA o : OrderKey(o) \in DOMAIN db /\ IsOpen(db[OrderKey(o)]))

ListOpenOrdersByMarket ==
  LET open     == ListAllOpenOrders
      price(i) == db[OrderKey(open[i])].price
      best     == SetToSortSeq(1..Len(open), LAMBDA i, j :
                    price(i) > price(j) \/ (price(i) = price(j) /\ i < j))
  IN  [n \in DOMAIN best |-> open[best[n]]]

-----------------------------------------------------------------------------
(* Statements.                                                             *)

Get(key, need)   == [do |-> "get", key |-> key, need |-> need]
Put(key, delta)  == [do |-> "put", key |-> key, delta |-> delta]
Set(key, row)    == [do |-> "set", key |-> key, row |-> row]

Money(bal, locked) == [bal |-> bal, locked |-> locked]
Tokens(n)          == [qty |-> n]
NoRow              == [row |-> "none"]

\* The queries of the repositories, by name.  A row is changed by reading it
\* and writing what was computed from it.
GetUserByID(u, need)                      == Get(UserKey(u), need)
UpdateUserBalance(u, money)               == Put(UserKey(u), money)
GetPositionByUserAndOutcome(u, k, need)   == Get(PosKey(u, k), need)
UpsertPosition(u, k, n)                   == Set(PosKey(u, k), Tokens(n))
GetOrderByID(o)                           == Get(OrderKey(o), 0)
UpdateOrderStatus(o, row)                 == Set(OrderKey(o), row)
CreateOrder(o, row)                       == Set(OrderKey(o), row)
CreateTrade(c, i, tr)                     == Set(TradeKey(c, i), tr)
CreateMintTransaction(c, n)               == Set(MintKey(c), Tokens(n))

ChangeBalance(u, need, money) == <<GetUserByID(u, need), UpdateUserBalance(u, money)>>
ChangePosition(u, k, need, n) == <<GetPositionByUserAndOutcome(u, k, need), Put(PosKey(u, k), n)>>

CoversAnything(key, row, need) == TRUE   \* mutated form: no check

\* Sufficient balance, or sufficient position.
Covers(key, row, need) == CASE key[1] = "user"     -> row.bal >= need
                            [] key[1] = "position" -> row.qty >= need
                            [] OTHER               -> TRUE

Changed(key, row, delta) ==
  CASE key[1] = "user" -> Money(row.bal + delta.bal, row.locked + delta.locked)
    [] key[1] = "position" -> Tokens(row.qty + delta)
    [] key[1] = "order" ->
         [row EXCEPT !.filled = @ + delta,
                     !.status = IF row.filled + delta >= row.qty
                                THEN "filled" ELSE "partially_filled"]

NewOrder(r) == [user |-> r.user, outcome |-> r.outcome, side |-> r.side,
                price |-> r.price, qty |-> r.qty, filled |-> 0, status |-> "open"]

\* A buyer's cost is locked; a seller's tokens leave the position.
Reserve(r) ==
  IF r.side = "buy"
  THEN ChangeBalance(r.user, r.price * r.qty, Money(- (r.price * r.qty), r.price * r.qty))
  ELSE ChangePosition(r.user, r.outcome, r.qty, - r.qty)

RefundNone(buyer, tr) == 0               \* mutated form: no price improvement

\* What a buyer gets back when the trade's price is better than the limit.
Refund(buyer, tr) == (buyer.price - tr.price) * tr.qty

FillMaker(tr) == <<GetOrderByID(tr.maker), Put(OrderKey(tr.maker), tr.qty)>>

\* Settlement of the i-th trade of a call: the trade's row, the buyer's money
\* and tokens, the seller's proceeds and the maker's order.  A buying maker's
\* limit is the trade's price.
Settle(i, tr, objs) ==
  LET taker  == objs[tr.taker]
      maker  == objs[tr.maker]
      buyer  == IF taker.side = "buy" THEN taker ELSE maker
      seller == IF taker.side = "buy" THEN maker ELSE taker
  IN  <<CreateTrade(tr.taker, i, tr)>>
      \o ChangeBalance(buyer.user, 0, Money(Refund(buyer, tr), - buyer.price * tr.qty))
      \o ChangePosition(buyer.user, buyer.outcome, 0, tr.qty)
      \o ChangeBalance(seller.user, 0, Money(tr.price * tr.qty, 0))
      \o FillMaker(tr)

\* UpdateStatus(cancelled, order.FilledQty) with the row as it was read.
MarkCancelled(o, row) == UpdateOrderStatus(o, [row EXCEPT !.status = "cancelled"])

WholeQty(row) == row.qty                 \* mutated form: filled part too

\* What a cancellation gives back.
ReleasedQty(row) == Unfilled(row)

Unlock(row) == LET cost == ReleasedQty(row) * row.price
               IN  ChangeBalance(row.user, 0, Money(cost, - cost))

Withdraw(o) == [do |-> "withdraw", order |-> o]

\* What CancelOrder does after its checks.  A seller's tokens stay out of the
\* position.
CancelProgram(o, row) ==
  <<Withdraw(o)>> \o (IF row.side = "buy" THEN Unlock(row) ELSE <<>>)
                  \o <<MarkCancelled(o, row)>>

\* One round of CancelAllOrdersByMarket's loop.
SweepProgram(o, row) ==
  <<Withdraw(o)>>
  \o (IF row.side = "buy" THEN Unlock(row)
      ELSE ChangePosition(row.user, row.outcome, 0, ReleasedQty(row)))
  \o <<MarkCancelled(o, row)>>

-----------------------------------------------------------------------------

AllMinted == FoldSet(LAMBDA u, n : n + Endowed[u], 0, Users)

UserRows == {UserKey(u) : u \in Users}
PosRows  == {PosKey(u, k) : u \in Users, k \in Outcomes}

OutcomeRows == {OutcomeKey(k) : k \in Outcomes}

\* resolved_outcome_id is NULL.
NoWinner == "none"

Init ==
  /\ db = [key \in UserRows \cup PosRows \cup OutcomeRows \cup {MarketKey} |->
             CASE key \in UserRows -> Money(InitialBalance - Unit * Endowed[key[2]], 0)
               [] key \in PosRows  -> Tokens(Endowed[key[2]])
               [] key = MarketKey  -> [status |-> "open", winner |-> NoWinner]
               [] OTHER            -> [winner |-> FALSE]]
  /\ writes   = [c \in Calls |-> <<>>]
  /\ kind     = [c \in Calls |-> "none"]
  /\ todo     = [c \in Calls |-> <<>>]
  /\ reg      = [c \in Calls |-> NoRow]
  /\ status   = [c \in Calls |-> "idle"]
  /\ book     = [k \in Outcomes |-> EmptyBook]
  /\ heap     = <<>>
  /\ arrived  = <<>>
  /\ faults   = 0
  /\ crashes  = 0
  /\ torn     = {}
  /\ diverged = FALSE

Running == {c \in Calls : status[c] = "running"}

Start(c, k, program) ==
  /\ k \in Kinds
  /\ status[c] = "idle"
  /\ Cardinality(Running) < MaxInFlight
  /\ kind'   = [kind EXCEPT ![c] = k]
  /\ todo'   = [todo EXCEPT ![c] = program]
  /\ status' = [status EXCEPT ![c] = "running"]
  /\ UNCHANGED <<db, writes, reg, engine, bounds, history>>

\* PlaceOrder up to the matching: validation, reservation, the order's row.
\* Afterwards the taker's own row is brought up to date.
PlaceOrder(c, r) ==
  /\ r.price \in 1..(Unit - 1) /\ r.qty > 0
  /\ Start(c, "place",
           Reserve(r)
           \o <<CreateOrder(c, NewOrder(r)),
                [do |-> "match", row |-> NewOrder(r)], [do |-> "taker"]>>)
  /\ arrived' = Append(arrived, c)

\* MintTokens: the position rows are overwritten with the minted quantity.
MintTokens(c, u, n) ==
  /\ Start(c, "mint",
           <<GetUserByID(u, n * Unit)>>
           \o SetToSeq({UpsertPosition(u, k, n) : k \in Outcomes})
           \o <<UpdateUserBalance(u, Money(- n * Unit, 0)), CreateMintTransaction(c, n)>>)
  /\ UNCHANGED arrived

CancelOrder(c, u, o) ==
  /\ Start(c, "cancel", <<[do |-> "lookup", user |-> u, order |-> o]>>)
  /\ UNCHANGED arrived

CancelAllOrdersByMarket(c) ==
  /\ Start(c, "cancelall", <<[do |-> "list"]>>)
  /\ UNCHANGED arrived

-----------------------------------------------------------------------------
(* One statement per step.                                                 *)

Ready(c, do) == status[c] = "running" /\ todo[c] # <<>> /\ Head(todo[c]).do = do

Advance(c) == todo' = [todo EXCEPT ![c] = Tail(@)]

calls == <<kind, status>>

\* SELECT of a row whose value decides what is written later.
ReadRow(c) ==
  /\ Ready(c, "get")
  /\ LET s == Head(todo[c])
     IN  /\ Exists(c, s.key)
         /\ Covers(s.key, Visible(c, s.key), s.need)
         /\ reg' = [reg EXCEPT ![c] = Visible(c, s.key)]
  /\ Advance(c)
  /\ UNCHANGED <<db, writes, calls, engine, arrived, bounds, history>>

\* UPDATE or upsert computed from the row read earlier.
WriteRow(c) ==
  /\ Ready(c, "put")
  /\ LET s == Head(todo[c]) IN RowWrite(c, s.key, Changed(s.key, reg[c], s.delta))
  /\ Advance(c)
  /\ UNCHANGED <<reg, calls, engine, arrived, bounds, history>>

\* A trade refers to the orders of both sides, and to a row that is committed
\* or of the same transaction.
References(c, s) == IF s.key[1] # "trade" THEN TRUE
                    ELSE /\ Exists(c, OrderKey(s.row.maker))
                         /\ Exists(c, OrderKey(s.row.taker))

\* INSERT or UPDATE with values that do not depend on a row read before.
SetRow(c) ==
  /\ Ready(c, "set")
  /\ LET s == Head(todo[c]) IN References(c, s) /\ RowWrite(c, s.key, s.row)
  /\ Advance(c)
  /\ UNCHANGED <<reg, calls, engine, arrived, bounds, history>>

\* engine.PlaceOrder, inside the open transaction; the settlement of its
\* trades is put in front of the rest.
Match(c) ==
  /\ Ready(c, "match")
  /\ LET mine == Head(todo[c]).row
         call == PlaceCall(book[mine.outcome], Overlay([o \in {c} |-> mine], heap), c)
     IN  /\ book' = [book EXCEPT ![mine.outcome] = call.book]
         /\ heap' = call.heap
         /\ todo' = [todo EXCEPT ![c] =
                       FlattenSeq([i \in 1..Len(call.trades) |-> Settle(i, call.trades[i], call.heap)])
                       \o Tail(@)]
  /\ UNCHANGED <<db, writes, reg, calls, arrived, bounds, history>>

ReadTakerNothing(c) ==                   \* mutated form: taker's row not updated
  /\ Ready(c, "taker")
  /\ Advance(c) /\ reg' = reg
  /\ UNCHANGED <<db, writes, calls, engine, arrived, bounds, history>>

\* The taker's row takes status and filled quantity from the order object it
\* shares with the engine, in two reads, if the object shows a fill.
ReadTaker(c) ==
  /\ Ready(c, "taker")
  /\ IF heap[c].filled > 0
     THEN /\ reg' = [reg EXCEPT ![c] = [status |-> heap[c].status]]
          /\ todo' = [todo EXCEPT ![c] = <<[do |-> "takerset"]>> \o Tail(@)]
     ELSE Advance(c) /\ reg' = reg
  /\ UNCHANGED <<db, writes, calls, engine, arrived, bounds, history>>

WriteTaker(c) ==
  /\ Ready(c, "takerset")
  /\ RowWrite(c, OrderKey(c), [Visible(c, OrderKey(c)) EXCEPT
                                 !.status = reg[c].status, !.filled = heap[c].filled])
  /\ Advance(c)
  /\ UNCHANGED <<reg, calls, engine, arrived, bounds, history>>

\* CancelOrder reads the order's row and checks its owner.
LookUp(c) ==
  /\ Ready(c, "lookup")
  /\ LET s == Head(todo[c])
     IN  /\ Exists(c, OrderKey(s.order))
         /\ db[OrderKey(s.order)].user = s.user
         /\ todo' = [todo EXCEPT ![c] = CancelProgram(s.order, db[OrderKey(s.order)])]
  /\ UNCHANGED <<db, writes, reg, calls, engine, arrived, bounds, history>>

\* ListOpenByMarket: the orders are swept as they were listed.
List(c) ==
  /\ Ready(c, "list")
  /\ LET open == ListOpenOrdersByMarket
     IN  todo' = [todo EXCEPT ![c] =
                    FlattenSeq([i \in DOMAIN open |->
                      SweepProgram(open[i], db[OrderKey(open[i])])])
                    \o Tail(@)]
  /\ UNCHANGED <<db, writes, reg, calls, engine, arrived, bounds, history>>

InEngine(o) == \E k \in Outcomes : IsOnBook(book[k], o)

PullNothing(c) ==                        \* mutated form: stays on the book
  /\ Ready(c, "withdraw")
  /\ InEngine(Head(todo[c]).order)
  /\ Advance(c)
  /\ UNCHANGED <<db, writes, reg, calls, engine, arrived, bounds, history>>

\* engine.CancelOrder of an order that is on the book.
PullOrder(c) ==
  /\ Ready(c, "withdraw")
  /\ LET o == Head(todo[c]).order
     IN  /\ InEngine(o)
         /\ book' = [book EXCEPT ![heap[o].outcome] = CancelCall(@, heap, o).book]
         /\ heap' = [heap EXCEPT ![o].status = "cancelled"]
  /\ Advance(c)
  /\ UNCHANGED <<db, writes, reg, calls, arrived, bounds, history>>

\* The handler returns nil: a transaction commits and its rows are unlocked.
Return(c) ==
  /\ status[c] = "running" /\ todo[c] = <<>>
  /\ db' = Overlay(writes[c], db)
  /\ writes' = [writes EXCEPT ![c] = <<>>]
  /\ reg' = [reg EXCEPT ![c] = NoRow]
  /\ status' = [status EXCEPT ![c] = "ok"]
  /\ UNCHANGED <<kind, todo, engine, arrived, bounds, history>>

-----------------------------------------------------------------------------
(* Errors.                                                                 *)

\* Orders that call c has still to mark as cancelled, having withdrawn them.
Pending(c) == {o \in Calls : /\ \E i \in DOMAIN todo[c] : todo[c][i].do = "set"
                                  /\ todo[c][i].key = OrderKey(o)
                             /\ Withdraw(o) \notin {todo[c][i] : i \in DOMAIN todo[c]}
                             /\ ~InTx(c)}

\* The engine has acted for call c, whose statement fails.
Acted(c) == IF kind[c] = "place"
            THEN c \in DOMAIN heap
            ELSE Pending(c) # {}

\* A statement returns an error: a transaction rolls back, the statements of
\* a cancel that have run stay.
Abort(c) ==
  /\ writes'   = [writes EXCEPT ![c] = <<>>]
  /\ todo'     = [todo EXCEPT ![c] = <<>>]
  /\ reg'      = [reg EXCEPT ![c] = NoRow]
  /\ status'   = [status EXCEPT ![c] = "failed"]
  /\ torn'     = torn \cup Pending(c)
  /\ diverged' = (diverged \/ Acted(c))
  /\ UNCHANGED <<db, kind, engine, arrived>>

\* The code's own errors: insufficient balance or position, an unknown order,
\* somebody else's, or one that is not on the book; and a trade whose maker
\* has no visible row, which the foreign key refuses.
Refused(c) ==
  \/ Ready(c, "get") /\ LET s == Head(todo[c])
                        IN  Exists(c, s.key) => ~Covers(s.key, Visible(c, s.key), s.need)
  \/ Ready(c, "set") /\ ~References(c, Head(todo[c]))
  \/ Ready(c, "lookup") /\ LET s == Head(todo[c])
                           IN  Exists(c, OrderKey(s.order)) =>
                                 db[OrderKey(s.order)].user # s.user
  \/ Ready(c, "withdraw") /\ ~InEngine(Head(todo[c]).order)

Refuse(c) ==
  /\ Refused(c)
  /\ Abort(c)
  /\ UNCHANGED bounds

\* The key that call c cannot write because another transaction holds it.
BlockedOn(c) ==
  {d \in Calls \ {c} :
     \/ /\ Ready(c, "put") \/ Ready(c, "set")
        /\ Head(todo[c]).key \in DOMAIN writes[d]
     \/ Ready(c, "takerset") /\ OrderKey(c) \in DOMAIN writes[d]}

WaitsOnlyDirectly(c) == c \in BlockedOn(c)  \* mutated form: no cycles looked for

\* A cycle of row locks through call c.
WaitsForItself(c) ==
  LET step(S) == S \cup UNION {BlockedOn(d) : d \in S}
  IN  c \in FoldLeft(LAMBDA S, d : step(S), BlockedOn(c), SetToSeq(Calls))

\* PostgreSQL aborts a transaction that waits for itself.
BreakDeadlock(c) ==
  /\ WaitsForItself(c)
  /\ Abort(c)
  /\ UNCHANGED bounds

\* A statement, or the commit, fails: a lost connection, a cancelled context.
Fail(c) ==
  /\ status[c] = "running"
  /\ faults < MaxFaults
  /\ faults' = faults + 1
  /\ Abort(c)
  /\ UNCHANGED crashes

\* The service dies and is started again: open transactions roll back, and
\* the books are rebuilt from the open orders, without matching.  When they
\* cannot be listed the service starts with empty books.
Restart ==
  /\ crashes < MaxCrashes
  /\ crashes' = crashes + 1
  /\ writes' = [c \in Calls |-> <<>>]
  /\ todo'   = [c \in Calls |-> <<>>]
  /\ reg'    = [c \in Calls |-> NoRow]
  /\ status' = [c \in Calls |-> IF status[c] = "running" THEN "failed" ELSE status[c]]
  /\ torn'   = torn \cup UNION {Pending(c) : c \in Running}
  /\ \E listed \in BOOLEAN :
       /\ listed \/ faults < MaxFaults
       /\ faults' = IF listed THEN faults ELSE faults + 1
       /\ diverged' = ~listed
       /\ LET open == IF listed THEN ListAllOpenOrders ELSE <<>>
              objs == [o \in {open[i] : i \in 1..Len(open)} |-> db[OrderKey(o)]]
          IN  /\ heap' = objs
              /\ book' = [k \in Outcomes |->
                            RestoreCalls(objs, SelectSeq(open, LAMBDA o :
                                                 objs[o].outcome = k))]
  /\ UNCHANGED <<db, kind, arrived>>

-----------------------------------------------------------------------------

UserCall(c) == \/ \E r \in Requests : PlaceOrder(c, r)
               \/ \E u \in Users, n \in MintSizes : MintTokens(c, u, n)
               \/ \E u \in Users, o \in Calls : CancelOrder(c, u, o)

Statement(c) == \/ ReadRow(c) \/ WriteRow(c) \/ SetRow(c) \/ Match(c)
                \/ ReadTaker(c) \/ WriteTaker(c)
                \/ LookUp(c) \/ List(c) \/ PullOrder(c)
                \/ Return(c) \/ Refuse(c) \/ BreakDeadlock(c)

Next ==
  \/ \E c \in Calls : \/ UserCall(c) \/ CancelAllOrdersByMarket(c)
                      \/ Statement(c) \/ Fail(c)
  \/ Restart

Spec == Init /\ [][Next]_vars

\* When Statement(c) is enabled: the call runs and waits for no row lock, or
\* waits for itself.
Able(c) == status[c] = "running" /\ (BlockedOn(c) = {} \/ WaitsForItself(c))

\* Weak fairness of Statement(c), which alone moves a running call when no
\* statement fails: a running goroutine runs on, and PostgreSQL breaks cycles.
Fairness == \A c \in Calls :
              <>[]Able(c) => []<><<todo'[c] # todo[c] \/ status'[c] # status[c]>>_vars

FairSpec == Spec /\ Fairness

-----------------------------------------------------------------------------
(* Properties                                                              *)

Placed == {o \in Calls : OrderKey(o) \in DOMAIN db}
Row(o) == db[OrderKey(o)]
Open   == {o \in Placed : IsOpen(Row(o))}
Tape   == {db[key] : key \in {x \in DOMAIN db : x[1] = "trade"}}
Minted == AllMinted + MapThenSumSet(LAMBDA key : db[key].qty,
                                    {x \in DOMAIN db : x[1] = "mint"})
Traded(o) == MapThenSumSet(LAMBDA tr : tr.qty,
                           {tr \in Tape : o \in {tr.maker, tr.taker}})

Quiet == Running = {}

OrderRow == [user : Users, outcome : Outcomes, side : Sides, price : 1..(Unit - 1),
             qty : Nat, filled : Nat,
             status : {"open", "partially_filled", "filled", "cancelled"}]

\* Rows, the engine's objects and the calls have their types; no committed
\* balance or position is negative, whatever calls overlap (order.go:109, 129,
\* mint.go:57).
TypeOK ==
  /\ DOMAIN db \subseteq UserRows \cup PosRows \cup OutcomeRows \cup {MarketKey}
                         \cup {OrderKey(o) : o \in Calls}
                         \cup {TradeKey(c, i) : c \in Calls, i \in 1..Cardinality(Calls)}
                         \cup {MintKey(c) : c \in Calls}
  /\ \A u \in Users : db[UserKey(u)].bal \in Nat /\ db[UserKey(u)].locked \in Int
  /\ \A key \in PosRows : db[key].qty \in Nat
  /\ \A o \in Placed : Row(o) \in OrderRow
  /\ \A o \in DOMAIN heap : heap[o] \in OrderRow
  /\ status \in [Calls -> {"idle", "running", "ok", "failed"}]
  /\ \A c \in Calls : status[c] # "running" => writes[c] = <<>> /\ todo[c] = <<>>

\* A user's locked balance is what the open buy orders may still cost: nothing
\* is locked for good and nothing is unlocked twice, except where a cancel was
\* cut short (order.go:101-115, 172-183, 277-289).
LockedBacksOpenBuys ==
  Quiet => \A u \in Users :
    (\A o \in torn : Row(o).user # u) =>
      db[UserKey(u)].locked =
        MapThenSumSet(LAMBDA o : Unfilled(Row(o)) * Row(o).price,
                      {o \in Open : Row(o).user = u /\ Row(o).side = "buy"})

\* The money in balances, in locked balances and in minted sets is what the
\* users were given: no trade, refund or cancel makes or loses any.
MoneyConserved ==
  MapThenSumSet(LAMBDA u : db[UserKey(u)].bal + db[UserKey(u)].locked, Users)
    + Unit * Minted = InitialBalance * Cardinality(Users)

TokensOf(k) ==
  MapThenSumSet(LAMBDA u : db[PosKey(u, k)].qty, Users)
    + MapThenSumSet(LAMBDA o : Unfilled(Row(o)),
                    {o \in Open : Row(o).outcome = k /\ Row(o).side = "sell"})

\* There are never more tokens of an outcome than sets were minted, so the
\* collateral pays for any outcome that wins.
TokensBacked == (Quiet /\ torn = {}) => \A k \in Outcomes : TokensOf(k) <= Minted

\* No call, failure or restart creates money or tokens that no collateral
\* stands for (order.go:101-133, 172-219, mint.go:57-110).
CollateralKept == MoneyConserved /\ TokensBacked

\* An order's filled quantity is that of its recorded trades (order.go:221-241).
FilledIsTraded == Quiet => \A o \in Placed : Row(o).filled = Traded(o)

\* Between calls the rows of users, orders and trades tell the same story.
RowsAgree == LockedBacksOpenBuys /\ FilledIsTraded

\* Between calls the books hold the open orders, with the filled quantity and
\* the status of their rows, unless a call failed after the engine had acted.
BookMirrorsRows ==
  (Quiet /\ ~diverged) =>
    /\ {o \in Calls : InEngine(o)} = Open
    /\ \A o \in Open : heap[o] = Row(o)

\* A cancelled order stays as it is, through the calls, failures and restarts
\* that follow (order.go:292).  Where calls overlap it does not: a settlement
\* writes the maker's row that it read before the cancel (order.go:223-232).
\* trading_serial has one call at a time, and MCTradingOverlap.cfg refutes this.
CancelledIsFinal ==
  [][\A o \in Placed : Row(o).status = "cancelled" => Row(o)' = Row(o)]_vars

\* As long as the service is up, the recorded trades of an order are among the
\* engine's, whatever calls overlap or fail: none is recorded that was not made,
\* and none twice.  What the rows say is filled is FilledWithinQuantity's matter.
TradesAreTheEngines ==
  crashes = 0 => \A o \in Placed : Traded(o) <= heap[o].filled
                                   /\ heap[o].filled <= Row(o).qty

\* Every call returns: row locks, and cycles of them, delay it at most.
CallsReturn == \A c \in Calls : status[c] = "running" ~> status[c] # "running"

-----------------------------------------------------------------------------
(* What the code's documentation says and the code does not do.            *)

\* "the cost (price * quantity) is deducted from the user's available balance
\* and added to locked_balance" and a cancel "releases the locked funds"
\* (order.go:69, 255), also when a cancel is cut short.
LockedIsOpenBuys ==
  Quiet => \A u \in Users :
    db[UserKey(u)].locked =
      MapThenSumSet(LAMBDA o : Unfilled(Row(o)) * Row(o).price,
                    {o \in Open : Row(o).user = u /\ Row(o).side = "buy"})

\* filled_quantity is the "number of shares filled so far"
\* (api/components/schemas.yaml:226), so at most the quantity.
FilledWithinQuantity == \A o \in Placed : Row(o).filled <= Row(o).qty

\* A mint "produces one Yes token and one No token per unit of quantity"
\* (api/trading.yaml:12) and a cancel returns "any unfilled quantity"
\* (api/trading.yaml:283): minted tokens are in positions or in open sells.
TokensConserved == Quiet => \A k \in Outcomes : TokensOf(k) = Minted

\* An open order "is on the book and waiting to be matched"
\* (pkg/domain/order.go:28).
OpenIsOnBook == Quiet => \A o \in Placed : Row(o).status = "open" => InEngine(o)

=============================================================================
