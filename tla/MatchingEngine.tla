---------------------------- MODULE MatchingEngine ----------------------------
(***************************************************************************)
(* The matching engine of one outcome                                      *)
(* (services/trading-svc/internal/matching/engine.go).  Every PlaceOrder   *)
(* call is a goroutine that takes the book's mutex ob.mu, runs the         *)
(* matching loop and rests what is left before it lets go of the mutex;    *)
(* the events of its trades go out after that, one at a time.  CancelOrder *)
(* calls compete for the same mutex.  Orders are shared pointers: `order'  *)
(* is the heap, and the book holds ids.                                    *)
(***************************************************************************)
EXTENDS Orderbook, FiniteSets, FiniteSetsExt

CONSTANTS
  Orders,               \* ids of the orders that may be placed
  Users,
  MinPrice, MaxPrice,   \* the accepted prices (0.01 and 0.99 in the code)
  MaxQty,               \* bound on the quantity of one order
  Subscribers,          \* channels handed to Engine.Subscribe
  FeedCap,              \* capacity of each of those channels
  NoOne                 \* the mutex is free

ASSUME EngineAssumption ==
  /\ MinPrice \in Nat /\ MaxPrice \in Nat /\ MaxQty \in Nat /\ FeedCap \in Nat
  /\ NoOne \notin Orders

VARIABLES
  order,      \* heap of placed orders: id -> fields of domain.Order
  book,       \* side -> price levels
  index,      \* keys of the maps orderSide and orderMap
  mu,         \* holder of ob.mu
  pc,         \* where each PlaceOrder call is
  skipped,    \* matchOrder's local skippedOrders, of the holder of mu
  trades,     \* every trade made, in the order made
  outbox,     \* events a PlaceOrder call has yet to emit
  feed,       \* content of the subscribers' channels
  rested,     \* history: orders in the order in which they first rested
  requeued    \* history: orders taken off and put back by self-trade skipping

bookVars == <<book, index>>
feedVars == <<outbox, feed>>
history  == <<rested, requeued>>
vars == <<order, book, index, mu, pc, skipped, trades, outbox, feed,
          rested, requeued>>

Prices == MinPrice..MaxPrice

Statuses == {"open", "partially_filled", "filled", "cancelled"}

Order == [user : Users, side : Sides, price : Prices, qty : 1..MaxQty,
          filled : 0..MaxQty, status : Statuses]

Trade == [maker : Orders, taker : Orders, price : Prices, qty : 0..MaxQty]

Event == [type : {"trade"}, trade : Trade]
           \cup [type : {"book_update"}, by : Orders]

Remaining(o) == order[o].qty - order[o].filled

BookIds == LevelIds(book["buy"]) \cup LevelIds(book["sell"])

-----------------------------------------------------------------------------

Init ==
  /\ order    = <<>>
  /\ book     = [s \in Sides |-> <<>>]
  /\ index    = {}
  /\ mu       = NoOne
  /\ pc       = [o \in Orders |-> "idle"]
  /\ skipped  = <<>>
  /\ trades   = <<>>
  /\ outbox   = [o \in Orders |-> <<>>]
  /\ feed     = [s \in Subscribers |-> <<>>]
  /\ rested   = <<>>
  /\ requeued = {}

Valid(price, qty) == price >= MinPrice /\ price <= MaxPrice /\ qty > 0

\* A call that passes validation; any other returns an error and changes
\* nothing.  The service hands the engine an order with status open.
Submit(o, user, side, price, qty) ==
  /\ o \notin DOMAIN order
  /\ Valid(price, qty)
  /\ order' = [x \in DOMAIN order \cup {o} |->
                 IF x # o THEN order[x]
                 ELSE [user |-> user, side |-> side, price |-> price,
                       qty |-> qty, filled |-> 0, status |-> "open"]]
  /\ pc' = [pc EXCEPT ![o] = "lock"]
  /\ UNCHANGED <<bookVars, mu, skipped, trades, feedVars, history>>

\* ob.mu.Lock() in PlaceOrder.
Acquire(o) ==
  /\ pc[o] = "lock"
  /\ mu = NoOne
  /\ mu' = o
  /\ pc' = [pc EXCEPT ![o] = "match"]
  /\ skipped' = <<>>
  /\ UNCHANGED <<order, bookVars, trades, feedVars, history>>

-----------------------------------------------------------------------------
(* matchOrder: one iteration of its loop per step, with ob.mu held.        *)

OppositeLevels(t) == book[Opposite(order[t].side)]

HasBest(levels) == levels # <<>> /\ levels[1].queue # <<>>

\* The limits of taker t and maker m cross.
Crosses(t, m) == IF order[t].side = "buy"
                 THEN order[t].price >= order[m].price
                 ELSE order[t].price <= order[m].price

CanMatch(t) ==
  /\ Remaining(t) > 0
  /\ HasBest(OppositeLevels(t))
  /\ Crosses(t, BestOrder(OppositeLevels(t)))

TakeBestOff(t) ==
  LET opp == Opposite(order[t].side)
  IN  /\ book' = [book EXCEPT ![opp] = DequeueBest(@)]
      /\ index' = index \ {BestOrder(book[opp])}

SkipOwnInPlace(t) ==                     \* mutated form: not dequeued
  LET m == BestOrder(OppositeLevels(t))
  IN  /\ pc[t] = "match"
      /\ CanMatch(t)
      /\ order[t].user = order[m].user
      /\ requeued' = requeued \cup {m}
      /\ UNCHANGED <<order, bookVars, mu, pc, skipped, trades, feedVars, rested>>

\* Self-trade prevention: the taker's own order is taken off for now.
SkipOwn(t) ==
  LET m == BestOrder(OppositeLevels(t))
  IN  /\ pc[t] = "match"
      /\ CanMatch(t)
      /\ order[t].user = order[m].user
      /\ TakeBestOff(t)
      /\ skipped' = Append(skipped, m)
      /\ requeued' = requeued \cup {m}
      /\ UNCHANGED <<order, mu, pc, trades, feedVars, rested>>

Smaller(a, b) == IF a <= b THEN a ELSE b

MatchQtyOfTaker(t, m) == Remaining(t)    \* mutated form: no minimum

MatchQty(t, m) == Smaller(Remaining(t), Remaining(m))

MakerStatusLagging(m, qty) ==            \* mutated form: remaining before the fill
  IF Remaining(m) <= 0 THEN "filled" ELSE "partially_filled"

MakerStatus(m, qty) == IF Remaining(m) - qty <= 0 THEN "filled"
                       ELSE "partially_filled"

\* One trade with the best opposing order, at its price.
Execute(t) ==
  LET m   == BestOrder(OppositeLevels(t))
      qty == MatchQty(t, m)
      tr  == [maker |-> m, taker |-> t, price |-> order[m].price, qty |-> qty]
  IN  /\ pc[t] = "match"
      /\ CanMatch(t)
      /\ order[t].user # order[m].user
      /\ order' = [order EXCEPT ![t].filled = @ + qty,
                                ![m].filled = @ + qty,
                                ![m].status = MakerStatus(m, qty)]
      /\ IF MakerStatus(m, qty) = "filled" THEN TakeBestOff(t)
                                           ELSE UNCHANGED bookVars
      /\ trades' = Append(trades, tr)
      /\ outbox' = [outbox EXCEPT ![t] =
                      Append(@, [type |-> "trade", trade |-> tr])]
      /\ UNCHANGED <<mu, pc, skipped, feed, history>>

\* The loop ends: nothing left to fill, nothing to match, or no cross.
StopMatching(t) ==
  /\ pc[t] = "match"
  /\ ~CanMatch(t)
  /\ pc' = [pc EXCEPT ![t] = "readd"]
  /\ UNCHANGED <<order, bookVars, mu, skipped, trades, feedVars, history>>

\* addOrderUnlocked: into both maps and to the back of its level.
PutOnBook(o) ==
  /\ book' = [book EXCEPT ![order[o].side] =
                AddOrder(order[o].side, @, order[o].price, o)]
  /\ index' = index \cup {o}

ReAddNone(t) ==                          \* mutated form: skipped orders dropped
  /\ pc[t] = "readd"
  /\ skipped # <<>>
  /\ skipped' = Tail(skipped)
  /\ UNCHANGED <<order, bookVars, mu, pc, trades, feedVars, history>>

\* The loop that puts the skipped orders back, one per step.
ReAdd(t) ==
  /\ pc[t] = "readd"
  /\ skipped # <<>>
  /\ PutOnBook(Head(skipped))
  /\ skipped' = Tail(skipped)
  /\ UNCHANGED <<order, mu, pc, trades, feedVars, history>>

-----------------------------------------------------------------------------
(* The rest of PlaceOrder.                                                 *)

EmitNext(events) == IF events = <<>> \/ Subscribers = {} THEN "done" ELSE "emit"

\* Remaining quantity: the order rests, and ob.mu is released.
Rest(t) ==
  /\ pc[t] = "readd"
  /\ skipped = <<>>
  /\ Remaining(t) > 0
  /\ order' = [order EXCEPT ![t].status =
                 IF order[t].filled > 0 THEN "partially_filled" ELSE @]
  /\ PutOnBook(t)
  /\ mu' = NoOne
  /\ outbox' = [outbox EXCEPT ![t] =
                  Append(@, [type |-> "book_update", by |-> t])]
  /\ pc' = [pc EXCEPT ![t] = EmitNext(outbox'[t])]
  /\ rested' = Append(rested, t)
  /\ UNCHANGED <<skipped, trades, feed, requeued>>

\* Nothing remains: the order is filled, and ob.mu is released.
Complete(t) ==
  /\ pc[t] = "readd"
  /\ skipped = <<>>
  /\ Remaining(t) <= 0
  /\ order' = [order EXCEPT ![t].status = "filled"]
  /\ mu' = NoOne
  /\ pc' = [pc EXCEPT ![t] = EmitNext(outbox[t])]
  /\ UNCHANGED <<bookVars, skipped, trades, feedVars, history>>

EmitNewestFirst(t) ==                    \* mutated form: from the other end
  /\ pc[t] = "emit"
  /\ feed' = [s \in Subscribers |->
                IF Len(feed[s]) < FeedCap
                THEN Append(feed[s], Last(outbox[t])) ELSE feed[s]]
  /\ outbox' = [outbox EXCEPT ![t] = Front(@)]
  /\ pc' = [pc EXCEPT ![t] = EmitNext(outbox'[t])]
  /\ UNCHANGED <<order, bookVars, mu, skipped, trades, history>>

\* emit: a full channel drops the event.
Emit(t) ==
  /\ pc[t] = "emit"
  /\ feed' = [s \in Subscribers |->
                IF Len(feed[s]) < FeedCap
                THEN Append(feed[s], Head(outbox[t])) ELSE feed[s]]
  /\ outbox' = [outbox EXCEPT ![t] = Tail(@)]
  /\ pc' = [pc EXCEPT ![t] = EmitNext(outbox'[t])]
  /\ UNCHANGED <<order, bookVars, mu, skipped, trades, history>>

\* The order leaves the maps and its level.  The status is written after the
\* unlock; no engine step can reach an order that has left the book.  An
\* unknown order is an error that changes nothing.
TakeOff(o) ==
  /\ o \in index
  /\ LET side  == order[o].side
         found == o \in LevelIds(book[side])
     IN  /\ index' = index \ {o}
         /\ book' = IF found THEN [book EXCEPT ![side] = RemoveOrder(@, o)]
                    ELSE book
         /\ order' = IF found THEN [order EXCEPT ![o].status = "cancelled"]
                     ELSE order
  /\ UNCHANGED <<mu, pc, skipped, trades, feedVars, history>>

CancelUnlocked(o) == TakeOff(o)          \* mutated form: without the mutex

\* CancelOrder: waits for ob.mu, so it is one step while the mutex is free.
Cancel(o) == mu = NoOne /\ TakeOff(o)

-----------------------------------------------------------------------------
(* Reading the book, under the read lock of the mutex.                     *)

\* The book is there from the first call that got past getOrCreateOrderbook.
HasOrderbook == \E o \in DOMAIN order : pc[o] # "lock"

\* The sum of f[x] over the elements x of a finite set S.
SumOf(f, S) == MapThenSumSet(LAMBDA x : f[x], S)

totalQty(q) == SumOf([j \in 1..Len(q) |-> Remaining(q[j])], 1..Len(q))

\* A level as readers see it: what remains of its orders, and their number.
PriceLevel(level) ==
  [price    |-> level.price,
   quantity |-> totalQty(level.queue),
   count    |-> Len(level.queue)]

\* The first n levels of a side.
aggregateLevels(levels, n) == [i \in 1..Smaller(n, Len(levels)) |-> PriceLevel(levels[i])]

GetOrderbookDepth(n) ==
  [s \in Sides |-> IF HasOrderbook THEN aggregateLevels(book[s], n) ELSE <<>>]

-----------------------------------------------------------------------------

\* A subscriber takes an event off its channel.
Receive(s) ==
  /\ feed[s] # <<>>
  /\ feed' = [feed EXCEPT ![s] = Tail(@)]
  /\ UNCHANGED <<order, bookVars, mu, pc, skipped, trades, outbox, history>>

-----------------------------------------------------------------------------

HolderStep(t) == \/ SkipOwn(t) \/ Execute(t) \/ StopMatching(t)
                 \/ ReAdd(t) \/ Rest(t) \/ Complete(t)

\* Prices and quantities just outside the accepted ranges are requested too.
Requests == [user : Users, side : Sides,
             price : (MinPrice - 1)..(MaxPrice + 1), qty : 0..MaxQty]

Next ==
  \/ \E o \in Orders :
       \/ \E r \in Requests : Submit(o, r.user, r.side, r.price, r.qty)
       \/ Acquire(o)
       \/ HolderStep(o)
       \/ Emit(o)
       \/ Cancel(o)
  \/ \E s \in Subscribers : Receive(s)

Spec == Init /\ [][Next]_vars

\* A running goroutine keeps running, and sync.RWMutex hands the lock to a
\* waiting writer sooner or later (its starvation mode).  Callers, cancels and
\* subscribers owe nothing.
FairSpec ==
  /\ Spec
  /\ \A o \in Orders : /\ WF_vars(HolderStep(o))
                       /\ WF_vars(Emit(o))
                       /\ SF_vars(Acquire(o))

-----------------------------------------------------------------------------
(* Properties                                                              *)

\* Every variable has the shape its Go counterpart has.
TypeOK ==
  /\ DOMAIN order \subseteq Orders /\ order \in [DOMAIN order -> Order]
  /\ book \in [Sides -> Seq(LevelType(DOMAIN order, Prices))]
  /\ index \subseteq DOMAIN order
  /\ mu \in DOMAIN order \cup {NoOne}
  /\ pc \in [Orders -> {"idle", "lock", "match", "readd", "emit", "done"}]
  /\ skipped \in Seq(DOMAIN order)
  /\ trades \in Seq(Trade)
  /\ outbox \in [Orders -> Seq(Event)]
  /\ feed \in [Subscribers -> Seq(Event)]
  /\ rested \in Seq(DOMAIN order)
  /\ requeued \subseteq DOMAIN order

\* The slices stay sorted best price first with no empty and no duplicate
\* level, and an order rests only on its own side at its own price: what
\* sort.Search and bids[0] / asks[0] rely on (orderbook.go:68-115).
LevelsWellFormed ==
  \A s \in Sides : LET levels == book[s] IN
    /\ \A i, k \in 1..Len(levels) :
         i < k => Better(s, levels[i].price, levels[k].price)
    /\ \A i \in 1..Len(levels) :
         /\ levels[i].queue # <<>>
         /\ \A o \in QueueIds(levels[i].queue) :
              order[o].side = s /\ order[o].price = levels[i].price

\* orderSide and orderMap hold exactly the orders in the queues, so that a
\* cancel finds what the maps promise ("Should not reach here if orderSide
\* map is consistent", orderbook.go:150).
IndexMatchesBook == index = BookIds

\* What is found at one place is found at the other: queues that are sorted,
\* never empty and of one side and price, and maps that know what is in them.
BookWellFormed == LevelsWellFormed /\ IndexMatchesBook

\* The placed orders that have quantity left and were not cancelled.
OpenOrders ==
  {o \in DOMAIN order : /\ pc[o] \in {"emit", "done"}
                        /\ Remaining(o) > 0
                        /\ order[o].status # "cancelled"}

\* With the mutex free, the book is exactly the open orders: an order that is
\* skipped, partly filled or cancelled around others is neither lost nor left
\* behind.
BookIsTheOpenOrders == mu = NoOne => BookIds = OpenOrders

\* Whoever reads the book is told the best n prices of open orders, best
\* first, and at each price how many there are and what remains of them
\* (orderbook.go:201-235, registry.go:98-135).
DepthIsTheOpenOrders ==
  mu = NoOne =>
    \A s \in Sides, n \in 1..2 :
      LET depth  == GetOrderbookDepth(n)[s]
          open   == {o \in OpenOrders : order[o].side = s}
          prices == {order[o].price : o \in open}
          At(p)  == {o \in open : order[o].price = p}
      IN  /\ Len(depth) = Smaller(n, Cardinality(prices))
          /\ \A i \in DOMAIN depth : LET p == depth[i].price IN
               /\ p \in prices
               /\ Cardinality({q \in prices : Better(s, q, p)}) = i - 1
               /\ depth[i].count = Cardinality(At(p))
               /\ depth[i].quantity = SumOf([o \in At(p) |-> Remaining(o)], At(p))

\* With the mutex free, a bid and an ask that cross belong to one user: all
\* other crossing orders have been matched (engine.go:146-168).
UncrossedExceptOwn ==
  mu = NoOne =>
    \A b \in LevelIds(book["buy"]), a \in LevelIds(book["sell"]) :
      order[b].price >= order[a].price => order[b].user = order[a].user

\* An order whose call has returned and that was not cancelled says how much of
\* it is filled (engine.go:93-103, 204-218).
StatusTellsTheFill ==
  \A o \in DOMAIN order :
    (pc[o] \in {"emit", "done"} /\ order[o].status # "cancelled") =>
      order[o].status = IF order[o].filled = order[o].qty THEN "filled"
                        ELSE IF order[o].filled > 0 THEN "partially_filled"
                        ELSE "open"

\* Whenever the mutex is free, the book is the open orders, nobody on it could
\* trade with anybody else, and orders say what became of them
\* (engine.go:81-105, 223-228).
BookAtRest == BookIsTheOpenOrders /\ UncrossedExceptOwn /\ StatusTellsTheFill

\* What trade tr moved of order o.
Part(tr, o) == IF o \in {tr.maker, tr.taker} THEN tr.qty ELSE 0

FilledBy(o) == SumOf([i \in 1..Len(trades) |-> Part(trades[i], o)], 1..Len(trades))

\* However many takers meet an order, and in whatever order they get the
\* mutex, it is never filled beyond its quantity (engine.go:182-201).
NeverOverfilled == \A o \in DOMAIN order : order[o].filled <= order[o].qty

\* An order's filled quantity is the sum of its trades (engine.go:171-220).
FillsAreTheTrades == \A o \in DOMAIN order : order[o].filled = FilledBy(o)

\* Quantities add up: fills are what the trades moved, and what readers are
\* told of the book is what remains of its orders.
QuantitiesAddUp == FillsAreTheTrades /\ DepthIsTheOpenOrders

\* A trade moves something, is between two users on opposite sides, and its
\* price is one neither side's limit excludes (engine.go:155-190).
RespectsLimits(tr) ==
  LET m == order[tr.maker]
      t == order[tr.taker]
  IN  /\ tr.qty > 0 /\ m.user # t.user /\ m.side # t.side
      /\ IF t.side = "buy" THEN m.price <= tr.price /\ tr.price <= t.price
                           ELSE t.price <= tr.price /\ tr.price <= m.price

\* Price-time priority: of the resting orders of other users than the taker, a
\* trade consumes one with the best price, and at that price the first in the
\* queue, and never at a price that a limit excludes (engine.go:143-190).
PriceTimePriority ==
  [][trades' # trades =>
      LET tr    == trades'[Len(trades')]
          s     == order[tr.maker].side
          other == {o \in LevelIds(book[s]) : order[o].user # order[tr.taker].user}
      IN  /\ RespectsLimits(tr)
          /\ tr.maker \in other
          /\ \A o \in other \ {tr.maker} :
               \/ Better(s, order[tr.maker].price, order[o].price)
               \/ /\ order[o].price = order[tr.maker].price
                  /\ Ahead(QueueAt(book[s], order[o].price), tr.maker, o)]_vars

RestedAt(o) == CHOOSE i \in 1..Len(rested) : rested[i] = o

\* Two orders at one price stand in the queue in the order in which they came
\* to rest.  ("Within the same price level, orders follow FIFO ordering",
\* orderbook.go:26.)
QueuesAreFIFO ==
  \A s \in Sides : \A i \in 1..Len(book[s]) :
    LET q == book[s][i].queue
    IN  \A j, k \in 1..Len(q) : j < k => RestedAt(q[j]) < RestedAt(q[k])

\* Only an order that self-trade prevention put back can have lost its place
\* to a later one (engine.go:163-165, 223-225).
OnlySkippedLosePlace ==
  \A s \in Sides : \A i \in 1..Len(book[s]) :
    LET q == book[s][i].queue
    IN  \A j, k \in 1..Len(q) :
          (j < k /\ RestedAt(q[k]) < RestedAt(q[j])) => q[k] \in requeued

Made(tr) == \E m \in 1..Len(trades) : trades[m] = tr

MadeBefore(a, b) ==
  \A m, n \in 1..Len(trades) : trades[m] = a /\ trades[n] = b => m < n

OfOneTaker(d, e) == /\ d.type = "trade" /\ e.type = "trade"
                    /\ d.trade.taker = e.trade.taker

\* What a subscriber's channel holds of one taker's trades are trades that were
\* made, none of them twice, in the order they were made, whatever was dropped
\* or interleaved with other takers' events (engine.go:107-114, 292-303).
FeedKeepsTakerOrder ==
  \A s \in Subscribers :
    /\ \A i \in 1..Len(feed[s]) : feed[s][i].type = "trade" => Made(feed[s][i].trade)
    /\ \A i, k \in 1..Len(feed[s]) :
         i < k /\ OfOneTaker(feed[s][i], feed[s][k])
           => MadeBefore(feed[s][i].trade, feed[s][k].trade)

\* Every PlaceOrder call gets the mutex, leaves the matching loop, whatever it
\* skips, and returns.
PlaceOrderReturns == \A o \in Orders : pc[o] = "lock" ~> pc[o] = "done"

\* The book read as one queue per side and price: every step of the engine is
\* a join at the back, a service of the front of the best price, the
\* withdrawal of the order that is marked cancelled, or nothing.
PB == INSTANCE PriceBook
        WITH queue <- [s \in Sides |-> [p \in Prices |-> QueueAt(book[s], p)]],
             withdrawn <- {o \in DOMAIN order : order[o].status = "cancelled"}

ImplementsPriceBook == PB!Spec

=============================================================================
