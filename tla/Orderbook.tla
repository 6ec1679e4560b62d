------------------------------ MODULE Orderbook ------------------------------
(***************************************************************************)
(* The data structure of one outcome's book                                *)
(* (services/trading-svc/internal/matching/orderbook.go, order_queue.go):  *)
(* each side is a slice of price levels, best price first, and a level is  *)
(* a price with the FIFO queue of the orders resting at it.  The operators *)
(* are the code's operations on one such slice; they hold no state.        *)
(***************************************************************************)
EXTENDS Integers, Sequences, SequencesExt

Sides == {"buy", "sell"}

Opposite(side) == IF side = "buy" THEN "sell" ELSE "buy"

\* p is a strictly better price than q on that side of the book.
Better(side, p, q) == IF side = "buy" THEN p > q ELSE p < q

LevelType(Id, Price) == [price : Price, queue : Seq(Id)]

-----------------------------------------------------------------------------
(* OrderQueue: container/list plus an index from order id to element; the  *)
(* index always has exactly the list's elements, so the list stands for    *)
(* both.                                                                   *)

QueueIds(q) == {q[j] : j \in 1..Len(q)}

EnqueueAtFront(q, o) == <<o>> \o q      \* mutated form

Enqueue(q, o) == Append(q, o)

\* Remove from anywhere in the queue: the element the index points to.
QueueRemove(q, o) == RemoveAt(q, CHOOSE j \in 1..Len(q) : q[j] = o)

-----------------------------------------------------------------------------

LevelIds(levels) == UNION {QueueIds(levels[i].queue) : i \in 1..Len(levels)}

SearchLevelReversed(side, levels, p) ==  \* mutated form: wrong comparison
  LET worse == {i \in 1..Len(levels) : Better(Opposite(side), p, levels[i].price)}
  IN  IF worse = {} THEN Len(levels) + 1
      ELSE CHOOSE i \in worse : \A k \in worse : i <= k

\* sort.Search over the slice: the first level whose price is worse than p,
\* or one past the end.
SearchLevel(side, levels, p) ==
  LET worse == {i \in 1..Len(levels) : Better(side, p, levels[i].price)}
  IN  IF worse = {} THEN Len(levels) + 1
      ELSE CHOOSE i \in worse : \A k \in worse : i <= k

AddOrderOffByOne(side, levels, p, o) ==  \* mutated form: looks at idx
  LET idx == SearchLevel(side, levels, p)
  IN  IF idx <= Len(levels) /\ levels[idx].price = p
      THEN [levels EXCEPT ![idx].queue = Enqueue(@, o)]
      ELSE InsertAt(levels, idx, [price |-> p, queue |-> <<o>>])

\* addToBids / addToAsks: join the level that has this price, or open one at
\* the insertion point.
AddOrder(side, levels, p, o) ==
  LET idx == SearchLevel(side, levels, p)
  IN  IF idx > 1 /\ levels[idx - 1].price = p
      THEN [levels EXCEPT ![idx - 1].queue = Enqueue(@, o)]
      ELSE InsertAt(levels, idx, [price |-> p, queue |-> <<o>>])

\* bestBidUnlocked / bestAskUnlocked when the side is not empty.
BestOrder(levels) == Head(levels[1].queue)

DequeueLast(levels) ==                   \* mutated form: wrong end
  LET q == levels[1].queue
  IN  IF Len(q) = 1 THEN Tail(levels)
      ELSE [levels EXCEPT ![1].queue = SubSeq(q, 1, Len(q) - 1)]

\* dequeueBestBidUnlocked / dequeueBestAskUnlocked: drop the front order, and
\* the level with it when that empties the queue.
DequeueBest(levels) ==
  IF Tail(levels[1].queue) = <<>>
  THEN Tail(levels)
  ELSE [levels EXCEPT ![1].queue = Tail(@)]

\* The loop of Orderbook.CancelOrder: the first level whose queue holds the
\* order loses it, and goes when that empties it.
RemoveOrder(levels, o) ==
  LET i    == CHOOSE k \in 1..Len(levels) : o \in QueueIds(levels[k].queue)
      rest == QueueRemove(levels[i].queue, o)
  IN  IF rest = <<>>
      THEN RemoveAt(levels, i)
      ELSE [levels EXCEPT ![i].queue = rest]

\* The queue at price p, which is empty when there is no such level.
QueueAt(levels, p) ==
  LET at == {i \in 1..Len(levels) : levels[i].price = p}
  IN  IF at = {} THEN <<>> ELSE levels[CHOOSE i \in at : TRUE].queue

\* Order a stands before order b in the queue.
Ahead(q, a, b) == \E j, k \in 1..Len(q) : j < k /\ q[j] = a /\ q[k] = b

=============================================================================
