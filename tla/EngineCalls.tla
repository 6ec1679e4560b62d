----------------------------- MODULE EngineCalls -----------------------------
(***************************************************************************)
(* The matching engine as its caller sees it: PlaceOrder and CancelOrder   *)
(* of one outcome's book as functions of its state.  A book is             *)
(* [side -> levels]; the heap maps an order id to the fields of its        *)
(* domain.Order.  That the goroutines of MatchingEngine behave as if these *)
(* were atomic is checked in EngineAtomicity.                              *)
(***************************************************************************)
EXTENDS Orderbook

EmptyBook == [s \in Sides |-> <<>>]

Unfilled(order) == order.qty - order.filled

WillTrade(taker, maker) ==
  IF taker.side = "buy" THEN taker.price >= maker.price
                        ELSE taker.price <= maker.price

FillWithoutCap(heap, t, m) == Unfilled(heap[t])  \* mutated form

FillQty(heap, t, m) == IF Unfilled(heap[t]) <= Unfilled(heap[m])
                       THEN Unfilled(heap[t]) ELSE Unfilled(heap[m])

\* One iteration of matchOrder's loop for taker t; a fixed point once the
\* loop has ended.  st holds the heap, the opposing levels, the skipped
\* orders and the trades so far.
MatchStep(st, t) ==
  LET m   == BestOrder(st.levels)
      qty == FillQty(st.heap, t, m)
      all == qty >= Unfilled(st.heap[m])
  IN  IF \/ Unfilled(st.heap[t]) = 0
         \/ st.levels = <<>>
         \/ ~WillTrade(st.heap[t], st.heap[m])
      THEN st
      ELSE IF st.heap[t].user = st.heap[m].user
      THEN [st EXCEPT !.levels = DequeueBest(@), !.skipped = Append(@, m)]
      ELSE [st EXCEPT
              !.heap[t].filled = @ + qty,
              !.heap[m].filled = @ + qty,
              !.heap[m].status = IF all THEN "filled" ELSE "partially_filled",
              !.levels = IF all THEN DequeueBest(@) ELSE @,
              !.trades = Append(@, [maker |-> m, taker |-> t, qty |-> qty,
                                    price |-> st.heap[m].price])]

\* Every iteration but the last takes an order off the book, so the loop has
\* ended after as many iterations as there are orders.
MatchLoop(book, heap, t) ==
  LET st0 == [heap |-> heap, levels |-> book[Opposite(heap[t].side)],
              skipped |-> <<>>, trades |-> <<>>]
  IN  FoldLeft(LAMBDA st, o : MatchStep(st, t), st0, SetToSeq(DOMAIN heap))

PutBack(levels, heap, o) == AddOrder(heap[o].side, levels, heap[o].price, o)

\* The loop that puts the skipped orders back.
PutAllBack(levels, heap, q) ==
  FoldLeft(LAMBDA l, o : PutBack(l, heap, o), levels, q)

\* PlaceOrder of t, which is on the heap: match, put the skipped orders back,
\* rest what remains.
PlaceCall(book, heap, t) ==
  LET end    == MatchLoop(book, heap, t)
      side   == heap[t].side
      opp    == PutAllBack(end.levels, heap, end.skipped)
      rests  == Unfilled(end.heap[t]) > 0
      status == IF ~rests THEN "filled"
                ELSE IF end.heap[t].filled > 0 THEN "partially_filled"
                ELSE heap[t].status
  IN  [book   |-> [s \in Sides |->
                     IF s # side THEN opp
                     ELSE IF rests THEN PutBack(book[s], heap, t) ELSE book[s]],
       heap   |-> [end.heap EXCEPT ![t].status = status],
       trades |-> end.trades]

IsOnBook(book, o) == \E s \in Sides : o \in LevelIds(book[s])

\* CancelOrder of an order that is on the book.
CancelCall(book, heap, o) ==
  [book |-> [book EXCEPT ![heap[o].side] = RemoveOrder(@, o)],
   heap |-> [heap EXCEPT ![o].status = "cancelled"]]

\* RestoreOrder for every order of the sequence, without matching.
RestoreCalls(heap, ids) ==
  FoldLeft(LAMBDA b, o : [b EXCEPT ![heap[o].side] = PutBack(@, heap, o)],
           EmptyBook, ids)

=============================================================================
