------------------------------ MODULE PriceBook ------------------------------
(***************************************************************************)
(* What the book of one outcome promises, without its slices and maps: per *)
(* side and price one FIFO queue.  An order joins the back of the queue of *)
(* its price; orders are consumed from the front of the best price only;   *)
(* an order may be withdrawn from anywhere.                                *)
(***************************************************************************)
EXTENDS Integers, Sequences, SequencesExt

CONSTANTS Orders, MinPrice, MaxPrice

VARIABLES
  queue,      \* side -> price -> waiting orders, first in first out
  withdrawn   \* orders withdrawn by their owners

vars == <<queue, withdrawn>>

Prices == MinPrice..MaxPrice

Sides == {"buy", "sell"}

Best(side) ==
  LET live == {p \in Prices : queue[side][p] # <<>>}
  IN  CHOOSE p \in live :
        \A q \in live : IF side = "buy" THEN p >= q ELSE p <= q

Waiting == {o \in Orders : \E s \in Sides, p \in Prices :
              \E i \in 1..Len(queue[s][p]) : queue[s][p][i] = o}

Init == /\ queue = [s \in Sides |-> [p \in Prices |-> <<>>]]
        /\ withdrawn = {}

Join(s, p, o) ==
  /\ o \notin Waiting \cup withdrawn
  /\ queue' = [queue EXCEPT ![s][p] = Append(@, o)]
  /\ UNCHANGED withdrawn

ServeBest(s) ==
  /\ \E p \in Prices : queue[s][p] # <<>>
  /\ queue' = [queue EXCEPT ![s][Best(s)] = Tail(@)]
  /\ UNCHANGED withdrawn

Withdraw(s, p, o) ==
  /\ \E i \in 1..Len(queue[s][p]) :
       /\ queue[s][p][i] = o
       /\ queue' = [queue EXCEPT ![s][p] = RemoveAt(@, i)]
  /\ withdrawn' = withdrawn \cup {o}

Next == \E s \in Sides :
          \/ ServeBest(s)
          \/ \E p \in Prices, o \in Orders : Join(s, p, o) \/ Withdraw(s, p, o)

Spec == Init /\ [][Next]_vars

=============================================================================
