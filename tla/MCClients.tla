------------------------------ MODULE MCClients ------------------------------
(* Calls are interchangeable.  A call that only reads is explored alone: it *)
(* changes nothing for another call, and what others do to the order and    *)
(* the market between any two of its steps is Elsewhere.                    *)
EXTENDS Clients, TLC

Symmetry == Permutations(Calls)

Busy == {c \in Calls : call[c].stage # "idle"}
Explored == (\E c \in Busy : call[c].op \in Reads) => Cardinality(Busy) = 1
=============================================================================
