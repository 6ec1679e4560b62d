----------------------------- MODULE MCSettlement -----------------------------
EXTENDS Settlement, TLC

CONSTANTS alice, bob, yes, no

Order(u, k, s, p, q) == [user |-> u, outcome |-> k, side |-> s, price |-> p, qty |-> q]

OneEach == [u \in Users |-> 1]

\* An ask and a bid on the outcome that may win, an ask on the other one.
MarketRequests == {Order(alice, yes, "sell", 1, 1), Order(bob, yes, "buy", 2, 1),
                   Order(bob, no, "sell", 2, 1)}

SellRequest == {Order(alice, yes, "sell", 1, 1)}

Symmetry == Permutations(Calls)

=============================================================================
