-------------------------- MODULE MCTradingService --------------------------
EXTENDS TradingService, TLC

CONSTANTS alice, bob, yes, no

Order(u, k, s, p, q) == [user |-> u, outcome |-> k, side |-> s, price |-> p, qty |-> q]

\* Both users start with two complete sets each, or none.
TwoEach == [u \in Users |-> 2]
Symmetry == Permutations(Calls)

NoSets  == [u \in Users |-> 0]

\* Bids and asks of both users around one price, one and two units.
CrossingRequests ==
  {Order(alice, yes, "sell", 1, 2), Order(alice, yes, "buy", 1, 1),
   Order(bob, yes, "buy", 2, 2), Order(bob, yes, "buy", 2, 1),
   Order(bob, yes, "sell", 2, 1)}

\* A resting two-unit ask, and takers that may meet it together.
OverlapRequests ==
  {Order(alice, yes, "sell", 1, 2), Order(bob, yes, "buy", 1, 1),
   Order(bob, yes, "buy", 2, 2), Order(alice, yes, "sell", 1, 1)}

\* An ask, and a bid by a user who may mint at the same time: each of the two
\* calls writes a row that the other writes later.
CyclicRequests == {Order(bob, yes, "sell", 1, 1), Order(alice, yes, "buy", 1, 1)}

\* Bids only.
BuyRequests == {Order(alice, yes, "buy", 1, 1), Order(bob, yes, "buy", 2, 1)}

=============================================================================
