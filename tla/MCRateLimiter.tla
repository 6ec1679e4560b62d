---------------------------- MODULE MCRateLimiter ----------------------------
EXTENDS RateLimiter, TLC

\* Two groups with limits of their own; the admin routes have none.
TwoGroups == {"auth", "trading"}
OneAndTwo == [g \in TwoGroups |-> IF g = "auth" THEN 1 ELSE 2]

Symmetry == Permutations(Requests)

=============================================================================
