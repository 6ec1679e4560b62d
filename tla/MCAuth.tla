-------------------------------- MODULE MCAuth --------------------------------
EXTENDS Auth, TLC

Symmetry == Permutations(Calls) \cup Permutations(Nonces) \cup Permutations(Wallets)

=============================================================================
