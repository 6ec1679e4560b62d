------------------------------ MODULE MCMarkets ------------------------------
EXTENDS Markets, TLC

Symmetry == Permutations(Calls)

=============================================================================
