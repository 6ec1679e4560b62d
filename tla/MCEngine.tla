-------------------------------- MODULE MCEngine --------------------------------
EXTENDS EngineAtomicity, TLC

\* Order ids and users are interchangeable in the safety runs.
Symmetry == Permutations(Orders) \cup Permutations(Users)

=============================================================================
