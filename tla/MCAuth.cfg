\* Four calls, two nonces, two wallets, one failing command.
CONSTANTS
  Calls = {c1, c2, c3, c4}
  Wallets = {w1, w2}
  Nonces = {n1, n2}
  Prefixes = {p1}
  NonceTTL = 1
  TokenTTL = 0
  MaxTime = 1
  MaxFaults = 1
SPECIFICATION Spec
SYMMETRY Symmetry
CHECK_DEADLOCK FALSE
INVARIANTS
  NonceServesOnce
  RevokedIsRefused
PROPERTIES
  ImplementsAccounts
