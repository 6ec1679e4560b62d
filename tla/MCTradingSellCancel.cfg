\* One call at a time: the cancel of an open sell.
CONSTANTS
  alice = alice
  bob = bob
  yes = yes
  no = no
  Users = {alice, bob}
  Outcomes = {yes, no}
  Calls = {c1, c2, c3}
  Unit = 3
  InitialBalance = 10
  Endowed <- TwoEach
  Requests <- CrossingRequests
  MintSizes = {1}
  Kinds = {"place", "cancel"}
  MaxInFlight = 1
  MaxFaults = 0
  MaxCrashes = 0
SPECIFICATION Spec
SYMMETRY Symmetry
CHECK_DEADLOCK FALSE
INVARIANTS
  TokensConserved
