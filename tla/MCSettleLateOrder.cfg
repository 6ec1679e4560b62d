\* An order placed while the market is being resolved.
CONSTANTS
  alice = alice
  bob = bob
  yes = yes
  no = no
  Users = {alice, bob}
  Outcomes = {yes, no}
  Calls = {c1, c2, c3}
  Unit = 3
  InitialBalance = 6
  Endowed <- OneEach
  Requests <- SellRequest
  MintSizes = {1}
  Kinds = {"place", "status", "resolve"}
  MaxInFlight = 2
  MaxFaults = 0
  MaxCrashes = 0
  LateOrders = TRUE
SPECIFICATION SSpec
SYMMETRY Symmetry
CHECK_DEADLOCK FALSE
INVARIANTS
  ResolvedIsSwept
