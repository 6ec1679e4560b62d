\* One call at a time, one failing statement, no orders after the close.
CONSTANTS
  alice = alice
  bob = bob
  yes = yes
  no = no
  Users = {alice, bob}
  Outcomes = {yes, no}
  Calls = {c1, c2, c3, c4, c5}
  Unit = 3
  InitialBalance = 6
  Endowed <- OneEach
  Requests <- MarketRequests
  MintSizes = {1}
  Kinds = {"place", "status", "resolve"}
  MaxInFlight = 1
  MaxFaults = 1
  MaxCrashes = 0
  LateOrders = FALSE
SPECIFICATION SSpec
SYMMETRY Symmetry
CHECK_DEADLOCK FALSE
INVARIANTS
  ResolutionPaysCollateral
  ResolvedIsSwept

