\* Two resolutions of one market at the same time.
CONSTANTS
  alice = alice
  bob = bob
  yes = yes
  no = no
  Users = {alice, bob}
  Outcomes = {yes, no}
  Calls = {c1, c2, c3}
  Unit = 3
  InitialBalance = 6
  Endowed <- OneEach
  Requests <- SellRequest
  MintSizes = {1}
  Kinds = {"status", "resolve"}
  MaxInFlight = 2
  MaxFaults = 0
  MaxCrashes = 0
  LateOrders = FALSE
SPECIFICATION SSpec
SYMMETRY Symmetry
CHECK_DEADLOCK FALSE
INVARIANTS
  PaidWithinCollateral
