\* One call at a time: a cancelled market.
CONSTANTS
  alice = alice
  bob = bob
  yes = yes
  no = no
  Users = {alice, bob}
  Outcomes = {yes, no}
  Calls = {c1, c2, c3, c4}
  Unit = 3
  InitialBalance = 6
  Endowed <- OneEach
  Requests <- SellRequest
  MintSizes = {1}
  Kinds = {"place", "status"}
  MaxInFlight = 1
  MaxFaults = 0
  MaxCrashes = 0
  LateOrders = FALSE
SPECIFICATION SSpec
SYMMETRY Symmetry
CHECK_DEADLOCK FALSE
INVARIANTS
  CancelledIsUnwound
