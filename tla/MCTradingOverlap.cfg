\* Two calls at a time, one of them failing at any statement.
CONSTANTS
  alice = alice
  bob = bob
  yes = yes
  no = no
  Users = {alice, bob}
  Outcomes = {yes, no}
  Calls = {c1, c2, c3}
  Unit = 3
  InitialBalance = 10
  Endowed <- TwoEach
  Requests <- OverlapRequests
  MintSizes = {1}
  Kinds = {"place", "cancel", "mint"}
  MaxInFlight = 2
  MaxFaults = 1
  MaxCrashes = 0
SPECIFICATION FairSpec
CHECK_DEADLOCK FALSE
INVARIANTS
  TypeOK
  TradesAreTheEngines
PROPERTIES
  CallsReturn
