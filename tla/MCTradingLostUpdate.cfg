\* Two overlapping calls, no failures: reservations against stale balances.
CONSTANTS
  alice = alice
  bob = bob
  yes = yes
  no = no
  Users = {alice, bob}
  Outcomes = {yes, no}
  Calls = {c1, c2, c3}
  Unit = 3
  InitialBalance = 10
  Endowed <- NoSets
  Requests <- BuyRequests
  MintSizes = {1}
  Kinds = {"place", "cancel"}
  MaxInFlight = 2
  MaxFaults = 0
  MaxCrashes = 0
SPECIFICATION Spec
SYMMETRY Symmetry
CHECK_DEADLOCK FALSE
INVARIANTS
  LockedIsOpenBuys
