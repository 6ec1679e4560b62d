\* One call at a time, with a failing statement and a restart anywhere in it.
CONSTANTS
  alice = alice
  bob = bob
  yes = yes
  no = no
  Users = {alice, bob}
  Outcomes = {yes, no}
  Calls = {c1, c2, c3, c4}
  Unit = 3
  InitialBalance = 10
  Endowed <- TwoEach
  Requests <- CrossingRequests
  MintSizes = {1}
  Kinds = {"place", "cancel", "cancelall", "mint"}
  MaxInFlight = 1
  MaxFaults = 1
  MaxCrashes = 1
SPECIFICATION Spec
SYMMETRY Symmetry
CHECK_DEADLOCK FALSE
INVARIANTS
  RowsAgree
  CollateralKept
  BookMirrorsRows
PROPERTIES
  CancelledIsFinal
