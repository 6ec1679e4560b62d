\* Two overlapping calls, no failures: the taker's status written from the shared order.
CONSTANTS
  alice = alice
  bob = bob
  yes = yes
  no = no
  Users = {alice, bob}
  Outcomes = {yes, no}
  Calls = {c1, c2, c3}
  Unit = 3
  InitialBalance = 10
  Endowed <- TwoEach
  Requests <- OverlapRequests
  MintSizes = {1}
  Kinds = {"place"}
  MaxInFlight = 2
  MaxFaults = 0
  MaxCrashes = 0
SPECIFICATION Spec
SYMMETRY Symmetry
CHECK_DEADLOCK FALSE
INVARIANTS
  FilledWithinQuantity
