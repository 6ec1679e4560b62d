\* Two requests in progress, two groups on one key, one failing command.
CONSTANTS
  Clients = {c1}
  Users = {u1}
  Requests = {r1, r2}
  UsedRoutes = {"verify", "place_order", "create_market"}
  Groups <- TwoGroups
  Limit <- OneAndTwo
  Window = 2
  CountCap = 3
  MaxFaults = 1
  MaxRestarts = 1
SPECIFICATION FairSpec
INVARIANTS
  AtMostTwiceTheLimit
  LastingCounterIsAFault
PROPERTIES
  WindowIsNotProlonged
  CounterEnds
