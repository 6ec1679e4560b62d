\* Two groups share the counter of one client.
CONSTANTS
  Clients = {c1}
  Users = {u1}
  Requests = {r1, r2}
  UsedRoutes = {"verify", "place_order", "create_market"}
  Groups <- TwoGroups
  Limit <- OneAndTwo
  Window = 2
  CountCap = 3
  MaxFaults = 0
  MaxRestarts = 0
SPECIFICATION Spec
PROPERTIES
  OwnLimit
