\* A call of Stop while the hub is busy.
CONSTANTS
  Clients = {a}
  Anonymous = {}
  MarketTopics = {m}
  UserTopics = {}
  NoCommand = NoCommand
  QueueCap = 1
  CommandCap = 1
  SendCap = 1
  MaxRequests = 1
  MaxBroadcasts = 1
  MaxStops = 1
SPECIFICATION FairSpec
CHECK_DEADLOCK FALSE
INVARIANTS
  TypeOK
PROPERTIES
  StopEndsRun
