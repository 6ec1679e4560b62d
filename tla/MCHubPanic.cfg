\* A subscription processed after the removal of its client.
CONSTANTS
  Clients = {a}
  Anonymous = {}
  MarketTopics = {m}
  UserTopics = {}
  NoCommand = NoCommand
  QueueCap = 1
  CommandCap = 2
  SendCap = 1
  MaxRequests = 1
  MaxBroadcasts = 1
  MaxStops = 0
SPECIFICATION Spec
CHECK_DEADLOCK FALSE
INVARIANTS
  RunsUntilStopped
