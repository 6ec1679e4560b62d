\* Two clients, one of them anonymous, and every channel at its limit.
CONSTANTS
  Clients = {a, b}
  Anonymous = {b}
  MarketTopics = {m}
  UserTopics = {u}
  NoCommand = NoCommand
  QueueCap = 1
  CommandCap = 1
  SendCap = 2
  MaxRequests = 1
  MaxBroadcasts = 3
  MaxStops = 1
SPECIFICATION FairSpec
CHECK_DEADLOCK FALSE
INVARIANTS
  OnlyLateCommandsPanic
  GoneIsRemoved
  FeedInOrder
PROPERTIES
  PumpsEnd
