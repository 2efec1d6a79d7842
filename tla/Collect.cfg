SPECIFICATION Spec
CONSTANTS
  Samplers = {di}
  FileSize = 2
  MaxFiles = 2
  SyncEvery = 2
  QueueSize = 1
  MaxSamples = 5
  BusySamples = 1
  MaxClock = 3
  Channels = {udp}
  MaxRequests = 3
  MaxSettings = 2
  MaxFaults = 1
  MaxSessions = 2
  MaxUsers = 3
  MaxOrders = 4
  MaxTroubles = 2
INVARIANTS TypeOK RepliesMatch OwnersProved OutputsKnown PortReceives
PROPERTIES RecordsKept HeartDrops ServersStart
CHECK_DEADLOCK FALSE
