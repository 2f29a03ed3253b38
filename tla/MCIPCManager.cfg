SPECIFICATION FairSpec
CONSTANTS
  broker = broker
  kai = kai
  Other = Other
  Peers <- MCPeers
  Broker = broker
  Limit = 2
  TimeoutLimit = 1
  MaxMessages = 2
  MaxSleepers = 1
  MaxRequests = 1
  MaxTimeouts = 2
CHECK_DEADLOCK FALSE
PROPERTIES
  QueueDrains
  ObserverReturns
  DeadWorkerReplaced
