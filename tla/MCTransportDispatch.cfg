SPECIFICATION TransportSpec
CONSTANTS
  MaxDrivers = 3
  Priorities <- MCPriorities
  Floor <- MCFloor
  Retries = {1}
  Lengths = {0, 4, 5}
  FrameSize = 6
  ChunkSize = 2
  IndexRange = 2
INVARIANTS
  TransportTypeOK
  BestFirst
  TriesSpent
  SentWhole
PROPERTIES
  DispatchReturns
