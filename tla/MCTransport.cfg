SPECIFICATION TransportSpec
CONSTANTS
  ReadCases <- TransportReadCases
  PoolLimit = 3
  ReadLow = 3
  ReadHigh = 4
  EventBudget = 3
  CoalesceLimit = 2
  Transports = {"socket", "pipe"}
  Lengths = {1, 2}
  MaxBytes = 4
  low_water = 0
  high_water = 1
  cap = 3
  SocketFails = TRUE
  PeerEof = TRUE
  PeerSends = 3
  Writes = 3
  SocketRoom = 2
  SessionRoom = 2
  ChunkSize = 1
  PeerReads = "always"
INVARIANTS
  ReadSideSafe
  WriteSideSafe
  ShutdownFollowsData
  CloseKeepsBytes
  TlsSessionSafe
PROPERTIES
  TransportServed
CHECK_DEADLOCK FALSE
