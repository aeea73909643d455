SPECIFICATION LoopSpec
CONSTANTS
  MaxRegs = 3
  NoReg = 0
  CommandBound = 2
  Streams = {s1, s2}
  PipeRoom = 1
  SignalBound = 3
  EntryBound = 2
  AddBound = 3
  RaiseBound = 3
  Kids = {k1, k2}
  EofKids = {k1}
  PipeChoices = {{}, {2}, {0, 1}}
  ChunksPerPipe = 1
  Procs = {p1, p2}
  Configs <- LoopConfigs
  Receivers = {r1, r2}
  Sender = s
  SockItems = 2
  SendLength = 3
  SendTurn = 2
  Clients = {c1, c2}
  ConnFds = {1, 2}
  Attempts = 2
  Addresses = 2
  Paths = {"fast", "native"}
  SendBound = 4
  ArriveBound = 2
  HighWater = 2
  LowWater = 1
  Conns = {c1, c2}
  TlsLimit = 1
  CountWidth = 8
INVARIANTS
  DescriptorsSafe
  SignalsSafe
  ChildrenSafe
  SocketCallsSafe
  ServersSafe
PROPERTIES
  LoopServed
CHECK_DEADLOCK FALSE
