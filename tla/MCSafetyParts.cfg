SPECIFICATION PartsSpec
CONSTANTS
  Slots = {1, 2, 3, 4}
  Arity = 2
  MaxTime = 3
  Regs = 5
  NoEntry = NoEntry
  KqHandles = {h1}
  KqFds = {1, 2}
  KqRemotes = {r1, r2}
  KqGenerations = 3
  KqInterests = {{"read"}, {"read", "write"}}
  KqBudgets <- PartsBudgets
  Wraps = {w1, w2}
  NetFds = {1, 2}
  Drivers = {"completion", "readiness"}
  Addresses = 2
  NoWrap = NoWrap
  NoFd = 0
  Jobs = {j1, j2}
  FileFds = {1, 2}
  FileFd = 1
  OffsetMax = 2
  Offsets = {0, 2}
  Lengths = {0, 2}
  SizeMax = 1
  Interrupts = 1
  Makers = {m1, m2}
  Other = o
  Depth = 2
  OtherBound = 1
  CopyBytes = 3
  CopyBuffer = 2
  CopyCalls = 2
  CopyRoutes <- PartsRoutes
  WrapBuffer = 2
  WrapBytes = 4
  MaxPushed = 4
  MaxEnqueued = 4
  MaxCtx = 6
  QueueBound = 2
  CallBound = 3
  Caching = TRUE
  LoopJobs = {l1, l2}
  Gens = {g1, g2}
  PoolThreads = 1
  ByteBound = 8
  SegmentSizes = {1, 2, 3}
  MaxSegments = 3
  VectorMax = 2
  CoalesceMin = 1
  CoalesceMax = 2
  JoinLimit = 3
  PoolSlots = 2
  MinCapacity = 1
  PrWrites = 3
  Streams <- PartsStreams
  SepChoices <- PartsSeparators
  ReadSizes = {1, 2}
  StreamLimit = 2
  FeedMax = 3
  Drainers = {d1, d2}
  ArLimit = 1
  ArChunk = 2
  ArBytes = 5
  ArDrainers = {d1, d2}
  RegTransports = {t1, t2, t3}
  Fds = {0, 1}
  NoTransport = NoTransport
  LateClose = FALSE
INVARIANTS
  RegistrationsSafe
  FilesSafe
  PipesSafe
  ReadyMergeSafe
  LoopRulesSafe
  StreamReadersSafe
  WriteBuffersKept
PROPERTIES
  HeapSteps
CHECK_DEADLOCK FALSE
