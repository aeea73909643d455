SPECIFICATION RuntimeSpec
CONSTANTS
  Tasks = {t1, t2}
  Tokens = {1}
  Wakers = {w1}
  BatchSize = 2
  WakeBound = 2
  NoTask = NoTask
  Root = Root
  Jobs = {j1, j2, j3, j4}
  limit = 2
  Sleepers = {s1, s2}
  TimerSlots = {1, 2}
  LastTime = 3
  Registrations = 3
  NoReg = NoReg
  MaxInstant = 9
  Periods = {0, 1, 2, 3}
  Behaviors = {"Skip", "CatchUp"}
  MaxTicks = 4
  Handles = {h1}
  RegTokens = {1}
  Backends = {"uring", "mio", "kqueue", "iocp"}
  Arrivals = 3
  MaxRegs = 2
  MixedInterest = FALSE
  NoRegn = NoRegn
  OpIds = {a, b}
  CSlots = {1}
  MaxFds = 2
  OpsBesideListener = 1
  AcceptGens = 2
  Platforms = {"uring", "iocp"}
  NoSlot = NoSlot
INVARIANTS
  ExecutorSafe
  PoolSafe
  SleepersSafe
  DriversSafe
PROPERTIES
  ImplementsTaskService
  RuntimeServed
CHECK_DEADLOCK FALSE
