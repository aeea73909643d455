SPECIFICATION TimersFairSpec
CONSTANTS
  r1 = r1
  Remotes = {r1}
  MaxTimers = 3
  MaxTime = 1
  Delays = {0, 1}
  MaxRuns = 2
  CompactFloor = 1
INVARIANT TimersSafe
PROPERTY CancelledNeverRuns DeadlineOrder TimersFire
CHECK_DEADLOCK FALSE
