SPECIFICATION FairSpec
CONSTANTS
  p1 = p1
  Producers = {p1}
  MaxPosts = 1
  MaxLocal = 0
  MaxIo = 1
  MaxStops = 1
  MaxRuns = 1
  Budget = 2
  CallbacksRaise = TRUE
  HandlerRaises = FALSE
  FinishTimesOut = FALSE
INVARIANT LocalNumbering
PROPERTY EventuallyExecuted StopEndsRun
CHECK_DEADLOCK FALSE
