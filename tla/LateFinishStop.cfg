SPECIFICATION FairSpec
CONSTANTS
  p1 = p1
  Producers = {p1}
  MaxPosts = 0
  MaxLocal = 0
  MaxIo = 0
  MaxStops = 2
  MaxRuns = 2
  Budget = 2
  CallbacksRaise = FALSE
  HandlerRaises = FALSE
  FinishTimesOut = TRUE
PROPERTIES
  StopEndsRun
CHECK_DEADLOCK FALSE
