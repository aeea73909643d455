SPECIFICATION Spec
CONSTANTS
  p1 = p1
  Producers = {p1}
  MaxPosts = 0
  MaxLocal = 1
  MaxIo = 0
  MaxStops = 1
  MaxRuns = 2
  Budget = 2
  CallbacksRaise = FALSE
  HandlerRaises = TRUE
  FinishTimesOut = FALSE
INVARIANTS
  TlsClearedBeforeDrop
CHECK_DEADLOCK FALSE
