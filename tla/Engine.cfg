SPECIFICATION Spec
CONSTANTS
  p1 = p1
  Producers = {p1}
  MaxPosts = 2
  MaxLocal = 1
  MaxIo = 0
  MaxStops = 1
  MaxRuns = 2
  Budget = 2
  CallbacksRaise = FALSE
  HandlerRaises = FALSE
  FinishTimesOut = FALSE
INVARIANT Conserved RunStateSound
PROPERTY ThreadsafeNeverOvertakes ImplementsService
CHECK_DEADLOCK FALSE
