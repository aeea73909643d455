SPECIFICATION Spec
CONSTANTS
  p1 = p1
  p2 = p2
  Producers = {p1, p2}
  MaxPosts = 1
  MaxLocal = 0
  MaxIo = 0
  MaxStops = 1
  MaxRuns = 2
  Budget = 2
  CallbacksRaise = FALSE
  HandlerRaises = TRUE
  FinishTimesOut = TRUE
SYMMETRY ProducerSymmetry
INVARIANT NeverSleepsOnWork WakeInvariant GateSound
CHECK_DEADLOCK FALSE
