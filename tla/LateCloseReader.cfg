SPECIFICATION RegistrySpec
CONSTANTS
  RegTransports = {t1, t2, t3}
  Fds = {0, 1}
  NoTransport = NoTransport
  LateClose = TRUE
INVARIANT ReadersKept
CHECK_DEADLOCK FALSE
