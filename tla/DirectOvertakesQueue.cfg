SPECIFICATION WriteSpec
CONSTANTS
  Transports = {"socket"}
  Lengths = {1, 2}
  MaxBytes = 4
  low_water = 0
  high_water = 1
  cap = 3
  SocketFails = FALSE
  PeerEof = FALSE
INVARIANT
  WriteOrder
CHECK_DEADLOCK FALSE
