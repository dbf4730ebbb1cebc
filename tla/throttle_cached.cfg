\* max_error is one packet: decisions are made on cached measurements.
SPECIFICATION FairSpec
CONSTANTS
  MAX_PAYLOAD_LEN = 2
  window_size = 3
  CYCLED_RATIO = 1
  MAX_ERR_DIV = 3
  UDP_MAX_LENGTH = 3
  MaxAge = 4
  Loops = 3
  FrameSizes = {3}
  Throttles = {0, 2}
  MaxAccError = 3
INVARIANTS
  StaleAdmissionsBounded
PROPERTIES
  HeadMoves
