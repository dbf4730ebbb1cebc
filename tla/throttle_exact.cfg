\* max_error is 0 from the start: every decision measures anew.
SPECIFICATION Spec
CONSTANTS
  MAX_PAYLOAD_LEN = 2
  window_size = 3
  CYCLED_RATIO = 1
  MAX_ERR_DIV = 100
  UDP_MAX_LENGTH = 3
  MaxAge = 4
  Loops = 4
  FrameSizes = {0, 3, 5}
  Throttles = {0, 2}
  MaxAccError = 4
INVARIANTS
  TypeOK
  FrameCountExact
  PacketsInOrder
  SumBytesExact
PROPERTIES
  RateRespected
  ImplementsFrameQueue
