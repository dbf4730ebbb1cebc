\* A frame of 4 bytes is two full packets and an empty last one.
SPECIFICATION FairSpec
CONSTANTS
  MAX_PAYLOAD_LEN = 2
  window_size = 3
  CYCLED_RATIO = 1
  MAX_ERR_DIV = 3
  UDP_MAX_LENGTH = 3
  MaxAge = 4
  Loops = 3
  FrameSizes = {4}
  Throttles = {0, 2}
  MaxAccError = 3
PROPERTIES
  HeadMoves
