\* Time goes on for two ticks after the stop time.
SPECIFICATION FairSpec
CONSTANTS
  MAX_PAYLOAD_LEN = 2
  window_size = 3
  CYCLED_RATIO = 1
  MAX_ERR_DIV = 100
  UDP_MAX_LENGTH = 3
  MaxAge = 4
  FrameSizes = {0, 3, 5}
  StopTime = 2
  MaxTime = 4
  MaxFrames = 4
INVARIANTS
  TypeOK
  OneLateStep
  NothingHeldBack
PROPERTIES
  ImplementsFrameQueue
  Served
\* A stream that is not fed waits for ever.
CHECK_DEADLOCK FALSE
