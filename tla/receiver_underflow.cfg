\* A repeated datagram.
SPECIFICATION Spec
CONSTANTS
  None = None
  MAX_PAYLOAD_LEN = 2
  sample_rate = 1
  Frames = 2
  FrameSizes = {1, 3}
  MaxCopies = 2
  MaxRestarts = 0
  MaxLate = 1
  APP_HEADER_LENGTH = 1
  U32 = 100
  U16 = 8
  PONG_PORT_INC = 2
  Ports = {5, 6}
  rx_mode = TRUE
INVARIANTS
  ReportAlwaysDelivered
\* The program ends with its report.
CHECK_DEADLOCK FALSE
