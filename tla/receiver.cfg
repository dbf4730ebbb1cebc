\* Datagrams are lost, reordered and repeated, and the sender is restarted.
SPECIFICATION FairSpec
CONSTANTS
  None = None
  MAX_PAYLOAD_LEN = 2
  sample_rate = 1
  Frames = 2
  FrameSizes = {1, 3}
  MaxCopies = 2
  MaxRestarts = 1
  MaxLate = 1
  APP_HEADER_LENGTH = 1
  U32 = 9
  U16 = 8
  PONG_PORT_INC = 2
  Ports = {5, 6}
  rx_mode = TRUE
INVARIANTS
  TypeOK
  AnsweredOnce
  AnsweredWhole
  
  RecordsExact
  ReportExact
PROPERTIES
  ImplementsPongs
  MainEnds
\* The program ends with its report.
CHECK_DEADLOCK FALSE
