\* Streams with and without a monitor, devices and links.
SPECIFICATION FairSpec
CONSTANTS
  THETA_UNIT = 2
  NoRate = NoRate
  None = None
  Setups <- ExampleSetups
  Queues = {0, 2}
  Rates = {1}
  Reliable = {1}
  MaxNum = 3
  MaxSnapshots = 2
  MaxCount = 4
INVARIANTS
  TypeOK
  OnlySetupPanics
  LastFlagged
  NothingForgotten
PROPERTIES
  KeepsSending
\* A stream that has panicked stops.
CHECK_DEADLOCK FALSE
