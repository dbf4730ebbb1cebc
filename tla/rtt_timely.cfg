\* Every frame is answered at most once, before its slot is reused.
SPECIFICATION Spec
CONSTANTS
  max_length = 2
  target_rtt = 1
  None = None
  Frames = 3
  MaxTime = 4
  MaxCopies = 1
  MaxLag = 1
INVARIANTS
  TypeOK
  NoPanic
  OutageChargedOnce
PROPERTIES
  OutageComplete
