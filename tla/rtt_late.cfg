\* An answer may come when its slot has been reused.
SPECIFICATION Spec
CONSTANTS
  max_length = 2
  target_rtt = 1
  None = None
  Frames = 3
  MaxTime = 4
  MaxCopies = 1
  MaxLag = 2
INVARIANTS
  NoPanic
