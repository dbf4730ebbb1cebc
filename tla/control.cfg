\* Requests for every version, one that does not exist, a stream that has no
\* versions and a stream that does not exist.
SPECIFICATION FairSpec
CONSTANTS
  bitrates_bps <- MCbitrates_bps
  versions <- MCversions
  slots = 2
  initial_version = 0
  Missing = Missing
  None = None
  NoValue = NoValue
  Lengths = {2048, 2049}
  BUF_LEN = 2048
  calc_rtt = {"video"}
  Streams = {"video", "cloud"}
  kind <- MCkind
  start_offset = 1
  Names = {"video", "cloud", "nobody"}
  VersionNames = {"video", "cloud"}
  VersionIndices = {1, 2, 3}
INVARIANTS
  TypeOK
  BitrateHonest
  NoIndexPanics
  OnlyBadRequestsPanic
PROPERTIES
  SlotsReplayed
  VersionTakesEffect
CHECK_DEADLOCK FALSE
