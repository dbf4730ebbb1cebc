\* One poll of a video and a stream that has no versions.
SPECIFICATION Spec
CONSTANTS
  bitrates_bps <- MCbitrates_bps
  versions <- MCversions
  slots = 2
  initial_version = 0
  Missing = Missing
  None = None
  NoValue = NoValue
  Lengths = {2048, 2049}
  BUF_LEN = 2048
  calc_rtt = {"video"}
  Streams = {"video", "cloud"}
  kind <- MCkind
  start_offset = 1
  Names = {"video"}
  VersionNames = {"video"}
  VersionIndices = {0, 1}
PROPERTIES
  StatisticsComplete
CHECK_DEADLOCK FALSE
