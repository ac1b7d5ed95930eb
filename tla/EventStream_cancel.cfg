SPECIFICATION Spec
CONSTANTS
  Modes = {"rows"}
  Frames <- EventFrames
  BatchRows = 2
  BatchBytes = 3
  StreamBytes = 6
  ChannelCap = 2
  PoolSize = 1
  HistoryItems = 2
  HistoryBytes = 6
  MaxFrames = 4
CHECK_DEADLOCK FALSE
INVARIANTS
  CleanEndIsComplete
