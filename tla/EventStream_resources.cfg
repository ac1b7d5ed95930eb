SPECIFICATION LiveSpec
CONSTANTS
  Modes = {"events", "rows", "batches"}
  Frames <- SizeFrames
  BatchRows = 2
  BatchBytes = 3
  StreamBytes = 6
  ChannelCap = 1
  PoolSize = 1
  HistoryItems = 2
  HistoryBytes = 6
  MaxFrames = 3
CHECK_DEADLOCK FALSE
INVARIANTS
  ResourcesConserved
PROPERTIES
  PolledStreamEnds
  InterruptBypassesBackpressure
