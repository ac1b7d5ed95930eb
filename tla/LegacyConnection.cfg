SPECIFICATION LiveSpec
CONSTANTS
  Batches <- MCBatches
  MaxCommands = 3
  Deadline = TRUE
  BinaryRows = FALSE
  FalseReady = FALSE
  LateFlush = FALSE
CHECK_DEADLOCK FALSE
INVARIANTS
  Aligned
  FlagSafe
PROPERTIES
  GuardLeavesNothing
  CommandEnds
