SPECIFICATION Spec
CONSTANTS
  Batches <- MCBatches
  MaxCommands = 3
  Deadline = TRUE
  BinaryRows = TRUE
  FalseReady = FALSE
  LateFlush = FALSE
CHECK_DEADLOCK FALSE
INVARIANTS
  Aligned
