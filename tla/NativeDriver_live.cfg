SPECIFICATION LiveSpec
CONSTANTS
  t1 = t1
  t2 = t2
  Tasks = {t1, t2}
  Transacting = {t1}
  PlainSql = {"stmt"}
  QueueCap = 1
  MaxGen = 1
  MaxLoads = 1
  MaxPackets = 0
  MaxRows = 0
  Hostile = FALSE
  DropsDriver = FALSE
CHECK_DEADLOCK FALSE
PROPERTIES
  CancelledEnds
  ShutdownCompletes
  CallersReleased
  DroppedTransactionEnds
