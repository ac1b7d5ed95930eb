SPECIFICATION Spec
CONSTANTS
  t1 = t1
  t2 = t2
  Tasks = {t1, t2}
  Transacting = {t1}
  PlainSql = {"stmt", "begin"}
  QueueCap = 1
  MaxGen = 2
  MaxLoads = 0
  MaxPackets = 0
  MaxRows = 1
  Hostile = TRUE
  DropsDriver = FALSE
CHECK_DEADLOCK FALSE
INVARIANTS
  IntruderIsDoomed
  RunsInItsTransaction
  FlagTellsTruth
