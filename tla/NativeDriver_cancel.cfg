SPECIFICATION Spec
CONSTANTS
  t1 = t1
  t2 = t2
  Tasks = {t1, t2}
  Transacting = {}
  PlainSql = {"stmt", "probe"}
  QueueCap = 2
  MaxGen = 2
  MaxLoads = 2
  MaxPackets = 1
  MaxRows = 1
  Hostile = TRUE
  DropsDriver = TRUE
SYMMETRY Symmetry
CHECK_DEADLOCK FALSE
INVARIANTS
  LeaseExclusive
  ResponseBelongsToRequest
PROPERTIES
  StartsUncancelled
  CancelSticks
