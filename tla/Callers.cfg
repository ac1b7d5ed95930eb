SPECIFICATION CallersSpec
CONSTANTS
  l1 = l1
  l2 = l2
  s1 = s1
  s2 = s2
  Leases = {l1, l2}
  Sessions = {s1, s2}
  Max = 1
  Min = 1
  MaxUses = 2
  RollbackOnRelease = TRUE
  OutsideRuntime = FALSE
  MaxTotal = 2
  None = None
  Threads = {t1, t2, t3}
  SyncMax = 2
  SyncMin = 1
  SyncUses = 2
  SyncRollback = TRUE
  SyncTimeout = TRUE
  Jobs = {j1, j2}
  Handles = {h1, h2}
  WrapperCalls = 2
  WrapperCancels = 1
  BlockingSteps = 5
CHECK_DEADLOCK FALSE
INVARIANTS
  ThreadsAccounted
  CloseIsFinal
PROPERTIES
  PoolSettles
  FreeSlotNoticed
  SentWhileActive
  CallersServed
  DropSettles
