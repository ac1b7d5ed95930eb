SPECIFICATION Spec
CONSTANTS
  l1 = l1
  l2 = l2
  l3 = l3
  s1 = s1
  s2 = s2
  s3 = s3
  Leases = {l1, l2, l3}
  Sessions = {s1, s2, s3}
  Max = 2
  Min = 1
  MaxUses = 2
  RollbackOnRelease = TRUE
  OutsideRuntime = FALSE
  MaxTotal = 4
  None = None
SYMMETRY Symmetry
CHECK_DEADLOCK FALSE
INVARIANT TotalWithinMax
