SPECIFICATION Spec
CONSTANTS
  Msg = {m1, m2}
  p1 = p1
  p2 = p2
  Server = {p1, p2}
  Skew <- MCAhead
  Timeout = 2
  Limits <- MCLimits
  MaxBatch = 2
  MaxTime = 3
  MaxCount = 2
INVARIANTS
  TypeOK
  LocksAreExclusive
PROPERTIES
  ImplementsPool
  StaleReceiptHarmless
  HiddenForTimeout
SYMMETRY MCSymmetry
CHECK_DEADLOCK FALSE
