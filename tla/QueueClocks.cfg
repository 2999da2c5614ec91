SPECIFICATION Spec
CONSTANTS
  Msg = {m1}
  p1 = p1
  p2 = p2
  Server = {p1, p2}
  Skew <- MCBehind
  Timeout = 2
  Limits <- MCLimits
  MaxBatch = 2
  MaxTime = 3
  MaxCount = 3
PROPERTIES
  HiddenForTimeout
SYMMETRY MCSymmetry
CHECK_DEADLOCK FALSE
