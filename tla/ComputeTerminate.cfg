SPECIFICATION Spec
CONSTANTS
  Inst = {i1}
  Vol = {}
  Req = {r1, r2}
  NoInst = NoInst
  NoVol = NoVol
  MaxFaults = 0
  MaxCrashes = 0
INVARIANTS
  TerminateRemovesBox
SYMMETRY MCSymmetry
CHECK_DEADLOCK FALSE
