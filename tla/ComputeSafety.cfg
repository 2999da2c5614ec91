SPECIFICATION Spec
CONSTANTS
  Inst = {i1, i2}
  Vol = {v1}
  Req = {r1, r2}
  NoInst = NoInst
  NoVol = NoVol
  MaxFaults = 1
  MaxCrashes = 1
INVARIANTS
  TypeOK
  NoDanglingAttachment
  VolumeHasDisk
  Consistent
PROPERTIES
  StatusForward
SYMMETRY MCSymmetry
CHECK_DEADLOCK FALSE
