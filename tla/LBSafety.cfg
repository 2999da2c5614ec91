SPECIFICATION Spec
CONSTANTS
  LB = {l1, l2}
  Instance = {}
  i1 = i1
  i2 = i2
  v1 = v1
  Vpc = {v1}
  NoVpc = NoVpc
  VpcOf <- MCVpcOf
  Key = {k1}
  NoKey = NoKey
  Worker = {w1}
  Client = {c1, c2}
  NoConf = NoConf
  MaxVersion = 3
  MaxFaults = 0
INVARIANTS
  TypeOK
  SameKeySameLB
PROPERTIES
  NoResurrection
SYMMETRY MCSymmetry
