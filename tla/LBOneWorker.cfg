SPECIFICATION FairSpec
CONSTANTS
  LB = {l1}
  Instance = {i1, i2}
  i1 = i1
  i2 = i2
  v1 = v1
  Vpc = {v1}
  NoVpc = NoVpc
  VpcOf <- MCVpcOf
  Key = {k1}
  NoKey = NoKey
  Worker = {w1}
  Client = {c1}
  NoConf = NoConf
  MaxVersion = 3
  MaxFaults = 2
INVARIANTS
  ServesOwnVpc
  ActiveHasProxy
  NoOrphanProxy
PROPERTIES
  CreatingSettles
  DeletedIsCleaned
  TargetsConverge
