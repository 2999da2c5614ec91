SPECIFICATION FairSpec
CONSTANTS
  LB = {l1}
  Instance = {}
  i1 = i1
  i2 = i2
  v1 = v1
  Vpc = {v1}
  NoVpc = NoVpc
  VpcOf <- MCVpcOf
  Key = {}
  NoKey = NoKey
  Worker = {w1, w2}
  Client = {c1}
  NoConf = NoConf
  MaxVersion = 3
  MaxFaults = 1
PROPERTIES
  ActiveGetsProxy
