SPECIFICATION Spec
CONSTANTS
  Vpc = {v1}
  Subnet = {s1}
  Inst = {i1, i2}
  Req = {r1, r2}
  NoVpc = NoVpc
  NoSubnet = NoSubnet
  NoInst = NoInst
  Width = 3
  VpcCidrs <- MCVpcCidrs
  SubnetCidrs <- MCSubnetCidrs
  MaxFaults = 2
INVARIANTS
  TypeOK
  AddressInSubnet
  NoOrphanBridge
PROPERTIES
  AddressStable
SYMMETRY MCSymmetry
CHECK_DEADLOCK FALSE
