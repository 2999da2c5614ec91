SPECIFICATION Spec
CONSTANTS
  Vpc = {v1}
  Subnet = {s1}
  Inst = {i1, i2}
  Req = {r1}
  NoVpc = NoVpc
  NoSubnet = NoSubnet
  NoInst = NoInst
  Width = 3
  VpcCidrs <- MCVpcCidrs
  SubnetCidrs <- MCSubnetCidrs
  MaxFaults = 0
INVARIANTS
  AddressesDiffer
SYMMETRY MCSymmetry
CHECK_DEADLOCK FALSE
