SPECIFICATION FairSpec
CONSTANTS
  g1 = g1  w1 = w1  c1 = c1
  Group <- MCGroup  Inst <- MCInst  Worker <- MCWorker  Client <- MCClient  Sizes <- MCSizes
  NoGroup = NoGroup  NoInst = NoInst
  Balanced <- MCGroup
  HardLimit = 2  GroupLimit = 1
  OutStep = 1  InStep = 1
  MaxFailureCount = 1  MaxFaults = 1
INVARIANTS TypeOK SizeBounded NoOrphan
PROPERTIES DeletingIsFinal DeletionCompletes Converges
