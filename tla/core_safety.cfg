SPECIFICATION Spec
CONSTANTS
  a = a
  b = b
  long = long
  s1 = s1
  s2 = s2
  c1 = c1
  c2 = c2
  Names <- MCNames
  Subblocks <- MCSubblocks
  Cfgs <- MCCfgs
  LongNames <- MCLong
  Relabeling = {}
  ConfigMaps <- CoreConfigMaps
  InitPools <- CoreInit
  CreateConcurrency = 2
  DeleteConcurrency = 2
  FaultKinds <- CoreFaults
  MaxFaults = 1
  MaxEdits = 1
INVARIANTS
  TypeOK
  CapacityExclusive
  NoLeakedMark
  NothingLeftOver
  IInv
PROPERTIES
  ImplementsAllocator
  ReconcileAdvances
