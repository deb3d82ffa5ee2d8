SPECIFICATION FairRollout
CONSTANTS
  a = a
  b = b
  s1 = s1
  c1 = c1
  c2 = c2
  Names = {a, b}
  Subblocks = {s1}
  Cfgs = {c1, c2}
  LongNames = {}
  Relabeling = {}
  ConfigMaps <- RolloutConfigMaps
  InitPools <- RolloutInitPools
  CreateConcurrency = 1
  DeleteConcurrency = 0
  FaultKinds = {}
  MaxFaults = 0
  MaxEdits = 1
INVARIANTS
  RolloutTypeOK
  RolloutCapacity
PROPERTIES
  RolloutConverges
  RolloutRestIsKept
  RolloutAllocates
