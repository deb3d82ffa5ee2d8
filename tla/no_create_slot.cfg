SPECIFICATION FairSpec
CONSTANTS
  a = a
  b = b
  long = long
  s1 = s1
  s2 = s2
  c1 = c1
  c2 = c2
  Names <- MCNames
  Subblocks <- MCSubblocks
  Cfgs <- MCCfgs
  LongNames <- MCLong
  Relabeling = {}
  ConfigMaps <- PromptConfigMaps
  InitPools <- FreshInit
  CreateConcurrency = 0
  DeleteConcurrency = 2
  FaultKinds = {}
  MaxFaults = 0
  MaxEdits = 0
CHECK_DEADLOCK FALSE
PROPERTIES
  ReconcileReturns
