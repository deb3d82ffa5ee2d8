SPECIFICATION PromptSpec
CONSTANTS
  a = a
  b = b
  long = long
  s1 = s1
  s2 = s2
  c1 = c1
  c2 = c2
  Names <- MCNames
  Subblocks <- MCSubblocks
  Cfgs <- MCCfgs
  LongNames <- MCLong
  Relabeling = {}
  ConfigMaps <- PromptConfigMaps
  InitPools <- PromptInit
  CreateConcurrency = 1
  DeleteConcurrency = 0
  FaultKinds <- RetriedFaults
  MaxFaults = 1
  MaxEdits = 1
PROPERTIES
  Converges
  ReconcileReturns
  SuccessMeansApplied
