SPECIFICATION FairSpec
CONSTANTS
  a = a
  b = b
  long = long
  s1 = s1
  s2 = s2
  c1 = c1
  c2 = c2
  Names = {a}
  Subblocks <- MCSubblocks
  Cfgs <- MCCfgs
  LongNames = {}
  Relabeling = {}
  ConfigMaps <- TwinsOnly
  InitPools <- FreshInit
  CreateConcurrency = 1
  DeleteConcurrency = 1
  FaultKinds = {}
  MaxFaults = 0
  MaxEdits = 0
CHECK_DEADLOCK FALSE
PROPERTIES
  EventuallyQuiet
