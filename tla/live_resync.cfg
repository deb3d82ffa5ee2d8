SPECIFICATION FairSpec
CONSTANTS
  a = a
  b = b
  long = long
  s1 = s1
  s2 = s2
  c1 = c1
  c2 = c2
  Names <- MCNames
  Subblocks <- MCSubblocks
  Cfgs <- MCCfgs
  LongNames <- MCLong
  Relabeling = {}
  ConfigMaps <- ResyncConfigMaps
  InitPools <- ResyncInit
  CreateConcurrency = 2
  DeleteConcurrency = 2
  FaultKinds <- AllFaults
  MaxFaults = 1
  MaxEdits = 1
PROPERTIES
  Converges
  EventuallyQuiet
  RestIsKept
