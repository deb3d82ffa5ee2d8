SPECIFICATION Spec
CONSTANTS
  a = a
  b = b
  long = long
  s1 = s1
  s2 = s2
  c1 = c1
  c2 = c2
  Names <- MCNames
  Subblocks <- MCSubblocks
  Cfgs <- MCCfgs
  LongNames <- MCLong
  Relabeling = {c2}
  ConfigMaps <- EditConfigMaps
  InitPools <- EditInit
  CreateConcurrency = 2
  DeleteConcurrency = 2
  FaultKinds <- EditFaults
  MaxFaults = 1
  MaxEdits = 1
CHECK_DEADLOCK FALSE
PROPERTIES
  LockedPoolKept
  
  ConfiguredPoolKept
