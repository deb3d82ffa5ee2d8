SPECIFICATION FairSpec
CONSTANTS
  Documents <- ConfigDocuments
  MaxInt = 7
  LongStems = {"long"}
  EnvSecureBoot = "true"
  EnvMaxPods = "16"
  MaxEdits = 1
CHECK_DEADLOCK FALSE
INVARIANTS
  TypeOK
  
  SubblocksDistinct
  SubblocksAsListed
  
PROPERTIES
  
  ConstructEnds
