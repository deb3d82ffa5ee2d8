SPECIFICATION FairSpec
CONSTANTS
  c1 = c1
  c2 = c2
  t1 = t1
  t2 = t2
  t3 = t3
  Callers <- MCCallers
  Tokens <- MCTokens
  None = None
  Zero = Zero
  Unreadable = Unreadable
  MaxFaults = 1
INVARIANTS
  TypeOK
  PairsMatch
  
  
PROPERTIES
  EventuallyAuthorized
