SPECIFICATION FairSpec
CONSTANTS
  Error = {e1, e2}
  MaxStages = 3
INVARIANTS
  ExceptionsAccounted
  FirstHandler
PROPERTIES
  Progress
