SPECIFICATION FairSpec
CONSTANTS
  Srv = {s1, s2}
  NSvc = 2
  MaxRetry = 2
  MaxStart = 3
  MaxCrash = 1
  MaxSave = 2
INVARIANTS
  AddedReady
  ExitExplained
PROPERTIES
  TesterGoesOn
CHECK_DEADLOCK FALSE
