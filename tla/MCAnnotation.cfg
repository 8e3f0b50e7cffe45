SPECIFICATION AnnSpec
CONSTANTS
  Srv = {s1, s2}
  MaxTime = 4
INVARIANTS
  Timeline
  
CHECK_DEADLOCK FALSE
