SPECIFICATION FairSpec
CONSTANTS
  Client = {c1, c2}
  Nobody = Nobody
  MaxVersion = 4
  Lossy = TRUE
INVARIANTS
  CorrectPasses
  LossNoticed
  OwnValue
PROPERTY
  TestEnds
CHECK_DEADLOCK FALSE
