SPECIFICATION FairSpec
CONSTANTS
  Worker = {w1, w2}
  Main = Main
  MaxGid = 5
INVARIANTS
  CorrectCtrlerPasses
  GroupsAlive
PROPERTIES
  CtrlerTestEnds
CHECK_DEADLOCK FALSE
