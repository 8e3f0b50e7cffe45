SPECIFICATION FairSpec
CONSTANTS
  NShards = 4
  Gid = {1, 2, 3, 4, 5}
  MaxNum = 5
INVARIANTS
  TypeOK
  AllAssigned
  Balanced
  MembersOwnShards
  OnlyNeededMoves
PROPERTY
  RebalanceEnds
CHECK_DEADLOCK FALSE
