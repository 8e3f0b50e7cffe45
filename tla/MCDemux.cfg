SPECIFICATION FairSpec
CONSTANTS
  c1 = c1
  c2 = c2
  c3 = c3
  Nil = Nil
  Call = {c1, c2, c3}
  TagSpace = 2
  Cap = 1
INVARIANTS
  NoUnmatchedReply
  OwnReply
PROPERTIES
  ImplementsRpc
  SendReceiveReturns
  ClosedReleases
CHECK_DEADLOCK FALSE
