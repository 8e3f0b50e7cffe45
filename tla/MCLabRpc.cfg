SPECIFICATION FairSpec
CONSTANTS
  c1 = c1
  e1 = e1
  s1 = s1
  Nil = Nil
  Call = {c1}
  EndName = {e1}
  ServerName = {s1}
  MaxServer = 2
INVARIANTS
  TypeOK
  LateNeverSucceeds
PROPERTIES
  ImplementsRpc
  CallReturns
  KilledCallReturns
CHECK_DEADLOCK FALSE
