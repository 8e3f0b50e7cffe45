SPECIFICATION LifeSpec
CONSTANTS
  c1 = c1
  c2 = c2
  clerk = clerk
  peer = peer
  s1 = s1
  Nil = Nil
  Call = {c1, c2}
  EndName = {clerk, peer}
  PeerEnd = {peer}
  ServerName = {s1}
  Target <- MCTarget
  MaxServer = 2
INVARIANTS
  AckedDurable
CHECK_DEADLOCK FALSE
