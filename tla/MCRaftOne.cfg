SPECIFICATION OneSpec
CONSTANTS
  Srv = {s1, s2}
  Cmd = {a, b}
  None = None
  MaxIndex = 3
  MaxKill = 1
  Interval = 2
INVARIANTS
  NoFalseAlarm
  CopiesCommitted
  SnapshotComplete
  DisagreementCaught
  OneSound
SYMMETRY Interchangeable
CHECK_DEADLOCK FALSE
