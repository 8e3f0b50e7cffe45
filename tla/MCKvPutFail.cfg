SPECIFICATION FairSpec
CONSTANTS
  Client = {c1, c2}
  Nobody = Nobody
  MaxVersion = 3
  Lossy = TRUE
PROPERTY
  ClientsSignal
CHECK_DEADLOCK FALSE
