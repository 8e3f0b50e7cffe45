SPECIFICATION ClntSpec
CONSTANT Server = {s1, s2, s3, s4}
INVARIANTS
  OnlyAllowed
  AllowedConnected
