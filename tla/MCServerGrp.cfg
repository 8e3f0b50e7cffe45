SPECIFICATION Spec
CONSTANTS
  N = 5
INVARIANTS
  OffNet
  OnNet
  PartitionExact
  LeaderInMinority
