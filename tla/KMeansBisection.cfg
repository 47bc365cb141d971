\* The points of the clusters that a bisection has found.
SPECIFICATION Spec
CONSTANTS
  DataSets <- FourRows
  MaxK = 3
  MaxItrs = 4
  MaxCalls = 1
INVARIANT
  PartsPartition
CHECK_DEADLOCK FALSE
