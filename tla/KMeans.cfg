\* Data sets of four rows, one to three clusters, two calls.
SPECIFICATION Spec
CONSTANTS
  DataSets <- FourRows
  MaxK = 3
  MaxItrs = 4
  MaxCalls = 2
INVARIANTS
  Inv
  ConvergedIsStable
PROPERTIES
  CostFalls
  ClusterReturns
\* The calls come to an end.
CHECK_DEADLOCK FALSE
