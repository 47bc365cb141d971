\* Two queries on every map, and every tree of up to four vertices.
SPECIFICATION FairSpec
CONSTANTS
  Points <- AllPoints
  Dist <- Euclid
  Maps <- AllMaps
  Radius = 10
  Inputs = {u}
  NoInput = noInput
  Inf = 10000
  Null = null
  NItrs = 3
  MaxQueries = 2
INVARIANTS
  CostsAddUp
  Inv
  FailsOnlyWhenCutOff
  SegmentsJoinWayPoints
PROPERTY
  QueryAnswered
\* A query may fail, and no more queries may follow.
CHECK_DEADLOCK FALSE
