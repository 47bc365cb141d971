\* Meshes of up to three by three elements, and one or two tasks.
SPECIFICATION FVSpec
CONSTANTS
  MaxNx = 3
  MaxNy = 3
  Null = Null
  MaxThreads = 2
  BCs <- TwoBCs
  MaxAssemblies = 2
INVARIANTS
  FVInv
  FacesAreShared
  NumbersTellSides
  WholeOrNothing
PROPERTIES
  LoadsAreShared
  AssembleReturns
\* The client may stop calling.
CHECK_DEADLOCK FALSE
