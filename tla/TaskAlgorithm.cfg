\* An object of each class under every call, watched by a second thread.
SPECIFICATION FairSpec
CONSTANTS
  Algos <- AllAlgos
  NThreads = 2
  Operands = {v1, v2}
  Unfit = unfit
  NoTask = nullTask
  NoResult = nothing
  Calls <- AllCalls
  MaxCalls = 3
  EndStates <- BothEnds
INVARIANTS
  Safe
  ValidMeansComplete
PROPERTY
  CallReturns
\* The application may stop calling, and a null pointer ends the program.
CHECK_DEADLOCK FALSE
