\* Two workers and an owner that keeps track of what it has submitted.
SPECIFICATION FairSpec
CONSTANTS
  Tasks = {t1, t2}
  NoTask = NoTask
  NThreads = 2
  ByCount = FALSE
  MaxStarts = 1
  MaxBatch = 2
  MaxQueued = 0
  EndStates <- TwoEnds
  UseLog = FALSE
  Disciplined = TRUE
INVARIANTS
  Inv
  LetGo
PROPERTIES
  ImplementsForkJoin
  CallsReturn
  QueuedTasksRun
\* A closed pool whose starts are used up may stay so.
CHECK_DEADLOCK FALSE
