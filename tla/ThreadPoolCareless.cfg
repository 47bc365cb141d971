\* ThreadPool(2), started twice, with logging, and an owner that does not look
\* at what it has submitted.
SPECIFICATION Spec
CONSTANTS
  Tasks = {t1, t2}
  NoTask = NoTask
  NThreads = 2
  ByCount = TRUE
  MaxStarts = 2
  MaxBatch = 1
  MaxQueued = 2
  EndStates <- OneEnd
  UseLog = TRUE
  Disciplined = FALSE
INVARIANTS
  RunsOnce
  ClosedIsQuiet
\* A closed pool whose starts are used up may stay so.
CHECK_DEADLOCK FALSE
