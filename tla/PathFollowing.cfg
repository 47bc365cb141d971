\* Two goals, and every way the planner may end.
SPECIFICATION FairSpec
CONSTANTS
  Outcomes <- AllOutcomes
  Coordinates <- Corners
  Near <- NearGoal
  Start <- AtStart
  MaxRounds = 2
INVARIANTS
  Inv
  GoalIsMet
PROPERTIES
  GoalIsAnnounced
  CloseReturns
\* The planner may never end, and main ends.
CHECK_DEADLOCK FALSE
