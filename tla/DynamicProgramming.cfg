\* Every world of two states and a terminal one, two actions, rewards 0 and 1;
\* without a discount, and with one half.
SPECIFICATION DPSpec
CONSTANTS
  NStates = 3
  NActions = 2
  Worlds <- TerminalWorlds
  Discounts <- ExactDiscounts
  Unit = 65536
  Tolerance = 1
  MaxItrs = 4
  MaxEval = 3
  MaxTrains = 2
INVARIANTS
  Solved
PROPERTY
  ValuesNeverFall
\* The trainings come to an end.
CHECK_DEADLOCK FALSE
