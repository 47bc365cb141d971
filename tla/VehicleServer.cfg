\* Up to three lines of every kind.
SPECIFICATION FairSpec
CONSTANTS
  Kinds <- AllKinds
  Numbers <- TwoNumbers
  MaxLines = 3
INVARIANTS
  Inv
  PrintedStateIsWhole
PROPERTIES
  NeverAnOlderCommand
  ExitEndsProgram
\* Nobody has to enter a line, and main ends.
CHECK_DEADLOCK FALSE
