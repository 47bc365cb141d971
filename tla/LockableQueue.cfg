\* push_item, push_items, pop, pop_wait and wake-ups, in every order.
SPECIFICATION FairSpec
CONSTANTS
  Consumers = {c1, c2, c3}
  BatchSizes <- Ranges
  MaxItems = 4
INVARIANTS
  Inv
PROPERTIES
  SinglesWake
  ImplementsFIFO
\* Producers may stop pushing, and consumers then sleep for ever.
CHECK_DEADLOCK FALSE
