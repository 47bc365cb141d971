\* Four threads that read and write as they like.
SPECIFICATION RWSpec
CONSTANT Threads = {t1, t2, t3, t4}
INVARIANTS
  RWInv
PROPERTY
  NoReaderJoinsWriter
\* Once every thread writes nothing can happen: writers never leave.
CHECK_DEADLOCK FALSE
