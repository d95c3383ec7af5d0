SPECIFICATION FairSpec
CONSTANTS
  Backends = {"blocking", "threadpool", "iouring"}
  Workers = {w1, w2}
  QueueDepth = 2
  RingEntries = 2
  MaxReads = 4
  AllocFails = TRUE
  NULL = NULL
INVARIANTS
  NoLostWakeup
PROPERTIES
  ImplementsService
  EveryReadEnds
  DestroyEnds
CHECK_DEADLOCK FALSE
