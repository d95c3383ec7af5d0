SPECIFICATION FairSpec
CONSTANTS
  ThreadCount = 2
  Main = main
  Others = {other}
  Failures = {"init", "spawn", "epoll"}
  MaxStarts = 2
  NULL = NULL
INVARIANTS
  FreedAfterEndUnlessClash
  QuietWhenStopped
PROPERTY
  StopReturns
CHECK_DEADLOCK FALSE
