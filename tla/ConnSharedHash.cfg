SPECIFICATION Spec
CONSTANTS
  ThreadCount = 2
  MaxConnections = 1
  Fds = {f1, f2}
  Senders = {}
  Ops = {}
  MaxEvents = 1
  QueueMax = 2
  TimeoutMax = 1
  Faults = {}
  MaxAccepts = 2
  NULL = NULL
INVARIANT HashCurrent
CHECK_DEADLOCK FALSE
