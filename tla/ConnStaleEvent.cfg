SPECIFICATION Spec
CONSTANTS
  ThreadCount = 1
  MaxConnections = 2
  Fds = {f1, f2}
  Senders = {x}
  Ops = {"data", "close"}
  MaxEvents = 2
  QueueMax = 2
  TimeoutMax = 1
  Faults = {}
  MaxAccepts = 2
  NULL = NULL
INVARIANT SocketNotStolen
CHECK_DEADLOCK FALSE
