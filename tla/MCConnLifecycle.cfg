SPECIFICATION Spec
CONSTANTS
  ThreadCount = 2
  MaxConnections = 1
  Fds = {f1, f2}
  Senders = {x}
  Ops = {"data", "close"}
  MaxEvents = 1
  QueueMax = 2
  TimeoutMax = 1
  Faults = {"tls", "hash", "epoll"}
  MaxAccepts = 2
  NULL = NULL
SYMMETRY Symmetry
INVARIANTS
  RefCountExact
  SlotAccounted
  SocketAccounted
  SocketNotStolen
  ActiveExact
  DataReachesItsTarget
CHECK_DEADLOCK FALSE
