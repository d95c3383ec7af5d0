SPECIFICATION FairSpec
CONSTANTS
  Requests <- SomeRequests
  Chunks = 2
  RecvMax = 2
  OutMax = 2
  SocketMax = 1
  MaxRequests = 3
  MaxLives = 2
  Refusals = TRUE
  ReadErrors = TRUE
  AllocFails = TRUE
  NULL = NULL
INVARIANTS
  ResponsesInOrder
  ParkedHasWaker
  ContextOwned
PROPERTY
  EveryRequestAnswered
CHECK_DEADLOCK FALSE
