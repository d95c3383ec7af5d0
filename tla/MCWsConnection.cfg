SPECIFICATION FairSpec
CONSTANTS
  Frames <- SomeFrames
  Outgoing = {"data", "ping", "close"}
  MaxMessage = 2
  ControlMax = 2
  Slack = 1
  FragInit = 1
  RecvInit = 1
  OutMax = 3
  SocketMax = 2
  MaxTraffic = 3
  AllocFails = TRUE
  NULL = NULL
INVARIANTS
  MessagesExact
  DataInOrder
  NothingAfterClose
PROPERTIES
  InputServed
  SlowConsumerGoes
CHECK_DEADLOCK FALSE
