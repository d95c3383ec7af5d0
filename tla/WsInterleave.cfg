SPECIFICATION Spec
CONSTANTS
  Frames <- PingOnly
  Outgoing = {"data"}
  MaxMessage = 2
  ControlMax = 2
  Slack = 1
  FragInit = 1
  RecvInit = 1
  OutMax = 1
  SocketMax = 2
  MaxTraffic = 3
  AllocFails = FALSE
  NULL = NULL
INVARIANT
  WireIsFrames
CHECK_DEADLOCK FALSE
