SPECIFICATION FairSpec
CONSTANTS
  Nodes = {n1, n2, n3}
  Producers = {p1, p2}
  Messages = {m1, m2}
  NULL = NULL
  BatchMax = 2
  TimeoutMax = 1
INVARIANTS
  NodeConserved
  ChainIntact
  NoLostWakeup
PROPERTIES
  ImplementsFifo
  EveryMessageTaken
