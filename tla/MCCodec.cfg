SPECIFICATION Spec
CONSTANTS
  LongMax = 17
  MaxBody = 16
  MaxParts = 2
  MaxBytes = 10
  PartBytes = 2
  FileMax = 3
  ExtBytes = 3
  MaxPayload = 200
  Requests <- SomeRequests
  HeadBytes = 2
  Frames <- SomeFrames
  Payload = 200
  RangeGets <- SomeRangeGets
  Sizes = {0, 1, 2, 3}
  FileGets <- SomeFileGets
  Nodes <- SomeNodes
  Opcodes = {1, 2, 8}
  Lengths <- SomeLengths
  MaskLengths = {0, 1, 2, 3, 4, 5, 7, 8, 15, 16, 17, 19, 20, 31, 32, 33, 35, 36, 63, 64, 66, 71}
INVARIANTS
  FramingExact
  RangesExact
  ServedFromDocroot
  FrameExact
  UnmaskExact
CHECK_DEADLOCK FALSE
