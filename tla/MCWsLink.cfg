SPECIFICATION Spec
CONSTANTS
  Part <- MCPart
  LengthBytes <- MCLengthBytes
  Pushes <- MCPushes
  Requests <- MCRequests
  Parts <- MCParts
  Frames = 3
  Controls = 1
INVARIANTS
  InOrder
  FramesWhole
PROPERTIES
  EndsOnce
  EndsAreTold
CHECK_DEADLOCK FALSE
