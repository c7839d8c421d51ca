SPECIFICATION Spec
CONSTANTS
  FrameBytes = 3
  PipeBytes = 4
  MaxSpawns = 2
  MaxFailures = 2
  None = None
INVARIANTS
  HandleInv
  FramesAligned
PROPERTIES
  CallsReturn
  ImplementsContract
CHECK_DEADLOCK FALSE
