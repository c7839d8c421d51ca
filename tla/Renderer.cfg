SPECIFICATION Spec
CONSTANTS
  Budget = 5
  Interval = 2
  SamplesPerFrame = 2
  Capacity = 4
  DeviceBuffer = 3
  Period = 2
  MaxFrames = 4
INVARIANTS
  TypeOK
  PlanStaysValid
  PlayedInOrder
  OneWorker
  GivesUpOnTime
PROPERTIES
  StartupDecided
  CloseCompletes
CHECK_DEADLOCK FALSE
