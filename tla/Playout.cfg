SPECIFICATION Spec
CONSTANTS
  None = None
  SequenceRange = 16
  FrameDuration = 1
  MinTargetDelay = 1
  MaxTargetDelay = 3
  GrowthThreshold = 2
  StablePeriod = 2
  GrowthStep = 2
  DecayStep = 1
  MaxBufferedFrames = 4
  MaxTime = 7
  MaxFaults = 3
INVARIANTS
  PlayoutInv
  FifoOrdered
  ResidentsInWindow
  AudioMovesForward
CHECK_DEADLOCK FALSE
