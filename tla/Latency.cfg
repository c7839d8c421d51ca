SPECIFICATION Spec
CONSTANTS
  MaxRoundTrip = 2
  Threshold = 2
  ReadTimeout = 3
  Interval = 4
  ProbeCount = 2
  MaxAttempts = 2
  Sequences = 2
  Programs = {"calibrate", "diagnose", "client"}
  ClockSteps = {6}
  MaxTime = 4
  MaxFaults = 1
  SessionTimeout = 1
  Duration = 2
  MeasureInterval = 1
  ToneTimeout = 2
  Capacity = 2
  WindowTime = 1
  MaxRendered = 2
  MaxFrames = 2
  None = None
INVARIANTS
  OffsetWithinBound
  ChangesAreWarned
  OnsetInv
  LatencyIsCausal
CHECK_DEADLOCK FALSE
