SPECIFICATION Spec
CONSTANTS
  None = None
  MaxSession = 3
  MaxProbes = 0
  Faults <- LossOnly
  MaxFaults = 2
  HeartbeatInterval = 1
  ReconnectRetryInterval = 1
  StartAckTimeout = 1
  MaxMissedHeartbeats = 2
  RecalibrationInterval = 6
  HeartbeatTimeout = 6
  CaptureRetryInterval = 1
INVARIANT UnreachableAfterTwoMissedAcks
CHECK_DEADLOCK TRUE
