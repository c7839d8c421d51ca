SPECIFICATION FairSpec
CONSTANTS
  None = None
  MaxSession = 4
  MaxProbes = 0
  Faults <- RecoveryFaults
  MaxFaults = 2
  HeartbeatInterval = 1
  ReconnectRetryInterval = 1
  StartAckTimeout = 1
  MaxMissedHeartbeats = 2
  RecalibrationInterval = 6
  HeartbeatTimeout = 3
  CaptureRetryInterval = 1
PROPERTIES
  EventuallyConnected
  MicrophoneReleased
CHECK_DEADLOCK TRUE
