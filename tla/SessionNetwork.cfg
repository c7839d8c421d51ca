SPECIFICATION Spec
CONSTANTS
  None = None
  MaxSession = 3
  MaxProbes = 1
  Faults <- AllFaults
  MaxFaults = 3
  HeartbeatInterval = 1
  ReconnectRetryInterval = 1
  StartAckTimeout = 1
  MaxMissedHeartbeats = 2
  RecalibrationInterval = 2
  HeartbeatTimeout = 6
  CaptureRetryInterval = 1
INVARIANTS
  NoStopForHeldSession
  AcceptedIsNewestActivated
  CaptureOnlyInSession
  JitterHoldsStreamedSession
  ClientAlwaysHasWakeup
  NoReconnectWithoutFault
PROPERTIES
  EndsOnlyForCause
  ImplementsContract
CHECK_DEADLOCK TRUE
