SPECIFICATION Spec
CONSTANTS
  Process = {p1, p2}
  MaxAge = 1
  MaxBytes = 4
  BufferBytes = 4
  HeaderBytes = 1
  RecordBytes = {3}
  Attempts = 2
  MaxTime = 2
  MaxFiles = 4
  MaxFailures = 1
  None = None
INVARIANT TypeOK
PROPERTY RotationKeepsPolicy
CHECK_DEADLOCK FALSE
