SPECIFICATION Spec
CONSTANTS
  RetryAttempts = 3
  RetryInterval = 1
  RestartSec = 1
  LimitInterval = 8
  LimitBurst = 3
  MaxErrors = 2
  None = None
INVARIANTS
  OutcomeIsTruthful
  TransientNeverFatal
PROPERTIES
  ImplementsContract
  ServiceComesBack
