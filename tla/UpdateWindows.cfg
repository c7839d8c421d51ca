SPECIFICATION HandoffSpec
CONSTANT None = None
INVARIANTS
  OneProgramAtTheEnd
  NoMixedClients
  HandoffInv
  ExitTellsUntouched
PROPERTY ImplementsContract
CHECK_DEADLOCK FALSE
