CONSTANTS
  Attempts = 2
  Fsals = 2
  MaxSignals = 2
SPECIFICATION Spec
CHECK_DEADLOCK FALSE
INVARIANTS
  TypeOK
  OnlyRpcbindLeft
  StatusTellsOutcome
PROPERTIES
  UnmountsFirst
  Ends
