CONSTANTS
  Attempts = 2
  Fsals = 2
  MaxSignals = 0
SPECIFICATION Spec
CHECK_DEADLOCK FALSE
INVARIANTS
  PassMeansVerified
