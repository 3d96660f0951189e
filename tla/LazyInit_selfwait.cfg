CONSTANTS
  parent = parent
  child = child
  t1 = t1
  t2 = t2
  t3 = t3
  e1 = e1
  e2 = e2
  bad = bad
  none = none
  blank = blank
  Procs <- MCProcs
  Threads <- TwoThreads
  InitProc = parent
  InitThread = t1
  NoProc = none
  Envs <- TwoEnvs
  ValidEnvs <- TwoEnvs
  Blank = blank
  Unset = blank
  NSyms = 1
  Available <- FirstSymbol
  Calls = {"absolute"}
  Signals = TRUE
SPECIFICATION Spec
INVARIANT
  NoSelfWait
CHECK_DEADLOCK FALSE
