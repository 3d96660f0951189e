CONSTANTS
  parent = parent
  child = child
  t1 = t1
  t2 = t2
  t3 = t3
  e1 = e1
  e2 = e2
  bad = bad
  none = none
  blank = blank
  Procs <- MCProcs
  Threads <- ThreeThreads
  InitProc = parent
  InitThread = t1
  NoProc = none
  Envs <- TwoEnvs
  ValidEnvs <- OneEnv
  Blank = blank
  Unset = blank
  NSyms = 1
  Available <- FirstSymbol
  Calls = {"relative"}
  Signals = FALSE
SPECIFICATION Spec
INVARIANTS
  TypeOK
  OneInitialiser
  PolicyNotTorn
  NoOrphanWait
  SymbolsComplete
PROPERTIES
  SnapshotStable
  TakesSnapshot
