CONSTANTS
  dRoot = dRoot
  dFrom = dFrom
  dFromD = dFromD
  dTo = dTo
  dToD = dToD
  dOther = dOther
  fd1 = fd1
  fd2 = fd2
  t1 = t1
  t2 = t2
  Names <- MCNames
  Width <- MCWidth
  Begins <- MCBegins
  PATH_MAX = 40
  NULL = NULL
  Fail = Fail
  Dirs <- MCDirs
  Layout <- MCLayout
  AT_FDCWD = AT_FDCWD
  CLOSED = CLOSED
  PIPE = PIPE
  Deleted = "gone"
  Config <- Siblings
  Cwds <- Outside
  Threads <- OneThread
  Ops <- KeepingOps
  Texts <- FewTexts
  RelativeRoutes = {"cwd", "at"}
  Buffers <- AnyBuffer
  Fds <- OneFd
  Tables <- OneOpen
  Movers <- NoPlaces
  Missing = {"statx"}
SPECIFICATION Spec
CHECK_DEADLOCK FALSE
INVARIANTS
  TypeOK
  ActsAsMeant
  FromNeverEntered
PROPERTY
  KeepsPromise
