CONSTANTS
  dRoot = dRoot
  dFrom = dFrom
  dFromD = dFromD
  dTo = dTo
  dToD = dToD
  dOther = dOther
  fd1 = fd1
  fd2 = fd2
  t1 = t1
  t2 = t2
  Names <- MCNames
  Width <- MCWidth
  Begins <- MCBegins
  PATH_MAX = 40
  NULL = NULL
  Fail = Fail
  Dirs <- MCDirs
  Layout <- MCLayout
  AT_FDCWD = AT_FDCWD
  CLOSED = CLOSED
  PIPE = PIPE
  Deleted = "gone"
  Config <- Siblings
  Cwds <- AtRoot
  Threads <- TwoThreads
  Ops <- RacingOps
  Texts <- RacingTexts
  RelativeRoutes = {"cwd", "at"}
  Buffers <- RealBuffer
  Fds <- OneFd
  Tables <- Replacement
  Movers <- NoPlaces
  Missing = {}
SPECIFICATION Spec
INVARIANT
  ActsAsMeant
