CONSTANTS
  Names <- MCNames
  Width <- MCWidth
  Begins <- MCBegins
  PATH_MAX = 12
  NULL = NULL
  Fail = Fail
  Sizes <- MCSizes
  CwdSizes <- MCCwdSizes
  Configs <- PlainConfigs
  MaxLen = 9
  MaxCleaned = 8
  Letters <- MCLetters
  Chars <- MCChars
  NUL = NUL
  Junk = Junk
  Cells = 14
SPECIFICATION CheckSpec
CHECK_DEADLOCK FALSE
INVARIANTS
  TypeOK
  CleanIsLexical
  RewriteIsMapping
  CwdRoundTrip
  CleanerAgrees
  NoOverrun
  SegStartsFit
  CleanedIsString
  TakesWhatFits
