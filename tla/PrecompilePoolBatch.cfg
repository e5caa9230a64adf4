SPECIFICATION FairSpec
CONSTANTS
  N = 3
  Jobs = 2
  Classes = {"raise"}
  IgnoreErrors = FALSE
  MayInterrupt = TRUE
  MayFailToStart = TRUE
  MayUnwind = FALSE
INVARIANTS
  TypeOK
  CapIsRespected
  NothingLeftBehind
  VerdictMatchesChild
  NoErrorSwallowed
PROPERTIES
  WaitForAllEnds
