SPECIFICATION Spec
CONSTANTS
  Threads = {t1, t2}
  Metadata = {"one"}
  Early = {}
  TraceGuards = {"one"}
  CodeGuards = {}
  LateValues = {"tail"}
  LateHints = {}
  ArgLists <- OneAndTail
  MaxCalls = 3
  MaxResets = 1
  MaxBounds = 4
SYMMETRY ThreadSymmetry
INVARIANTS
  TypeOK
  FastPathIsRight
  CachesAnswerRight
  NothingSurvivesReset
PROPERTIES
  CompiledOnce
