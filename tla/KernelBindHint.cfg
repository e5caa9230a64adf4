SPECIFICATION Spec
CONSTANTS
  Threads = {t1}
  Metadata = {"long"}
  Early = {}
  TraceGuards = {}
  CodeGuards = {}
  LateValues = {}
  LateHints = {"long"}
  ArgLists <- ShortAndLong
  MaxCalls = 2
  MaxResets = 0
  MaxBounds = 3
INVARIANTS
  KernelCallsAreRight
