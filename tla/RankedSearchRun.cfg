SPECIFICATION Spec
CONSTANTS
  r0 = r0
  r1 = r1
  Ranks = {r0, r1}
  Root = r0
  Configs = 2
  Generations = 0
  SyncedRounds = TRUE
  KernelWaits = FALSE
  CompileMayDiffer = FALSE
  RunMayDiffer = TRUE
INVARIANT
  CutoffIsReal
CHECK_DEADLOCK FALSE
