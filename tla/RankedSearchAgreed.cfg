SPECIFICATION FairSpec
CONSTANTS
  r0 = r0
  r1 = r1
  Ranks = {r0, r1}
  Root = r0
  Configs = 2
  Generations = 1
  SyncedRounds = TRUE
  KernelWaits = TRUE
  CompileMayDiffer = FALSE
  RunMayDiffer = FALSE
INVARIANTS
  TypeOK
  Lockstep
  CutoffIsReal
  NobodyRunsAlone
  SamePerformance
PROPERTIES
  SearchEnds
