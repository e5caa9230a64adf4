SPECIFICATION Spec
CONSTANTS
  r0 = r0
  r1 = r1
  Ranks = {r0, r1}
  Root = r0
  Configs = 1
  Generations = 1
  SyncedRounds = FALSE
  KernelWaits = TRUE
  CompileMayDiffer = FALSE
  RunMayDiffer = FALSE
INVARIANT
  Lockstep
