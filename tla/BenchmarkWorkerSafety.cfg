SPECIFICATION FairSpec
CONSTANTS
  MaxCalls = 3
  ResultKinds <- Three_Results
  MayInterrupt = TRUE
INVARIANTS
  TypeOK
  ResultIsForThisJob
  SingleWorker
  NoOrphan
PROPERTIES
  InnocentWorkerIsSpared
  DisabledForGood
  ImplementsIsolatedCall
  RunAndShutdownReturn
