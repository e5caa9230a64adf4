SPECIFICATION Spec
CONSTANTS
  MaxCalls = 2
  ResultKinds <- Three_Results
  MayInterrupt = FALSE
INVARIANTS
  BindAssertionsHold
