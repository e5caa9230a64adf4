SPECIFICATION FairSpec
CONSTANTS
  World = 3
  MaxRounds = 3
  Previous <- ThreePatterns_Previous
  Subsequent <- ThreePatterns_Subsequent
  Launches <- ThreePatterns_Launches
INVARIANTS
  TypeOK
  NobodyLeavesEarly
  DataIsVisible
  PadIsReset
  SignalOfThisRound
PROPERTIES
  EveryoneFinishes
