SPECIFICATION Spec
CONSTANTS
  Configs = {"a", "alias", "other"}
  Sources = {"s1", "s2"}
  SourceOf <- TwoSources
  Seeds = {"a"}
  MaxBatch = 2
  MaxRounds = 1
INVARIANT
  InaccurateIsOut
