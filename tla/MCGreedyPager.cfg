CONSTANTS
  None = None
  BlockId = {1, 2, 3, 4, 5}
  Block <- MCBlock
  Similar <- MCSimilar
  KindOrder <- LmdbOrder
  Scenarios <- MCScenarios

SPECIFICATION FairSpec
CHECK_DEADLOCK FALSE
INVARIANTS
  BudgetsKept
  CandidatesOnce
  CompressedIsCovered
  EstimateKept
  DependenciesInReach
  LeftOutOnlyForRoom
  EdgesReconciled
PROPERTIES
  Terminates
