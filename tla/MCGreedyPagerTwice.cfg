CONSTANTS
  None = None
  BlockId = {1, 2, 3, 4, 5}
  Block <- MCBlock
  Similar <- MCSimilar
  KindOrder <- LmdbOrder
  Scenarios <- CompetingScenarios

SPECIFICATION TSpec
CHECK_DEADLOCK FALSE
INVARIANTS
  SamePromptTwice
