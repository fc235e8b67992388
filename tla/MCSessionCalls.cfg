CONSTANTS
  None = None
  Thread = {t1, t2}
  Session = {"s1", "s2"}
  Text <- MCText
  Unreadable <- MCUnreadable
  Task = {"q"}
  Similarity <- MCSimilarity
  Limit = 2
  InitialStore <- MCInitialStore
  Ingested <- MCIngested
  Volatile = {3}
  MaxId = 5
  MaxCalls = 3
  Summarizer = {"noop", "truncating", "anthropic"}
  LastN = {2}

SPECIFICATION Spec
SYMMETRY Interchangeable
CHECK_DEADLOCK FALSE
INVARIANTS
  VectorsAreTheirBlocks
  OtherSessionOnlyByRace
  InvalidationCounts
  LinearFindsAll
  ParentsWereRead
