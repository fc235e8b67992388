CONSTANTS
  None = None
  BlockId = {1, 2, 3, 4, 5, 6, 7, 8}
  Block <- MCBlock
  Cost <- MCCost
  Plans <- MCPlans
  Requests <- MCRequests
  Options <- MCOptions
  InitialStores <- MCStores
  Volatile <- MCVolatile
  Agents = {a1, a2}
  TracedRequests <- MCTracedRequests
  MaxCommands = 2
  MaxPatches = 2

SPECIFICATION CSpec
CHECK_DEADLOCK FALSE
SYMMETRY Interchangeable
INVARIANTS
  ReplanRendersThePlan
