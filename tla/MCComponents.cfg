CONSTANTS
  None = None
  BlockId = {1, 2, 3}
  Session = {"s1", "s2"}
  Hash = {"h1", "h2"}
  Kind = {"parent"}
  HashOf <- MCHashOf
  Edge <- MCEdge
  NoFamily = NoFamily
  BuiltIn <- MCBuiltIn
  BuiltInDefault <- MCBuiltInDefault
  UserProfile <- MCUserProfile
  RequestedModel <- MCRequestedModel
  MaxUserProfiles = 3
  Binary = Binary
  StampOf <- MCStampOf
  Body <- MCBody
  WordLen <- MCWordLen
  MinWordLen <- MCMinWordLen
  Query <- MCQuery
  Limits = {0, 1, 2, 5}
  HalfLife = 1
  FlatScore = 500
  Ln <- MCLn
  Pinned <- MCPinned
  PythonReply <- MCPythonReply
  NotGiven = NotGiven
  Path = {"p1", "p2"}
  Url = {"u1"}
  ConfigFile <- MCConfigFile
  EnvFile <- MCEnvFile
  StoredAt <- MCStoredAt
  Damaged = {"p1"}
  MaxCommands = 2
  Owner = {"s1", "s2"}
  Content = {"c1", "c2"}
  Nobody = Nobody
  PyThread = {th1, th2}
  PyObject = {"plain", "engine"}
  Finalizing = {"engine"}
  PyContent = {"c1"}
  NoState = NoState
  Malformed = Malformed
  Said = {"", "x", "y"}
  Envelope <- MCEnvelope
  Reducers = {"identity", "append-output", "json-events"}
  MaxTurns = 3
  Missing = Missing
  Id = {1, 2}
  Reason = {"HighRelevance", "Pinned", "Dependency"}
  Estimate = {5}
  MaxSelections = 3

SPECIFICATION MCSpec
CHECK_DEADLOCK FALSE
INVARIANTS
  ResolvesAsDocumented
  RankedAsEarned
  OnlyFinalizersBlock
  FinalizedWhenUnused
  CommittedOnce
  DiffIsExact
  RepairedStoreIsSafe
PROPERTIES
  DestroysOnlyAsTold
  ClosedMeansReleased
