CONSTANTS
  h1 = h1
  c1 = c1
  c2 = c2
  sync = sync
  async = async
  u1 = u1
  u2 = u2
  u3 = u3
  None = None
  BlockId = {1}
  Session = {1}
  Hash = {h1}
  Kind = {"parent", "references"}
  HashOf <- MCHashOf
  Edge <- Loops
  Conn = {c1, c2}
  Seed <- One
  Fresh = FALSE
  ScanOrder <- AnyOrder
  Store = {sync, async}
  Sync = {sync}
  PoolOf <- MCPoolOf
  Mode <- MCMode
  Caller = {u1, u2, u3}
  StoreOf <- MCStoreOf
  Current = "1"
  Found <- MCFound

SPECIFICATION FairClientsSpec

INVARIANTS
  OpensDoNotCollide
  ReadyMeansInstalled
  ConnectionsArePrivate

PROPERTIES
  RefusedIsUntouched
  NobodyWaitsForever
