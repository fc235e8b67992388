CONSTANTS
  h1 = h1
  h2 = h2
  c1 = c1
  c2 = c2
  c3 = c3
  None = None
  BlockId = {1, 2, 3}
  Session = {1, 2}
  Hash = {h1, h2}
  Kind = {"parent"}
  HashOf <- MCHashOf
  Edge <- MCEdge
  Conn = {c1, c2}
  Seed <- Empty
  Fresh = TRUE
  ScanOrder <- AnyOrder

SPECIFICATION Spec
SYMMETRY Symm

INVARIANTS
  TablesConsistent
  NoLeakWithoutOverlap
  PutNeverDeadlocks

PROPERTIES
  CallsTakeEffect
  ImplementsLooseStore
