CONSTANTS
  h1 = h1
  h2 = h2
  c1 = c1
  c2 = c2
  c3 = c3
  None = None
  BlockId = {1, 2}
  Session = {1, 2}
  Hash = {h1, h2}
  Kind = {"parent"}
  HashOf <- MCHashOf2
  Edge <- NoEdges
  Conn = {c1, c2, c3}
  Seed <- OneEach
  Fresh = TRUE
  ScanOrder <- AnyOrder

SPECIFICATION Spec
SYMMETRY Symm

INVARIANT NoOrphanBlock
