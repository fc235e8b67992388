CONSTANTS
  h1 = h1
  h2 = h2
  s1 = s1
  s2 = s2
  None = None
  BlockId = {1, 2, 3}
  Session = {s1, s2}
  Hash = {h1, h2}
  Kind = {"parent", "supports"}
  HashOf <- MCHashOf
  Edge <- MCEdge

SPECIFICATION Spec

INVARIANTS
  TypeOK
  TablesAgree

PROPERTIES
  ImplementsBlockStore
