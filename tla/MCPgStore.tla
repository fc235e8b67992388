----------------------------- MODULE MCPgStore ------------------------------
(* Instances of PgStore for TLC. *)
EXTENDS PgStore, TLC, Sequences

CONSTANTS h1, h2, c1, c2, c3

(* Ids 1 and 2 carry the same content, 3 another. *)
MCHashOf == 1 :> h1 @@ 2 :> h1 @@ 3 :> h2
MCHashOf2 == 1 :> h1 @@ 2 :> h2

MCEdge == {<<1, "parent", 3>>}
NoEdges == {}

Empty == {}
(* Two sessions with a block of their own. *)
OneEach == {<<1, 1>>, <<2, 2>>}
(* One session with two blocks. *)
Two == {<<1, 1>>, <<1, 2>>}

AnyOrder == {}
(* Scans in key order: rows of one table, compared from the left. *)
KeyOrder ==
  LET R == RowOf(BlockId) \union (Session \X BlockId) IN
  {p \in R \X R :
     /\ Len(p[1]) = Len(p[2])
     /\ \E i \in DOMAIN p[1] :
          p[1][i] < p[2][i] /\ \A j \in 1..(i - 1) : p[1][j] = p[2][j]}

Symm == Permutations(Conn)
=============================================================================
