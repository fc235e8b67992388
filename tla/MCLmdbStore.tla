---------------------------- MODULE MCLmdbStore -----------------------------
(* Instance of LmdbStore for TLC: ids 1 and 2 carry the same content. *)
EXTENDS LmdbStore, TLC

CONSTANTS h1, h2, s1, s2

MCHashOf == 1 :> h1 @@ 2 :> h1 @@ 3 :> h2
(* Both directions between 1 and 2, a second kind, a chain and a loop. *)
MCEdge == {<<1, "parent", 2>>, <<2, "parent", 1>>, <<1, "supports", 2>>,
           <<2, "parent", 3>>, <<3, "supports", 3>>}
=============================================================================
