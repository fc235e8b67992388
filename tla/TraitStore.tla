------------------------------ MODULE TraitStore ------------------------------
(***************************************************************************)
(* What the calls of the BlockStore trait do to a store, for the front     *)
(* ends that make them (llm386-core/src/store.rs; the backends are shown   *)
(* to do this in LmdbStore and PgStore).  A block is known by its content, *)
(* which is what put deduplicates on.                                      *)
(***************************************************************************)
CONSTANTS Owner, Content   \* sessions; bodies, and so blocks

(* A store is [refs |-> <<session, block>> pairs, edges |-> <<from, to>>]. *)
StoredBlocks(store) == {r[2] : r \in store.refs}

WithBlock(store, s, b) == [store EXCEPT !.refs = @ \union {<<s, b>>}]
WithEdge(store, e) == [store EXCEPT !.edges = @ \union {e}]

(* The blocks that lose their last session go, and their edges with them.  *)
WithoutRefs(store, refs) ==
  LET left == {r[2] : r \in store.refs \ refs}
      gone == StoredBlocks(store) \ left
  IN [store EXCEPT !.refs = @ \ refs,
                   !.edges = {e \in @ : e[1] \notin gone /\ e[2] \notin gone}]

WithoutBlock(store, b) == WithoutRefs(store, {r \in store.refs : r[2] = b})
WithoutSession(store, s) == WithoutRefs(store, {r \in store.refs : r[1] = s})
=============================================================================
