-------------------------- MODULE LmdbStoreProofs ---------------------------
(***************************************************************************)
(* The five tables of LmdbStore stay consistent, for every set of ids,     *)
(* sessions, contents and edge kinds, and the store they make up           *)
(* implements the BlockStore trait; and what repair makes of a store that  *)
(* lost entries is safe to use.                                            *)
(***************************************************************************)
EXTENDS LmdbDamage, RecursionTheorems, TLAPS

(* The inductive invariant: the tables are well typed and agree. *)
Inv == TypeOK /\ Consistent

-----------------------------------------------------------------------------
(* How the helpers change the tables of a consistent store.                *)

(* A session entry is a pair of a session and an id. *)
LEMMA SessionEntry ==
  ASSUME TypeOK, NEW r \in blocks_by_session
  PROVE  /\ r = <<r[1], r[2]>>
         /\ r[1] \in Session /\ r[2] \in BlockId
BY DEF TypeOK

(* An edge table and its mirror lose the same edges: those that touch G.   *)
LEMMA PurgeEdgesExact ==
  ASSUME TypeOK, EdgesMirrored, NEW G \in SUBSET BlockId, PurgeEdges(G)
  PROVE  /\ edges_from' = {e \in edges_from : e[1] \notin G /\ e[3] \notin G}
         /\ edges_to' = {e \in edges_to : e[1] \notin G /\ e[3] \notin G}
         /\ EdgesMirrored'
<1>1. \A e \in BlockId \X Kind \X BlockId :
        /\ Mirror(e) \in BlockId \X Kind \X BlockId
        /\ Mirror(Mirror(e)) = e
        /\ Mirror(e)[1] = e[3] /\ Mirror(e)[3] = e[1]
  BY DEF Mirror
<1>2. edges_from' = {e \in edges_from : e[1] \notin G /\ e[3] \notin G}
  BY DEF PurgeEdges, EdgesMirrored, TypeOK
<1>3. edges_to' = {e \in edges_to : e[1] \notin G /\ e[3] \notin G}
  BY <1>1 DEF PurgeEdges, EdgesMirrored, TypeOK
<1>4. EdgesMirrored'
  <2> SUFFICES ASSUME NEW e \in BlockId \X Kind \X BlockId
               PROVE  e \in edges_from' <=> Mirror(e) \in edges_to'
    BY DEF EdgesMirrored, Mirror
  <2>1. e \in edges_from <=> Mirror(e) \in edges_to
    BY DEF EdgesMirrored
  <2>2. QED BY <1>1, <1>2, <1>3, <2>1
<1>5. QED BY <1>2, <1>3, <1>4

(* Dropping blocks takes exactly their own rows and hash entries. *)
LEMMA DropBlocksExact ==
  ASSUME TypeOK, HashIndexExact, RowsGenuine,
         NEW G \in SUBSET BlockId, DropBlocks(G)
  PROVE  /\ HashIndexExact' /\ RowsGenuine'
         /\ Stored' = Stored \ G
         /\ blocks_by_id' \in [BlockId -> Hash \union {None}]
         /\ blocks_by_hash' \in [Hash -> BlockId \union {None}]
<1>1. blocks_by_id' \in [BlockId -> Hash \union {None}]
  BY DEF DropBlocks, TypeOK
<1>2. blocks_by_hash' \in [Hash -> BlockId \union {None}]
  BY DEF DropBlocks, TypeOK
<1>3. Stored' = Stored \ G
  BY DEF DropBlocks, Stored
<1>4. RowsGenuine'
  BY <1>3 DEF RowsGenuine, DropBlocks, Stored
<1>5. HashIndexExact'
  <2> SUFFICES ASSUME NEW h \in Hash, NEW b \in BlockId
               PROVE  blocks_by_hash'[h] = b <=> blocks_by_id'[b] = h
    BY DEF HashIndexExact
  <2>1. blocks_by_hash'[h] = IF \E x \in G : blocks_by_id[x] = h
                               THEN None ELSE blocks_by_hash[h]
    BY DEF DropBlocks
  <2>2. blocks_by_id'[b] = IF b \in G THEN None ELSE blocks_by_id[b]
    BY DEF DropBlocks
  <2>3. h # None /\ b # None
    BY NoneAssumption
  <2>4. \A x \in BlockId : blocks_by_hash[h] = x <=> blocks_by_id[x] = h
    BY DEF HashIndexExact
  <2>5. CASE \E x \in G : blocks_by_id[x] = h
    BY <2>1, <2>2, <2>3, <2>4, <2>5
  <2>6. CASE ~\E x \in G : blocks_by_id[x] = h
    BY <2>1, <2>2, <2>3, <2>4, <2>6
  <2>7. QED BY <2>5, <2>6
<1>6. QED BY <1>1, <1>2, <1>3, <1>4, <1>5

(* A consistent hash index is the one repair would rebuild. *)
LEMMA RebuildIsIdentity ==
  ASSUME TypeOK, HashIndexExact
  PROVE  HashIndexOf(blocks_by_id) = blocks_by_hash
<1>1. ASSUME NEW h \in Hash
      PROVE  HashIndexOf(blocks_by_id)[h] = blocks_by_hash[h]
  <2> DEFINE ids == {b \in BlockId : blocks_by_id[b] = h}
  <2>1. CASE ids = {}
    <3>1. blocks_by_hash[h] \notin BlockId
      BY <2>1 DEF HashIndexExact
    <3>2. QED BY <2>1, <3>1 DEF HashIndexOf, TypeOK
  <2>2. CASE ids # {}
    <3>1. PICK m \in BlockId : blocks_by_id[m] = h
      BY <2>2
    <3>2. blocks_by_hash[h] = m
      BY <3>1 DEF HashIndexExact
    <3>3. ids = {m}
      BY <3>1, <3>2 DEF HashIndexExact
    <3>4. (CHOOSE b \in ids : \A x \in ids : x <= b) = m
      BY <3>3, BlockIdAssumption
    <3>5. QED BY <2>2, <3>2, <3>4 DEF HashIndexOf
  <2>3. QED BY <2>1, <2>2
<1>2. QED BY <1>1 DEF HashIndexOf, TypeOK

-----------------------------------------------------------------------------
(* Each operation preserves the invariant.                                 *)

(* A put onto content already indexed adds a session to a stored block. *)
LEMMA PutDedupInv ==
  ASSUME Inv, NEW s \in Session, NEW b \in BlockId, PutDedup(s, b)
  PROVE  Inv'
<1> DEFINE existing == blocks_by_hash[HashOf[b]]
<1>1. existing \in BlockId /\ existing \in Stored
  BY HashOfAssumption, NoneAssumption
     DEF PutDedup, Inv, TypeOK, Consistent, HashIndexExact, Stored
<1>2. UNCHANGED <<blocks_by_id, blocks_by_hash, edges_from, edges_to>>
  BY DEF PutDedup, edgeVars
<1>3. blocks_by_session' = blocks_by_session \union {<<s, existing>>}
  BY DEF PutDedup
<1>4. TypeOK'
  BY <1>1, <1>2, <1>3 DEF Inv, TypeOK
<1>5. SessionsExact'
  BY <1>1, <1>2, <1>3 DEF Inv, Consistent, SessionsExact, Stored, SessionKeys
<1>6. HashIndexExact' /\ EdgesMirrored' /\ RowsGenuine'
  BY <1>2 DEF Inv, Consistent, HashIndexExact, EdgesMirrored, RowsGenuine, Stored
<1>7. QED BY <1>4, <1>5, <1>6 DEF Inv, Consistent

(* A put of new content adds a row, its hash entry and its session together. *)
LEMMA PutFreshInv ==
  ASSUME Inv, NEW s \in Session, NEW b \in BlockId, PutFresh(s, b)
  PROVE  Inv'
<1>1. HashOf[b] \in Hash /\ HashOf[b] # None /\ b # None
  BY HashOfAssumption, NoneAssumption
<1>2. /\ blocks_by_id' = [blocks_by_id EXCEPT ![b] = HashOf[b]]
      /\ blocks_by_hash' = [blocks_by_hash EXCEPT ![HashOf[b]] = b]
      /\ blocks_by_session' = blocks_by_session \union {<<s, b>>}
      /\ UNCHANGED <<edges_from, edges_to>>
      /\ blocks_by_hash[HashOf[b]] = None
  BY DEF PutFresh, edgeVars
<1>3. b \notin Stored
  BY <1>1, <1>2 DEF Inv, Consistent, RowsGenuine, HashIndexExact, Stored
<1>4. Stored' = Stored \union {b}
  BY <1>1, <1>2 DEF Inv, TypeOK, Stored
<1>5. TypeOK'
  BY <1>1, <1>2 DEF Inv, TypeOK
<1>6. RowsGenuine'
  BY <1>2, <1>4 DEF Inv, TypeOK, Consistent, RowsGenuine, Stored
<1>7. SessionsExact'
  <2>1. <<s, b>>[2] = b
    OBVIOUS
  <2>2. \A r \in blocks_by_session' : r[2] \in Stored'
    BY <1>2, <1>4, <2>1 DEF Inv, Consistent, SessionsExact
  <2>3. \A x \in Stored' : SessionKeys(x)' # {}
    BY <1>2, <1>4, <2>1 DEF Inv, Consistent, SessionsExact, SessionKeys
  <2>4. QED BY <2>2, <2>3 DEF SessionsExact
<1>8. HashIndexExact'
  <2> SUFFICES ASSUME NEW h \in Hash, NEW x \in BlockId
               PROVE  blocks_by_hash'[h] = x <=> blocks_by_id'[x] = h
    BY DEF HashIndexExact
  <2>1. blocks_by_hash[h] = x <=> blocks_by_id[x] = h
    BY DEF Inv, Consistent, HashIndexExact
  <2>2. blocks_by_id[b] = None
    BY <1>3 DEF Stored
  <2>3. blocks_by_hash'[h] = IF h = HashOf[b] THEN b ELSE blocks_by_hash[h]
    BY <1>1, <1>2 DEF Inv, TypeOK
  <2>4. blocks_by_id'[x] = IF x = b THEN HashOf[b] ELSE blocks_by_id[x]
    BY <1>1, <1>2 DEF Inv, TypeOK
  <2>5. h # None /\ x # None
    BY NoneAssumption
  <2>6. QED BY <1>2, <2>1, <2>2, <2>3, <2>4, <2>5
<1>9. EdgesMirrored'
  BY <1>2 DEF Inv, Consistent, EdgesMirrored
<1>10. QED BY <1>5, <1>6, <1>7, <1>8, <1>9 DEF Inv, Consistent

(* delete takes row, hash entry, session entries and edges together. *)
LEMMA DeletePresentInv ==
  ASSUME Inv, NEW b \in BlockId, DeletePresent(b)
  PROVE  Inv'
<1>1. /\ HashIndexExact' /\ RowsGenuine' /\ Stored' = Stored \ {b}
      /\ blocks_by_id' \in [BlockId -> Hash \union {None}]
      /\ blocks_by_hash' \in [Hash -> BlockId \union {None}]
  BY DropBlocksExact DEF DeletePresent, Inv, Consistent
<1>2. /\ edges_from' \subseteq edges_from /\ edges_to' \subseteq edges_to
      /\ EdgesMirrored'
  BY PurgeEdgesExact DEF DeletePresent, Inv, Consistent
<1>3. blocks_by_session' = blocks_by_session \ SessionKeys(b)
  BY DEF DeletePresent
<1>4. TypeOK'
  BY <1>1, <1>2, <1>3 DEF Inv, TypeOK
<1>5. SessionsExact'
  BY <1>1, <1>3 DEF Inv, Consistent, SessionsExact, SessionKeys
<1>6. QED BY <1>1, <1>2, <1>4, <1>5 DEF Inv, Consistent

(* purge_session drops just the blocks that only this session held. *)
LEMMA PurgeInv ==
  ASSUME Inv, NEW s \in Session, Purge(s)
  PROVE  Inv'
<1>0. Unshared(s) \in SUBSET BlockId
  BY DEF Unshared, BlocksOf
<1>1. /\ HashIndexExact' /\ RowsGenuine' /\ Stored' = Stored \ Unshared(s)
      /\ blocks_by_id' \in [BlockId -> Hash \union {None}]
      /\ blocks_by_hash' \in [Hash -> BlockId \union {None}]
  BY <1>0, DropBlocksExact DEF Purge, Inv, Consistent
<1>2. /\ edges_from' \subseteq edges_from /\ edges_to' \subseteq edges_to
      /\ EdgesMirrored'
  BY <1>0, PurgeEdgesExact DEF Purge, Inv, Consistent
<1>3. blocks_by_session' = {r \in blocks_by_session : r[1] # s}
  BY DEF Purge
<1>4. TypeOK'
  BY <1>1, <1>2, <1>3 DEF Inv, TypeOK
<1>5. SessionsExact'
  <2>1. ASSUME NEW r \in blocks_by_session'
        PROVE  r[2] \in Stored'
    <3>1. r \in blocks_by_session /\ r[1] # s
      BY <1>3
    <3>2. r[2] \in Stored
      BY <3>1 DEF Inv, Consistent, SessionsExact
    <3>3. r[2] \notin Unshared(s)
      BY <3>1 DEF Unshared, SessionKeys
    <3>4. QED BY <1>1, <3>2, <3>3
  <2>2. ASSUME NEW b \in Stored'
        PROVE  SessionKeys(b)' # {}
    <3>1. b \in BlockId /\ b \in Stored /\ b \notin Unshared(s)
      BY <1>1 DEF Stored
    <3>2. PICK r \in blocks_by_session : r[2] = b
      BY <3>1 DEF Inv, Consistent, SessionsExact, SessionKeys
    <3>3. CASE b \notin BlocksOf(s)
      <4>1. r[1] # s
        BY <3>1, <3>2, <3>3 DEF BlocksOf, Inv, TypeOK
      <4>2. QED BY <1>3, <3>2, <4>1 DEF SessionKeys
    <3>4. CASE b \in BlocksOf(s)
      <4>1. SessionKeys(b) # {<<s, b>>} /\ <<s, b>> \in SessionKeys(b)
        BY <3>1, <3>4 DEF Unshared, BlocksOf, SessionKeys
      <4>2. PICK q \in SessionKeys(b) : q # <<s, b>>
        BY <4>1
      <4>3. q \in blocks_by_session /\ q[2] = b /\ q[1] # s
        BY <4>2 DEF SessionKeys, Inv, TypeOK
      <4>4. QED BY <1>3, <4>3 DEF SessionKeys
    <3>5. QED BY <3>3, <3>4
  <2>3. QED BY <2>1, <2>2 DEF SessionsExact
<1>6. QED BY <1>1, <1>2, <1>4, <1>5 DEF Inv, Consistent

(* put_edge writes both edge tables. *)
LEMMA PutEdgeInv ==
  ASSUME Inv, NEW e \in Edge, PutEdge(e)
  PROVE  Inv'
<1>0. e \in BlockId \X Kind \X BlockId
  BY EdgeAssumption
<1>1. /\ edges_from' = edges_from \union {e}
      /\ edges_to' = edges_to \union {Mirror(e)}
      /\ UNCHANGED <<blocks_by_id, blocks_by_hash, blocks_by_session>>
  BY DEF PutEdge, indexVars
<1>2. TypeOK'
  BY <1>0, <1>1 DEF Inv, TypeOK, Mirror
<1>3. EdgesMirrored'
  BY <1>0, <1>1 DEF Inv, Consistent, EdgesMirrored, Mirror
<1>4. HashIndexExact' /\ SessionsExact' /\ RowsGenuine'
  BY <1>1 DEF Inv, Consistent, HashIndexExact, SessionsExact, RowsGenuine,
              Stored, SessionKeys
<1>5. QED BY <1>2, <1>3, <1>4 DEF Inv, Consistent

(* Repair finds nothing to do: no table changes. *)
LEMMA RepairChangesNothing ==
  ASSUME Inv, Repair
  PROVE  UNCHANGED <<indexVars, edgeVars>> /\ reply' = [op |-> "repair", val |-> {}]
<1>1. UNCHANGED blocks_by_hash
  BY RebuildIsIdentity DEF Repair, Inv, Consistent
<1>2. UNCHANGED blocks_by_session
  BY DEF Repair, Inv, Consistent, SessionsExact
<1>3. {b \in Stored : SessionKeys(b) = {}} = {}
  BY DEF Inv, Consistent, SessionsExact
<1>4. QED BY <1>1, <1>2, <1>3 DEF Repair, Reply, indexVars, edgeVars

(* The tables are all the invariant speaks of. *)
LEMMA SameTablesInv ==
  ASSUME Inv, UNCHANGED <<indexVars, edgeVars>>
  PROVE  Inv'
BY DEF Inv, TypeOK, Consistent, HashIndexExact, SessionsExact, EdgesMirrored,
       RowsGenuine, Stored, SessionKeys, indexVars, edgeVars

(* A store just created is consistent. *)
LEMMA InitInv == Init => Inv
<1> SUFFICES ASSUME Init PROVE Inv
  OBVIOUS
<1>1. Stored = {}
  BY DEF Init, Stored
<1>2. HashIndexExact
  BY NoneAssumption DEF Init, HashIndexExact
<1>3. QED
  BY <1>1, <1>2 DEF Init, Inv, TypeOK, Consistent, SessionsExact, EdgesMirrored,
                    RowsGenuine

(* Every operation, and doing nothing, preserves the invariant. *)
LEMMA NextInv == Inv /\ [Next]_vars => Inv'
<1> SUFFICES ASSUME Inv, [Next]_vars PROVE Inv'
  OBVIOUS
<1>1. ASSUME NEW s \in Session, NEW b \in BlockId, PutDedup(s, b) \/ PutFresh(s, b)
      PROVE  Inv'
  BY <1>1, PutDedupInv, PutFreshInv
<1>2. ASSUME NEW b \in BlockId, DeleteAbsent(b) \/ DeletePresent(b)
      PROVE  Inv'
  BY <1>2, DeletePresentInv, SameTablesInv DEF DeleteAbsent
<1>3. ASSUME NEW s \in Session, Purge(s)
      PROVE  Inv'
  BY <1>3, PurgeInv
<1>4. ASSUME NEW e \in Edge, PutEdge(e)
      PROVE  Inv'
  BY <1>4, PutEdgeInv
<1>5. CASE Read
  BY <1>5, SameTablesInv DEF Read
<1>6. CASE Repair
  BY <1>6, RepairChangesNothing, SameTablesInv
<1>7. CASE Verify
  BY <1>7, SameTablesInv DEF Verify
<1>8. CASE UNCHANGED vars
  BY <1>8, SameTablesInv DEF vars
<1>9. QED
  BY <1>1, <1>2, <1>3, <1>4, <1>5, <1>6, <1>7, <1>8 DEF Next

(* The tables of LmdbStore are well typed and agree in every state. *)
THEOREM Invariance == Spec => []Inv
BY InitInv, NextInv, PTL DEF Spec

-----------------------------------------------------------------------------
(* The theorems. *)

(* put, delete, purge_session and repair keep every table well typed. *)
THEOREM TypeCorrect == Spec => []TypeOK
BY Invariance, PTL DEF Inv

(***************************************************************************)
(* put, delete and purge_session keep blocks_by_hash the exact inverse of  *)
(* blocks_by_id, so deduplication is sound whatever the history.           *)
(***************************************************************************)
THEOREM HashIndexCorrect == Spec => []HashIndexExact
BY Invariance, PTL DEF Inv, Consistent

(***************************************************************************)
(* delete and purge_session never leave a session entry without its block  *)
(* nor a block that no session lists.                                      *)
(***************************************************************************)
THEOREM SessionsCorrect == Spec => []SessionsExact
BY Invariance, PTL DEF Inv, Consistent

(***************************************************************************)
(* delete and purge_session take every edge of a block they remove with it.*)
(***************************************************************************)
THEOREM EdgesDie == Spec => EdgesDieWithBlock
<1> DEFINE Dies == \A b \in Stored \ Stored' : \A e \in edges_from' : b \notin {e[1], e[3]}
<1>1. ASSUME Inv, [Next]_vars
      PROVE  Dies
  <2>1. ASSUME NEW s \in Session, NEW b \in BlockId, PutDedup(s, b) \/ PutFresh(s, b)
        PROVE  Dies
    <3>1. ASSUME NEW x \in Stored
          PROVE  x \in Stored'
      <4>1. x \in BlockId /\ blocks_by_id[x] # None
        BY DEF Stored
      <4>2. blocks_by_id'[x] \in {blocks_by_id[x], HashOf[b]}
        BY <1>1, <2>1, <4>1 DEF PutDedup, PutFresh, Inv, TypeOK
      <4>3. QED BY <4>1, <4>2, HashOfAssumption, NoneAssumption DEF Stored
    <3>2. QED BY <3>1
  <2>2. ASSUME NEW b \in BlockId, DeleteAbsent(b)
        PROVE  Dies
    BY <2>2 DEF DeleteAbsent, indexVars, Stored
  <2>3. ASSUME NEW b \in BlockId, DeletePresent(b)
        PROVE  Dies
    <3>1. Stored' = Stored \ {b}
      BY <1>1, <2>3, DropBlocksExact DEF DeletePresent, Inv, Consistent
    <3>2. edges_from' = {e \in edges_from : e[1] \notin {b} /\ e[3] \notin {b}}
      BY <1>1, <2>3, PurgeEdgesExact DEF DeletePresent, Inv, Consistent
    <3>3. QED BY <3>1, <3>2
  <2>4. ASSUME NEW s \in Session, Purge(s)
        PROVE  Dies
    <3> DEFINE G == Unshared(s)
    <3>0. G \in SUBSET BlockId
      BY DEF Unshared, BlocksOf
    <3>1. Stored' = Stored \ G
      BY <1>1, <2>4, <3>0, DropBlocksExact DEF Purge, Inv, Consistent
    <3>2. edges_from' = {e \in edges_from : e[1] \notin G /\ e[3] \notin G}
      BY <1>1, <2>4, <3>0, PurgeEdgesExact DEF Purge, Inv, Consistent
    <3> HIDE DEF G
    <3>3. QED BY <3>1, <3>2
  <2>5. CASE \/ \E e \in Edge : PutEdge(e)
             \/ Read \/ Repair \/ Verify \/ UNCHANGED vars
    BY <2>5 DEF PutEdge, Read, Repair, Verify, vars, indexVars, Stored
  <2>6. QED
    BY <1>1, <2>1, <2>2, <2>3, <2>4, <2>5 DEF Next
<1>2. Inv /\ [Next]_vars => [Dies]_vars
  BY <1>1
<1>3. QED BY <1>2, Invariance, PTL DEF Spec, EdgesDieWithBlock

(* put_edge and purge_edges_for_block keep both edge tables mirrored. *)
THEOREM EdgesCorrect == Spec => []EdgesMirrored
BY Invariance, PTL DEF Inv, Consistent

(***************************************************************************)
(* The tables agree after any history of calls, although each of put,      *)
(* delete, purge_session and put_edge writes several of them.              *)
(***************************************************************************)
THEOREM TablesAgreeAlways == Spec => []TablesAgree
<1>1. Inv => TablesAgree
  BY DEF Inv, Consistent, TablesAgree
<1>2. QED BY <1>1, Invariance, PTL

-----------------------------------------------------------------------------
(* LmdbStore implements BlockStore.                                        *)

(* The stored blocks of a given content are those of the hash index. *)
LEMMA SameContentIndexed ==
  ASSUME Inv, NEW h \in Hash
  PROVE  /\ {b \in Stored : HashOf[b] = h} = {blocks_by_hash[h]} \ {None}
         /\ blocks_by_hash[h] # None => blocks_by_hash[h] \in Stored
<1>1. \A b \in BlockId : b # None
  BY NoneAssumption
<1>2. \A b \in Stored : b \in BlockId /\ (HashOf[b] = h <=> blocks_by_hash[h] = b)
  <2> SUFFICES ASSUME NEW b \in Stored
               PROVE  b \in BlockId /\ (HashOf[b] = h <=> blocks_by_hash[h] = b)
    OBVIOUS
  <2>1. b \in BlockId
    BY DEF Stored
  <2>2. blocks_by_id[b] = HashOf[b]
    BY DEF Inv, Consistent, RowsGenuine
  <2>3. blocks_by_hash[h] = b <=> blocks_by_id[b] = h
    BY <2>1 DEF Inv, Consistent, HashIndexExact
  <2>4. QED BY <2>1, <2>2, <2>3
<1>3. blocks_by_hash[h] # None => blocks_by_hash[h] \in Stored
  BY NoneAssumption DEF Inv, TypeOK, Consistent, HashIndexExact, Stored
<1>4. QED BY <1>1, <1>2, <1>3

(* put, new content or old, is the trait's put. *)
LEMMA PutImplements ==
  ASSUME Inv, NEW s \in Session, NEW b \in BlockId, PutDedup(s, b) \/ PutFresh(s, b)
  PROVE  BS!Put(s, b)
<1> DEFINE h == HashOf[b]
<1>1. h \in Hash
  BY HashOfAssumption
<1>2. BS!SameContent(b) = {blocks_by_hash[h]} \ {None}
  BY <1>1, SameContentIndexed DEF BS!SameContent
<1>3. CASE PutDedup(s, b)
  <2> DEFINE id == blocks_by_hash[h]
  <2>1. id \in Stored /\ id \in BlockId /\ id \in BS!SameContent(b)
    BY <1>1, <1>2, <1>3, SameContentIndexed DEF PutDedup, Stored
  <2>2. Stored' = Stored \union {id}
    BY <1>3, <2>1 DEF PutDedup, Stored
  <2>3. QED BY <1>3, <2>1, <2>2 DEF PutDedup, BS!Put, Reply, BS!Reply, edgeVars
<1>4. CASE PutFresh(s, b)
  <2>1. BS!SameContent(b) = {}
    BY <1>2, <1>4 DEF PutFresh
  <2>2. Stored' = Stored \union {b}
    BY <1>1, <1>4, NoneAssumption DEF PutFresh, Stored, Inv, TypeOK
  <2>3. QED BY <1>4, <2>1, <2>2 DEF PutFresh, BS!Put, Reply, BS!Reply, edgeVars
<1>5. QED BY <1>3, <1>4

(* delete, of a present or an absent block, is the trait's delete. *)
LEMMA DeleteImplements ==
  ASSUME Inv, NEW b \in BlockId, DeleteAbsent(b) \/ DeletePresent(b)
  PROVE  BS!Delete(b)
<1>1. BS!SessionsOf(b) # {} <=> SessionKeys(b) # {}
  <2>1. ASSUME NEW s \in BS!SessionsOf(b)
        PROVE  <<s, b>> \in SessionKeys(b)
    BY DEF BS!SessionsOf, SessionKeys
  <2>2. ASSUME NEW r \in SessionKeys(b)
        PROVE  r[1] \in BS!SessionsOf(b)
    <3>1. r \in blocks_by_session /\ r[2] = b
      BY DEF SessionKeys
    <3>2. r = <<r[1], b>> /\ r[1] \in Session
      BY <3>1, SessionEntry DEF Inv
    <3>3. QED BY <3>1, <3>2 DEF BS!SessionsOf
  <2>3. QED BY <2>1, <2>2
<1>2. CASE DeleteAbsent(b)
  <2>1. UNCHANGED Stored /\ Stored \ {b} = Stored
    BY <1>2 DEF DeleteAbsent, indexVars, Stored
  <2>2. {r \in blocks_by_session : r[2] # b} = blocks_by_session
    BY <1>2 DEF DeleteAbsent, SessionKeys
  <2>3. QED BY <1>1, <1>2, <2>1, <2>2
            DEF DeleteAbsent, BS!Delete, Reply, BS!Reply, indexVars, edgeVars
<1>3. CASE DeletePresent(b)
  <2>1. Stored' = Stored \ {b}
    BY <1>3, DropBlocksExact DEF DeletePresent, Inv, Consistent
  <2>2. blocks_by_session' = {r \in blocks_by_session : r[2] # b}
    BY <1>3 DEF DeletePresent, SessionKeys
  <2>3. edges_from' = {e \in edges_from : e[1] \notin {b} /\ e[3] \notin {b}}
    BY <1>3, PurgeEdgesExact DEF DeletePresent, Inv, Consistent
  <2>4. edges_from' = edges_from \ BS!Incident({b})
    BY <2>3 DEF BS!Incident
  <2>5. reply' = [op |-> "delete", val |-> TRUE]
    BY <1>3 DEF DeletePresent, Reply
  <2>6. b \in Stored \/ BS!SessionsOf(b) # {}
    BY <1>1, <1>3 DEF DeletePresent
  <2>7. BS!Reply("delete", b \in Stored \/ BS!SessionsOf(b) # {})
    BY <2>5, <2>6 DEF BS!Reply
  <2>8. QED BY <2>1, <2>2, <2>4, <2>7 DEF BS!Delete
<1>4. QED BY <1>2, <1>3

(* purge_session is the trait's purge: same blocks, same edges, same reply. *)
LEMMA PurgeImplements ==
  ASSUME Inv, NEW s \in Session, Purge(s)
  PROVE  BS!Purge(s)
<1> DEFINE gone == {b \in BS!BlocksOf(s) : BS!SessionsOf(b) = {s}}
<1>1. gone = Unshared(s)
  <2>1. ASSUME NEW b \in BlocksOf(s)
        PROVE  BS!SessionsOf(b) = {s} <=> SessionKeys(b) = {<<s, b>>}
    BY <2>1 DEF BlocksOf, BS!SessionsOf, SessionKeys, Inv, TypeOK
  <2>2. BS!BlocksOf(s) = BlocksOf(s)
    BY DEF BS!BlocksOf, BlocksOf
  <2>3. BlocksOf(s) \subseteq Stored
    BY DEF BlocksOf, Inv, Consistent, SessionsExact
  <2>4. QED BY <2>1, <2>2, <2>3 DEF Unshared
<1>2. Unshared(s) \in SUBSET BlockId
  BY DEF Unshared, BlocksOf
<1>3. Stored' = Stored \ gone
  BY <1>1, <1>2, DropBlocksExact DEF Purge, Inv, Consistent
<1>4. edges_from' = edges_from \ BS!Incident(gone)
  BY <1>1, <1>2, PurgeEdgesExact DEF Purge, Inv, Consistent, BS!Incident
<1>5. /\ blocks_by_session' = {r \in blocks_by_session : r[1] # s}
      /\ BS!Reply("purge", BS!BlocksOf(s))
  BY DEF Purge, Reply, BS!Reply, BS!BlocksOf, BlocksOf
<1>6. QED BY <1>3, <1>4, <1>5 DEF BS!Purge

(* Every read answers from the tables as the trait answers from its sets. *)
LEMMA ReadImplements ==
  ASSUME Inv, Read
  PROVE  BS!Read
<1>1. UNCHANGED <<Stored, blocks_by_session, edges_from>>
  BY DEF Read, indexVars, edgeVars, Stored
<1>2. ASSUME NEW b \in BlockId, Get(b) \/ EdgesFrom(b)
      PROVE  BS!Get(b) \/ BS!EdgesFrom(b)
  BY <1>2 DEF Get, EdgesFrom, BS!Get, BS!EdgesFrom, Reply, BS!Reply
<1>3. ASSUME NEW b \in BlockId, EdgesTo(b)
      PROVE  BS!EdgesTo(b)
  <2>1. {Mirror(e) : e \in {x \in edges_to : x[1] = b}} = {e \in edges_from : e[3] = b}
    <3>1. ASSUME NEW x \in edges_to, x[1] = b
          PROVE  Mirror(x) \in edges_from /\ Mirror(x)[3] = b
      <4>1. x \in BlockId \X Kind \X BlockId
        BY DEF Inv, TypeOK
      <4>2. Mirror(x) \in BlockId \X Kind \X BlockId /\ Mirror(Mirror(x)) = x
        BY <4>1 DEF Mirror
      <4>3. QED BY <3>1, <4>2 DEF Mirror, Inv, Consistent, EdgesMirrored
    <3>2. ASSUME NEW e \in edges_from, e[3] = b
          PROVE  /\ Mirror(e) \in edges_to /\ Mirror(e)[1] = b
                 /\ Mirror(Mirror(e)) = e
      <4>1. e \in BlockId \X Kind \X BlockId
        BY DEF Inv, TypeOK
      <4>2. QED BY <3>2, <4>1 DEF Mirror, Inv, Consistent, EdgesMirrored
    <3>3. QED BY <3>1, <3>2
  <2>2. QED BY <1>3, <2>1 DEF EdgesTo, BS!EdgesTo, Reply, BS!Reply
<1>4. ASSUME NEW s \in Session, ListSession(s)
      PROVE  BS!ListSession(s)
  BY <1>4 DEF ListSession, BS!ListSession, BlocksOf, BS!BlocksOf, Reply, BS!Reply
<1>5. ASSUME NEW h \in Hash, LookupHash(h)
      PROVE  BS!LookupHash(h)
  BY <1>5, SameContentIndexed DEF LookupHash, BS!LookupHash, Reply, BS!Reply
<1>6. ASSUME ListSessions
      PROVE  BS!ListSessions
  <2>1. {s \in Session : \E r \in blocks_by_session : r[1] = s}
          = {s \in Session : BS!BlocksOf(s) # {}}
    <3>1. ASSUME NEW s \in Session, NEW r \in blocks_by_session, r[1] = s
          PROVE  r[2] \in BS!BlocksOf(s)
      <4>1. r = <<s, r[2]>> /\ r[2] \in BlockId
        BY <3>1, SessionEntry DEF Inv
      <4>2. QED BY <4>1 DEF BS!BlocksOf
    <3>2. ASSUME NEW s \in Session, NEW b \in BS!BlocksOf(s)
          PROVE  <<s, b>> \in blocks_by_session /\ <<s, b>>[1] = s
      BY DEF BS!BlocksOf
    <3>3. QED BY <3>1, <3>2
  <2>2. QED BY <1>6, <2>1 DEF ListSessions, BS!ListSessions, Reply, BS!Reply
<1>7. \/ \E b \in BlockId : BS!Get(b) \/ BS!EdgesFrom(b) \/ BS!EdgesTo(b)
      \/ \E s \in Session : BS!ListSession(s)
      \/ \E h \in Hash : BS!LookupHash(h)
      \/ BS!ListSessions
  BY <1>2, <1>3, <1>4, <1>5, <1>6 DEF Read
<1>8. QED BY <1>1, <1>7 DEF BS!Read

(***************************************************************************)
(* What callers of LmdbStore see, replies included, is what the trait      *)
(* promises; verify and repair find nothing in a store damage never hit.   *)
(***************************************************************************)
THEOREM Implementation == Spec => ImplementsBlockStore
<1>1. Init => BS!Init
  BY DEF Init, BS!Init, Stored
<1>2. Inv /\ [Next]_vars => [BS!Next]_(BS!vars)
  <2> SUFFICES ASSUME Inv, [Next]_vars PROVE BS!Next \/ UNCHANGED BS!vars
    OBVIOUS
  <2>1. ASSUME NEW s \in Session, NEW b \in BlockId, PutDedup(s, b) \/ PutFresh(s, b)
        PROVE  BS!Next
    BY <2>1, PutImplements DEF BS!Next
  <2>2. ASSUME NEW b \in BlockId, DeleteAbsent(b) \/ DeletePresent(b)
        PROVE  BS!Next
    BY <2>2, DeleteImplements DEF BS!Next
  <2>3. ASSUME NEW s \in Session, Purge(s)
        PROVE  BS!Next
    BY <2>3, PurgeImplements DEF BS!Next
  <2>4. ASSUME NEW e \in Edge, PutEdge(e)
        PROVE  BS!Next
    <3>1. BS!PutEdge(e)
      <4>1. UNCHANGED <<Stored, blocks_by_session>>
        BY <2>4 DEF PutEdge, indexVars, Stored
      <4>2. QED BY <2>4, <4>1 DEF PutEdge, BS!PutEdge, Reply, BS!Reply
    <3>2. QED BY <2>4, <3>1 DEF BS!Next
  <2>5. CASE Read
    BY <2>5, ReadImplements DEF BS!Next
  <2>6. CASE Repair
    <3>1. BS!Maintain
      BY <2>6, RepairChangesNothing DEF BS!Maintain, BS!Reply, indexVars, edgeVars, Stored
    <3>2. QED BY <3>1 DEF BS!Next
  <2>7. CASE Verify
    <3>1. IsClean
      <4>1. \A b \in Stored : blocks_by_hash[blocks_by_id[b]] = b /\ b # None
        BY NoneAssumption DEF Inv, TypeOK, Consistent, HashIndexExact, Stored
      <4>2. QED
        BY <4>1 DEF IsClean, MissingFromHashIndex, HashIndexMisroutes,
             OrphanSessionEntries, BlocksWithNoSession, Inv, Consistent, SessionsExact
    <3>2. reply' = [op |-> "verify", val |-> TRUE]
      BY <2>7, <3>1 DEF Verify, Reply
    <3>3. BS!Maintain
      BY <2>7, <3>2 DEF Verify, BS!Maintain, BS!Reply, indexVars, edgeVars, Stored
    <3>4. QED BY <3>3 DEF BS!Next
  <2>8. CASE UNCHANGED vars
    BY <2>8 DEF vars, indexVars, edgeVars, BS!vars, Stored
  <2>9. QED
    BY <2>1, <2>2, <2>3, <2>4, <2>5, <2>6, <2>7, <2>8 DEF Next
<1>3. QED BY <1>1, <1>2, Invariance, PTL DEF Spec, ImplementsBlockStore, BS!Spec
-----------------------------------------------------------------------------
(* A store that loses entries.                                             *)

(* A hash entry names an id of that content, stored or not. *)
EntriesGenuine == \A h \in Hash : blocks_by_hash[h] # None => HashOf[blocks_by_hash[h]] = h

IndexTypeOK ==
  /\ blocks_by_id \in [BlockId -> Hash \union {None}]
  /\ blocks_by_hash \in [Hash -> BlockId \union {None}]
  /\ blocks_by_session \subseteq Session \X BlockId

(* The store is finite: repair finds a highest id among its rows. *)
StoreBounded == \E n \in Nat : \A b \in Stored : b <= n

(* What no loss can take away, and what repair restores. *)
DamageInv ==
  IndexTypeOK /\ StoreBounded /\ RowsGenuine /\ EntriesGenuine /\ RepairedStoreIsSafe

(* Fewer rows have the same bound, and one row more has another. *)
LEMMA StillBounded ==
  ASSUME StoreBounded, NEW b \in BlockId, Stored' \subseteq Stored \union {b}
  PROVE  StoreBounded'
<1>1. PICK n \in Nat : \A x \in Stored : x <= n
  BY DEF StoreBounded
<1>2. b \in Nat /\ \A x \in Stored : x \in Nat
  BY BlockIdAssumption DEF Stored
<1>3. n + b \in Nat /\ \A x \in Stored \union {b} : x <= n + b
  BY <1>1, <1>2
<1>4. \A x \in Stored' : x <= n + b
  BY <1>3
<1> QED
  BY <1>3, <1>4 DEF StoreBounded

LEMMA NoneStored ==
  ASSUME StoreBounded, Stored' \subseteq Stored
  PROVE  StoreBounded'
BY DEF StoreBounded

LEMMA DamageInitInv == DInit => DamageInv
<1> SUFFICES ASSUME DInit PROVE DamageInv
  OBVIOUS
<1>1. /\ blocks_by_id = [b \in BlockId |-> None] /\ blocks_by_hash = [h \in Hash |-> None]
      /\ blocks_by_session = {}
  BY DEF DInit, Init
<1> QED
  BY <1>1 DEF DamageInv, IndexTypeOK, StoreBounded, RowsGenuine, EntriesGenuine,
              RepairedStoreIsSafe, DedupIsSafe, SessionsAreSafe, Stored

(* Losing an entry leaves the others as genuine as they were. *)
LEMMA DamageKeepsGenuine ==
  ASSUME DamageInv, Damage
  PROVE  DamageInv'
<1>1. damaged'
  BY DEF Damage
<1>2. IndexTypeOK'
  BY DEF DamageInv, IndexTypeOK, Damage, LoseRow, LoseHashEntry, LoseSessionEntry, Stored
<1>3. RowsGenuine'
  BY DEF DamageInv, IndexTypeOK, RowsGenuine, Damage, LoseRow, LoseHashEntry, LoseSessionEntry, Stored
<1>4. EntriesGenuine'
  BY DEF DamageInv, IndexTypeOK, EntriesGenuine, Damage, LoseRow, LoseHashEntry, LoseSessionEntry
<1>5. Stored' \subseteq Stored
  BY DEF DamageInv, IndexTypeOK, Stored, Damage, LoseRow, LoseHashEntry, LoseSessionEntry
<1> QED
  BY <1>1, <1>2, <1>3, <1>4, <1>5, NoneStored DEF DamageInv, RepairedStoreIsSafe

(* A put onto an indexed content, which need not be stored while damaged. *)
LEMMA DamagedPutDedup ==
  ASSUME DamageInv, NEW s \in Session, NEW b \in BlockId, PutDedup(s, b), damaged' = damaged
  PROVE  DamageInv'
<1> DEFINE existing == blocks_by_hash[HashOf[b]]
<1>1. existing \in BlockId
  BY HashOfAssumption, NoneAssumption DEF PutDedup, DamageInv, IndexTypeOK
<1>2. /\ UNCHANGED <<blocks_by_id, blocks_by_hash>>
      /\ blocks_by_session' = blocks_by_session \union {<<s, existing>>}
      /\ existing # None
  BY DEF PutDedup
<1>3. IndexTypeOK'
  BY <1>1, <1>2 DEF DamageInv, IndexTypeOK
<1>4. RowsGenuine' /\ EntriesGenuine' /\ (~damaged => DedupIsSafe')
  BY <1>2 DEF DamageInv, RowsGenuine, EntriesGenuine, RepairedStoreIsSafe, DedupIsSafe, Stored
<1>5. ASSUME ~damaged PROVE SessionsAreSafe'
  <2>1. blocks_by_id[existing] = HashOf[b] /\ HashOf[b] # None
    BY <1>2, <1>5, HashOfAssumption, NoneAssumption DEF DamageInv, RepairedStoreIsSafe, DedupIsSafe
  <2>2. existing \in Stored
    BY <1>1, <2>1 DEF Stored
  <2> QED
    BY <1>2, <1>5, <2>2 DEF DamageInv, RepairedStoreIsSafe, SessionsAreSafe, Stored
<1>6. StoreBounded'
  BY <1>2, NoneStored DEF DamageInv, Stored
<1> QED
  BY <1>3, <1>4, <1>5, <1>6 DEF DamageInv, RepairedStoreIsSafe

(* A put of a content that has lost its hash entry may meet its own row. *)
LEMMA DamagedPutFresh ==
  ASSUME DamageInv, NEW s \in Session, NEW b \in BlockId, PutFresh(s, b), damaged' = damaged
  PROVE  DamageInv'
<1>1. HashOf[b] \in Hash /\ HashOf[b] # None
  BY HashOfAssumption, NoneAssumption
<1>2. /\ blocks_by_id' = [blocks_by_id EXCEPT ![b] = HashOf[b]]
      /\ blocks_by_hash' = [blocks_by_hash EXCEPT ![HashOf[b]] = b]
      /\ blocks_by_session' = blocks_by_session \union {<<s, b>>}
  BY DEF PutFresh
<1>3. IndexTypeOK'
  BY <1>1, <1>2 DEF DamageInv, IndexTypeOK
<1>4. Stored' = Stored \union {b}
  BY <1>1, <1>2 DEF DamageInv, IndexTypeOK, Stored
<1>5. RowsGenuine'
  BY <1>2, <1>4 DEF DamageInv, IndexTypeOK, RowsGenuine
<1>6. EntriesGenuine'
  BY <1>1, <1>2 DEF DamageInv, IndexTypeOK, EntriesGenuine
<1>7. ASSUME ~damaged, NEW h \in Hash, blocks_by_hash'[h] # None
      PROVE  blocks_by_id'[blocks_by_hash'[h]] = h
  <2>1. CASE h = HashOf[b]
    BY <1>1, <1>2, <2>1 DEF DamageInv, IndexTypeOK
  <2>2. CASE h # HashOf[b]
    <3>1. blocks_by_hash'[h] = blocks_by_hash[h]
      BY <1>2, <2>2 DEF DamageInv, IndexTypeOK
    <3>2. blocks_by_hash[h] \in BlockId \ {b}
      BY <1>7, <2>2, <3>1 DEF DamageInv, IndexTypeOK, EntriesGenuine
    <3> QED
      BY <1>2, <1>7, <3>1, <3>2 DEF DamageInv, IndexTypeOK, RepairedStoreIsSafe, DedupIsSafe
  <2> QED
    BY <2>1, <2>2
<1>8. ~damaged => SessionsAreSafe'
  BY <1>2, <1>4 DEF DamageInv, RepairedStoreIsSafe, SessionsAreSafe
<1>9. StoreBounded'
  BY <1>4, StillBounded DEF DamageInv
<1> QED
  BY <1>3, <1>5, <1>6, <1>7, <1>8, <1>9 DEF DamageInv, RepairedStoreIsSafe, DedupIsSafe

(* The rows that go take the entries of their contents with them, and      *)
(* session entries that name them go in the same write.                    *)
LEMMA DamagedDrop ==
  ASSUME DamageInv, NEW G \in SUBSET BlockId, DropBlocks(G), damaged' = damaged,
         blocks_by_session' \subseteq blocks_by_session,
         \A r \in blocks_by_session' : r[2] \notin G
  PROVE  DamageInv'
<1>1. IndexTypeOK'
  BY DEF DamageInv, IndexTypeOK, DropBlocks
<1>2. Stored' = Stored \ G
  BY DEF DropBlocks, Stored
<1>3. RowsGenuine'
  BY <1>2 DEF DamageInv, RowsGenuine, DropBlocks, Stored
<1>4. EntriesGenuine'
  BY DEF DamageInv, EntriesGenuine, DropBlocks
<1>5. ASSUME ~damaged, NEW h \in Hash, blocks_by_hash'[h] # None
      PROVE  blocks_by_id'[blocks_by_hash'[h]] = h
  <2>1. /\ ~\E x \in G : blocks_by_id[x] = h
        /\ blocks_by_hash'[h] = blocks_by_hash[h]
    BY <1>5 DEF DropBlocks
  <2>2. blocks_by_hash[h] \in BlockId /\ blocks_by_id[blocks_by_hash[h]] = h
    BY <1>5, <2>1 DEF DamageInv, IndexTypeOK, RepairedStoreIsSafe, DedupIsSafe
  <2> QED
    BY <2>1, <2>2 DEF DropBlocks
<1>6. ~damaged => SessionsAreSafe'
  BY <1>2 DEF DamageInv, RepairedStoreIsSafe, SessionsAreSafe
<1>7. StoreBounded'
  BY <1>2, NoneStored DEF DamageInv
<1> QED
  BY <1>1, <1>3, <1>4, <1>5, <1>6, <1>7 DEF DamageInv, RepairedStoreIsSafe, DedupIsSafe

(* Some stored block of a set of them has the highest id. *)
LEMMA HighestStored ==
  ASSUME StoreBounded, NEW ids \in SUBSET Stored, ids # {}
  PROVE  \E m \in ids : \A x \in ids : x <= m
<1>1. PICK n \in Nat : \A b \in Stored : b <= n
  BY DEF StoreBounded
<1>2. \A b \in ids : b \in Nat /\ b <= n
  BY <1>1, BlockIdAssumption DEF Stored
<1> DEFINE below == {n - b : b \in ids}
<1>3. below \in SUBSET Nat /\ below # {}
  BY <1>2
<1>4. PICK d \in below : \A e \in below : d <= e
  <2> HIDE DEF below
  <2> QED
    BY <1>3, LeastNumber
<1>5. PICK m \in ids : d = n - m
  BY <1>4
<1>6. ASSUME NEW x \in ids PROVE x <= m
  <2>1. n - m <= n - x
    BY <1>4, <1>5
  <2> QED
    BY <1>2, <2>1
<1> QED
  BY <1>6

(* Every content that some row has is indexed to such a row, and no other. *)
LEMMA RebuiltIndex ==
  ASSUME IndexTypeOK, StoreBounded, NEW h \in Hash
  PROVE  \/ HashIndexOf(blocks_by_id)[h] = None
         \/ /\ HashIndexOf(blocks_by_id)[h] \in BlockId
            /\ blocks_by_id[HashIndexOf(blocks_by_id)[h]] = h
<1> DEFINE ids == {b \in BlockId : blocks_by_id[b] = h}
           best == CHOOSE b \in ids : \A x \in ids : x <= b
<1>1. HashIndexOf(blocks_by_id)[h] = IF ids = {} THEN None ELSE best
  BY DEF HashIndexOf
<1>2. CASE ids # {}
  <2>1. ids \in SUBSET Stored
    BY NoneAssumption DEF Stored
  <2>2. \E m \in ids : \A x \in ids : x <= m
    <3> HIDE DEF ids
    <3> QED
      BY <1>2, <2>1, HighestStored
  <2>3. best \in ids
    <3> HIDE DEF ids
    <3> QED
      BY <2>2
  <2>4. best \in BlockId /\ blocks_by_id[best] = h
    <3> HIDE DEF best
    <3> QED
      BY <2>3
  <2> HIDE DEF best, ids
  <2> QED
    BY <1>1, <1>2, <2>4
<1> HIDE DEF best, ids
<1> QED
  BY <1>1, <1>2

(* repair makes a safe store of whatever is left. *)
LEMMA RepairRestores ==
  ASSUME DamageInv, Repair
  PROVE  DamageInv'
<1>1. /\ UNCHANGED blocks_by_id
      /\ blocks_by_hash' = HashIndexOf(blocks_by_id)
      /\ blocks_by_session' = {r \in blocks_by_session : r[2] \in Stored}
  BY DEF Repair
<1>2. UNCHANGED Stored
  BY <1>1 DEF Stored
<1>3. \A h \in Hash : \/ blocks_by_hash'[h] = None
                      \/ /\ blocks_by_hash'[h] \in BlockId
                         /\ blocks_by_id[blocks_by_hash'[h]] = h
  BY <1>1, RebuiltIndex DEF DamageInv
<1>4. IndexTypeOK'
  <2>1. DOMAIN blocks_by_hash' = Hash /\ blocks_by_hash' = [h \in Hash |-> blocks_by_hash'[h]]
    BY <1>1 DEF HashIndexOf
  <2>2. blocks_by_hash' \in [Hash -> BlockId \union {None}]
    BY <1>3, <2>1
  <2> QED
    BY <1>1, <2>2 DEF DamageInv, IndexTypeOK
<1>5. RowsGenuine' /\ StoreBounded'
  BY <1>1, <1>2 DEF DamageInv, RowsGenuine, StoreBounded
<1>6. DedupIsSafe'
  BY <1>1, <1>3 DEF DedupIsSafe
<1>7. EntriesGenuine'
  <2> SUFFICES ASSUME NEW h \in Hash, blocks_by_hash'[h] # None
               PROVE  HashOf[blocks_by_hash'[h]] = h
    BY DEF EntriesGenuine
  <2>1. blocks_by_hash'[h] \in BlockId /\ blocks_by_id[blocks_by_hash'[h]] = h
    BY <1>3
  <2>2. blocks_by_hash'[h] \in Stored
    BY <2>1, NoneAssumption DEF Stored
  <2> QED
    BY <2>1, <2>2 DEF DamageInv, RowsGenuine
<1>8. SessionsAreSafe'
  BY <1>1, <1>2 DEF SessionsAreSafe
<1> QED
  BY <1>4, <1>5, <1>6, <1>7, <1>8 DEF DamageInv, RepairedStoreIsSafe

(* Neither the rows nor the entries change, and no new loss is noted. *)
LEMMA SameIndexDamageInv ==
  ASSUME DamageInv, UNCHANGED <<indexVars, damaged>>
  PROVE  DamageInv'
BY DEF DamageInv, IndexTypeOK, StoreBounded, RowsGenuine, EntriesGenuine,
       RepairedStoreIsSafe, DedupIsSafe, SessionsAreSafe, Stored, indexVars

(* Losses, and every call made before or after them, keep the invariant. *)
LEMMA DamageNextInv == DamageInv /\ [DNext]_dvars => DamageInv'
<1> SUFFICES ASSUME DamageInv, [DNext]_dvars PROVE DamageInv'
  OBVIOUS
<1>1. CASE Damage
  BY <1>1, DamageKeepsGenuine
<1>2. CASE Repair
  BY <1>2, RepairRestores
<1>3. ASSUME UNCHANGED damaged, NEW s \in Session, NEW b \in BlockId,
             PutDedup(s, b) \/ PutFresh(s, b)
      PROVE  DamageInv'
  BY <1>3, DamagedPutDedup, DamagedPutFresh
<1>4. ASSUME UNCHANGED damaged, NEW b \in BlockId, DeleteAbsent(b) \/ DeletePresent(b)
      PROVE  DamageInv'
  <2>1. CASE DeleteAbsent(b)
    BY <1>4, <2>1, SameIndexDamageInv DEF DeleteAbsent
  <2>2. CASE DeletePresent(b)
    <3>1. blocks_by_session' = blocks_by_session \ SessionKeys(b) /\ DropBlocks({b})
      BY <2>2 DEF DeletePresent
    <3>2. \A r \in blocks_by_session' : r[2] \notin {b}
      BY <3>1 DEF SessionKeys
    <3> QED
      BY <1>4, <3>1, <3>2, DamagedDrop
  <2> QED
    BY <1>4, <2>1, <2>2
<1>5. ASSUME UNCHANGED damaged, NEW s \in Session, Purge(s)
      PROVE  DamageInv'
  <2>1. /\ blocks_by_session' = {r \in blocks_by_session : r[1] # s}
        /\ DropBlocks(Unshared(s))
    BY <1>5 DEF Purge
  <2>2. Unshared(s) \in SUBSET BlockId
    BY DEF Unshared, BlocksOf
  <2>3. ASSUME NEW r \in blocks_by_session' PROVE r[2] \notin Unshared(s)
    <3>1. r \in blocks_by_session /\ r[1] # s
      BY <2>1
    <3>2. r \in SessionKeys(r[2]) /\ r # <<s, r[2]>>
      BY <3>1 DEF SessionKeys
    <3> QED
      BY <3>2 DEF Unshared
  <2> QED
    BY <1>5, <2>1, <2>2, <2>3, DamagedDrop
<1>6. ASSUME UNCHANGED damaged, NEW e \in Edge, PutEdge(e)
      PROVE  DamageInv'
  BY <1>6, SameIndexDamageInv DEF PutEdge
<1>7. ASSUME UNCHANGED damaged, Verify
      PROVE  DamageInv'
  BY <1>7, SameIndexDamageInv DEF Verify
<1>8. CASE UNCHANGED dvars
  BY <1>8, SameIndexDamageInv DEF dvars, vars
<1> QED
  BY <1>1, <1>2, <1>3, <1>4, <1>5, <1>6, <1>7, <1>8 DEF DNext, Operation

(***************************************************************************)
(* Once repair() has run, and until the next loss, a put is deduplicated   *)
(* onto a stored block of its content and a session lists stored blocks,   *)
(* whatever was lost and whatever was called in between.                   *)
(***************************************************************************)
THEOREM RepairedStoreIsSafeAlways == DSpec => []RepairedStoreIsSafe
<1>1. DamageInv => RepairedStoreIsSafe
  BY DEF DamageInv
<1> QED
  BY DamageInitInv, DamageNextInv, <1>1, PTL DEF DSpec
=============================================================================
