----------------------------- MODULE LmdbStore ------------------------------
(***************************************************************************)
(* LmdbStore (llm386-store-lmdb/src/store.rs): the BlockStore trait over   *)
(* five LMDB tables that repeat each other.  LMDB has one writer at a time *)
(* and commits a write transaction atomically, so an operation is one      *)
(* step; a crash or an error before its commit leaves no trace.            *)
(***************************************************************************)
EXTENDS Integers

CONSTANTS
  BlockId, Session, Hash, Kind, HashOf, Edge,   \* as in BlockStore
  None                                              \* no row under this key

(***************************************************************************)
(* Ids are 48 bits of time and 80 random bits, or are derived from the     *)
(* content (append_output, json_events): one id never names two contents.  *)
(***************************************************************************)
ASSUME BlockIdAssumption == BlockId \subseteq Nat
ASSUME HashOfAssumption == HashOf \in [BlockId -> Hash]
ASSUME EdgeAssumption == Edge \subseteq BlockId \X Kind \X BlockId
ASSUME NoneAssumption == None \notin Hash /\ None \notin BlockId

VARIABLES
  blocks_by_id,       \* id -> the hash in the block stored there, or None
  blocks_by_hash,     \* hash -> id, or None
  blocks_by_session,  \* {<<session, id>>}
  edges_from,         \* {<<from, kind, to>>}
  edges_to,           \* {<<to, kind, from>>}
  reply               \* what the last operation returned

indexVars == <<blocks_by_id, blocks_by_hash, blocks_by_session>>
edgeVars == <<edges_from, edges_to>>
vars == <<indexVars, edgeVars, reply>>

Reply(op, val) == reply' = [op |-> op, val |-> val]

Stored == {b \in BlockId : blocks_by_id[b] # None}
SessionKeys(b) == {r \in blocks_by_session : r[2] = b}
BlocksOf(s) == {b \in BlockId : <<s, b>> \in blocks_by_session}

(* The entry of the opposite table for an edge key. *)
Mirror(e) == <<e[3], e[2], e[1]>>

-----------------------------------------------------------------------------

Init ==
  /\ blocks_by_id = [b \in BlockId |-> None]
  /\ blocks_by_hash = [h \in Hash |-> None]
  /\ blocks_by_session = {}
  /\ edges_from = {}
  /\ edges_to = {}
  /\ reply = [op |-> "open", val |-> 0]

(* Operators with a _ in their name are mistakes: no action uses them, and *)
(* each is one the named property must notice in place of the real one.    *)

(* TypeOK: the halves of the session key are swapped. *)
PutFresh_SwappedKey(s, b) ==
  /\ blocks_by_hash[HashOf[b]] = None
  /\ blocks_by_id' = [blocks_by_id EXCEPT ![b] = HashOf[b]]
  /\ blocks_by_hash' = [blocks_by_hash EXCEPT ![HashOf[b]] = b]
  /\ blocks_by_session' = blocks_by_session \union {<<b, s>>}
  /\ Reply("put", b)
  /\ UNCHANGED edgeVars

(* ImplementsBlockStore: the caller is told the id it proposed. *)
PutDedup_ProposedId(s, b) ==
  LET existing == blocks_by_hash[HashOf[b]] IN
  /\ existing # None
  /\ blocks_by_session' = blocks_by_session \union {<<s, existing>>}
  /\ Reply("put", b)
  /\ UNCHANGED <<blocks_by_id, blocks_by_hash, edgeVars>>

(* put of a block whose hash is indexed: record the session, return that id *)
PutDedup(s, b) ==
  LET existing == blocks_by_hash[HashOf[b]] IN
  /\ existing # None
  /\ blocks_by_session' = blocks_by_session \union {<<s, existing>>}
  /\ Reply("put", existing)
  /\ UNCHANGED <<blocks_by_id, blocks_by_hash, edgeVars>>

PutFresh(s, b) ==
  /\ blocks_by_hash[HashOf[b]] = None
  /\ blocks_by_id' = [blocks_by_id EXCEPT ![b] = HashOf[b]]
  /\ blocks_by_hash' = [blocks_by_hash EXCEPT ![HashOf[b]] = b]
  /\ blocks_by_session' = blocks_by_session \union {<<s, b>>}
  /\ Reply("put", b)
  /\ UNCHANGED edgeVars

(* TablesAgree: the mirrors in edges_to are forgotten. *)
PurgeEdges_NoMirrors(G) ==
  /\ edges_from' = {e \in edges_from :
        e[1] \notin G /\ ~(e[3] \in G /\ Mirror(e) \in edges_to)}
  /\ edges_to' = {e \in edges_to : e[1] \notin G}

(***************************************************************************)
(* purge_edges_for_block for each block of G: the edges a table lists      *)
(* under the block itself, and the mirrors of those the other table lists. *)
(***************************************************************************)
PurgeEdges(G) ==
  /\ edges_from' = {e \in edges_from :
        e[1] \notin G /\ ~(e[3] \in G /\ Mirror(e) \in edges_to)}
  /\ edges_to' = {e \in edges_to :
        e[1] \notin G /\ ~(e[3] \in G /\ Mirror(e) \in edges_from)}

(* Rows and hash entries of the blocks G; the entry removed is the one the *)
(* stored block names.                                                     *)
DropBlocks(G) ==
  /\ blocks_by_id' = [b \in BlockId |-> IF b \in G THEN None ELSE blocks_by_id[b]]
  /\ blocks_by_hash' =
       [h \in Hash |-> IF \E b \in G : blocks_by_id[b] = h
                         THEN None ELSE blocks_by_hash[h]]

DeleteAbsent(b) ==
  /\ b \notin Stored
  /\ SessionKeys(b) = {}
  /\ Reply("delete", FALSE)
  /\ UNCHANGED <<indexVars, edgeVars>>

DeletePresent(b) ==
  /\ b \in Stored \/ SessionKeys(b) # {}
  /\ blocks_by_session' = blocks_by_session \ SessionKeys(b)
  /\ DropBlocks({b})
  /\ PurgeEdges({b})
  /\ Reply("delete", TRUE)

(* The blocks of s that no other session references once s lets go. *)
Unshared(s) ==
  {b \in BlocksOf(s) : SessionKeys(b) = {<<s, b>>}} \intersect Stored

Purge(s) ==
  /\ blocks_by_session' = {r \in blocks_by_session : r[1] # s}
  /\ DropBlocks(Unshared(s))
  /\ PurgeEdges(Unshared(s))
  /\ Reply("purge", BlocksOf(s))

PutEdge(e) ==
  /\ edges_from' = edges_from \union {e}
  /\ edges_to' = edges_to \union {Mirror(e)}
  /\ Reply("put_edge", e)
  /\ UNCHANGED indexVars

Get(b) == Reply("get", b \in Stored)
ListSession(s) == Reply("list_session", BlocksOf(s))
ListSessions ==
  Reply("list_sessions", {s \in Session : \E r \in blocks_by_session : r[1] = s})
LookupHash(h) == Reply("lookup_hash", {blocks_by_hash[h]} \ {None})
EdgesFrom(b) == Reply("edges_from", {e \in edges_from : e[1] = b})
EdgesTo(b) == Reply("edges_to", {Mirror(e) : e \in {x \in edges_to : x[1] = b}})

Read ==
  /\ \/ \E b \in BlockId : Get(b) \/ EdgesFrom(b) \/ EdgesTo(b)
     \/ \E s \in Session : ListSession(s)
     \/ \E h \in Hash : LookupHash(h)
     \/ ListSessions
  /\ UNCHANGED <<indexVars, edgeVars>>

(***************************************************************************)
(* repair: the hash index is cleared and written again from the stored     *)
(* blocks in id order, so the highest id wins a hash; session entries of   *)
(* missing blocks go.  Edges are left as they are.  The reply is the set   *)
(* of blocks no session holds.                                             *)
(***************************************************************************)
HashIndexOf(rows) ==
  [h \in Hash |->
     LET ids == {b \in BlockId : rows[b] = h} IN
     IF ids = {} THEN None ELSE CHOOSE b \in ids : \A x \in ids : x <= b]

(* RepairedStoreIsSafe: the hash index is written over, not cleared. *)
Repair_NoClear ==
  /\ blocks_by_hash' =
       [h \in Hash |-> IF HashIndexOf(blocks_by_id)[h] = None
                          THEN blocks_by_hash[h] ELSE HashIndexOf(blocks_by_id)[h]]
  /\ blocks_by_session' = {r \in blocks_by_session : r[2] \in Stored}
  /\ Reply("repair", {b \in Stored : SessionKeys(b) = {}})
  /\ UNCHANGED <<blocks_by_id, edgeVars>>

Repair ==
  /\ blocks_by_hash' = HashIndexOf(blocks_by_id)
  /\ blocks_by_session' = {r \in blocks_by_session : r[2] \in Stored}
  /\ Reply("repair", {b \in Stored : SessionKeys(b) = {}})
  /\ UNCHANGED <<blocks_by_id, edgeVars>>

(* verify's report: empty sets and zero when is_clean(). *)
MissingFromHashIndex == {b \in Stored : blocks_by_hash[blocks_by_id[b]] = None}
HashIndexMisroutes ==
  {b \in Stored : blocks_by_hash[blocks_by_id[b]] \notin {None, b}}
OrphanSessionEntries == {r \in blocks_by_session : r[2] \notin Stored}
BlocksWithNoSession == {b \in Stored : SessionKeys(b) = {}}

IsClean ==
  /\ MissingFromHashIndex = {}
  /\ HashIndexMisroutes = {}
  /\ OrphanSessionEntries = {}
  /\ BlocksWithNoSession = {}

Verify ==
  /\ Reply("verify", IsClean)
  /\ UNCHANGED <<indexVars, edgeVars>>

Next ==
  \/ \E s \in Session, b \in BlockId : PutDedup(s, b) \/ PutFresh(s, b)
  \/ \E b \in BlockId : DeleteAbsent(b) \/ DeletePresent(b)
  \/ \E s \in Session : Purge(s)
  \/ \E e \in Edge : PutEdge(e)
  \/ Read
  \/ Repair
  \/ Verify

Spec == Init /\ [][Next]_vars

-----------------------------------------------------------------------------
(* Properties *)

(* Every table holds keys and rows of its shape. *)
TypeOK ==
  /\ blocks_by_id \in [BlockId -> Hash \union {None}]
  /\ blocks_by_hash \in [Hash -> BlockId \union {None}]
  /\ blocks_by_session \subseteq Session \X BlockId
  /\ edges_from \subseteq BlockId \X Kind \X BlockId
  /\ edges_to \subseteq BlockId \X Kind \X BlockId

(***************************************************************************)
(* blocks_by_hash is the inverse of blocks_by_id: put never deduplicates   *)
(* onto a missing block or other content, and never stores a content twice.*)
(***************************************************************************)
HashIndexExact ==
  \A h \in Hash, b \in BlockId : blocks_by_hash[h] = b <=> blocks_by_id[b] = h

(***************************************************************************)
(* A session entry names a stored block, and a stored block has a session  *)
(* that lists it: purge and delete neither dangle nor leak.                *)
(***************************************************************************)
SessionsExact ==
  /\ \A r \in blocks_by_session : r[2] \in Stored
  /\ \A b \in Stored : SessionKeys(b) # {}

(* edges_from and edges_to list the same edges, after every purge of both. *)
EdgesMirrored ==
  \A e \in BlockId \X Kind \X BlockId : e \in edges_from <=> Mirror(e) \in edges_to

(* Each stored block carries the content its id stands for. *)
RowsGenuine == \A b \in Stored : blocks_by_id[b] = HashOf[b]

(***************************************************************************)
(* The five tables agree after any history of calls: each operation writes *)
(* several of them, and none forgets one.                                  *)
(***************************************************************************)
TablesAgree == HashIndexExact /\ SessionsExact /\ EdgesMirrored

Consistent == HashIndexExact /\ SessionsExact /\ EdgesMirrored /\ RowsGenuine

(***************************************************************************)
(* An edge that is still stored when one of its blocks is removed would    *)
(* reappear on whatever is stored under that id next.                      *)
(***************************************************************************)
EdgesDieWithBlock ==
  [][\A b \in Stored \ Stored' : \A e \in edges_from' : b \notin {e[1], e[3]}]_vars

(* What callers of LmdbStore see is the trait's promise, reply by reply. *)
BS == INSTANCE BlockStore WITH
        blocks <- Stored, refs <- blocks_by_session, edges <- edges_from

ImplementsBlockStore == BS!Spec

=============================================================================
