----------------------------- MODULE BlockStore -----------------------------
(***************************************************************************)
(* What the BlockStore trait promises its callers (llm386-core/src/store.rs)*)
(* independently of a backend: content blocks deduplicated by hash, the    *)
(* sessions that reference them and the typed edges between them, each     *)
(* operation one atomic step with the reply the caller gets.               *)
(*                                                                         *)
(* Spec is the promise of the trait taken literally.  LooseSpec weakens    *)
(* what purge_session and delete clean up, and is what a backend whose     *)
(* operations are several statements of one transaction can still offer.   *)
(***************************************************************************)
CONSTANTS
  BlockId,   \* ids a caller may propose; u128 in the code, hence ordered
  Session,   \* session ids
  Hash,      \* content hashes
  Kind,      \* edge kinds
  HashOf,    \* the content a block with a given id carries
  Edge       \* the edges callers put: <<from, kind, to>>

VARIABLES
  blocks,    \* ids of the blocks in the store
  refs,      \* <<session, id>>: the block belongs to the session
  edges,     \* <<from, kind, to>>
  reply      \* what the last operation returned

vars == <<blocks, refs, edges, reply>>

(* The answer of the operation op is val. *)
Reply(op, val) == reply' = [op |-> op, val |-> val]

SameContent(b) == {x \in blocks : HashOf[x] = HashOf[b]}
SessionsOf(b) == {s \in Session : <<s, b>> \in refs}
BlocksOf(s) == {b \in BlockId : <<s, b>> \in refs}
Incident(G) == {e \in edges : e[1] \in G \/ e[3] \in G}

-----------------------------------------------------------------------------

Init ==
  /\ blocks = {}
  /\ refs = {}
  /\ edges = {}
  /\ reply = [op |-> "open", val |-> 0]

(* Content already stored keeps its id: the proposed one is dropped. *)
Put(s, b) ==
  \E id \in BlockId :
    /\ IF SameContent(b) = {} THEN id = b ELSE id \in SameContent(b)
    /\ blocks' = blocks \union {id}
    /\ refs' = refs \union {<<s, id>>}
    /\ Reply("put", id)
    /\ UNCHANGED edges

(***************************************************************************)
(* Deleting an absent block says so; whether edges that name it survive is *)
(* left to the backend.                                                    *)
(***************************************************************************)
Delete(b) ==
  LET existed == b \in blocks \/ SessionsOf(b) # {} IN
  /\ blocks' = blocks \ {b}
  /\ refs' = {r \in refs : r[2] # b}
  /\ \/ edges' = edges \ Incident({b})
     \/ ~existed /\ UNCHANGED edges
  /\ Reply("delete", existed)

Purge(s) ==
  LET gone == {b \in BlocksOf(s) : SessionsOf(b) = {s}} IN
  /\ blocks' = blocks \ gone
  /\ refs' = {r \in refs : r[1] # s}
  /\ edges' = edges \ Incident(gone)
  /\ Reply("purge", BlocksOf(s))

PutEdge(e) ==
  /\ edges' = edges \union {e}
  /\ Reply("put_edge", e)
  /\ UNCHANGED <<blocks, refs>>

Get(b) == Reply("get", b \in blocks)
ListSession(s) == Reply("list_session", BlocksOf(s))
ListSessions == Reply("list_sessions", {s \in Session : BlocksOf(s) # {}})
LookupHash(h) == Reply("lookup_hash", {b \in blocks : HashOf[b] = h})
EdgesFrom(b) == Reply("edges_from", {e \in edges : e[1] = b})
EdgesTo(b) == Reply("edges_to", {e \in edges : e[3] = b})

Read ==
  /\ \/ \E b \in BlockId : Get(b) \/ EdgesFrom(b) \/ EdgesTo(b)
     \/ \E s \in Session : ListSession(s)
     \/ \E h \in Hash : LookupHash(h)
     \/ ListSessions
  /\ UNCHANGED <<blocks, refs, edges>>

(* Checking and repairing a healthy store finds and changes nothing. *)
Maintain ==
  /\ Reply("verify", TRUE) \/ Reply("repair", {})
  /\ UNCHANGED <<blocks, refs, edges>>

Next ==
  \/ \E s \in Session, b \in BlockId : Put(s, b)
  \/ \E b \in BlockId : Delete(b)
  \/ \E s \in Session : Purge(s)
  \/ \E e \in Edge : PutEdge(e)
  \/ Read
  \/ Maintain

Spec == Init /\ [][Next]_vars

-----------------------------------------------------------------------------
(***************************************************************************)
(* LooseSpec: what the tables alone may do when a call is a transaction of *)
(* several statements.  A removal takes no more than its operation is      *)
(* entitled to, but rows that arrived while it ran may stay.               *)
(***************************************************************************)
tables == <<blocks, refs, edges>>

TablesInit ==
  /\ refs \subseteq Session \X BlockId
  /\ blocks = {r[2] : r \in refs}
  /\ edges = {}

LoosePut(s, b) ==
  \E id \in BlockId :
    /\ IF SameContent(b) = {} THEN id = b ELSE id \in SameContent(b)
    /\ blocks' = blocks \union {id}
    /\ refs' = refs \union {<<s, id>>}
    /\ edges' = edges

(* Refs outside R and blocks outside B stay; a block that goes leaves no   *)
(* ref behind and takes only edges of the blocks in B.                     *)
LooseRemove(R, B) ==
  /\ refs' \subseteq refs /\ refs \ refs' \subseteq R
  /\ blocks' \subseteq blocks /\ blocks \ blocks' \subseteq B
  /\ edges' \subseteq edges /\ edges \ edges' \subseteq Incident(B)
  /\ \A b \in blocks \ blocks' : \A r \in refs' : r[2] # b

LooseDelete(b) == LooseRemove({r \in refs : r[2] = b}, {b})

LoosePurge(s) ==
  LooseRemove({r \in refs : r[1] = s}, {b \in BlockId : SessionsOf(b) \subseteq {s}})

LoosePutEdge(e) == edges' = edges \union {e} /\ UNCHANGED <<blocks, refs>>

LooseNext ==
  \/ \E s \in Session, b \in BlockId : LoosePut(s, b)
  \/ \E b \in BlockId : LooseDelete(b)
  \/ \E s \in Session : LoosePurge(s)
  \/ \E e \in Edge : LoosePutEdge(e)

LooseSpec == TablesInit /\ [][LooseNext]_tables

=============================================================================
