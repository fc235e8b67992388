------------------------------ MODULE PgStore -------------------------------
(***************************************************************************)
(* PgStore and AsyncPgStore (llm386-store-pg/src/store.rs, async_store.rs):*)
(* the BlockStore trait over three Postgres tables.  A call is a READ      *)
(* COMMITTED transaction of several statements on a pooled connection, so  *)
(* calls interleave between statements and, inside a statement, wherever a *)
(* row lock makes it wait.  A statement sees what was committed when it    *)
(* started and its own transaction's changes; it then locks its rows one   *)
(* at a time.  The two stores issue the same statements.                   *)
(*                                                                         *)
(* The single-statement reads (get, list_session, lookup_hash, edges_from, *)
(* ...) return committed rows and change nothing: they are the state       *)
(* itself.  put_edge is one statement, hence one step.                     *)
(***************************************************************************)
EXTENDS Integers

CONSTANTS
  BlockId, Session, Hash, Kind, HashOf, Edge,   \* as in BlockStore
  Conn,        \* connections of the pool
  Seed,        \* session rows an earlier process left in the database
  Fresh,       \* TRUE: no id is inserted again once its block was stored
  ScanOrder,   \* pairs of rows every scan reaches in this order
  None         \* not a session nor a hash

ASSUME BlockIdAssumption == BlockId \subseteq Nat
ASSUME HashOfAssumption == HashOf \in [BlockId -> Hash]
ASSUME EdgeAssumption == Edge \subseteq BlockId \X Kind \X BlockId
ASSUME NoneAssumption == None \notin Session /\ None \notin Hash
ASSUME FreshAssumption == Fresh \in BOOLEAN
ASSUME SeedAssumption ==
  /\ Seed \subseteq Session \X BlockId
  /\ \A r, q \in Seed : HashOf[r[2]] = HashOf[q[2]] => r[2] = q[2]

VARIABLES
  blocks,      \* llm386_blocks, committed: ids
  refs,        \* llm386_session_blocks, committed: <<session, id>>
  edges,       \* llm386_edges, committed: <<from, kind, to>>
  tx,          \* the call each connection is serving
  used,        \* ids whose block was once stored (only when Fresh)
  overlapped   \* blocks put while a purge or delete had gone past them

tables == <<blocks, refs, edges>>
vars == <<tables, tx, used, overlapped>>

(* The lockable row of a block; a ref or an edge is its own row. *)
Row(b) == <<b>>
RowOf(B) == {Row(b) : b \in B}

Idle == [op |-> "none", pc |-> "idle", s |-> None, h |-> None,
         ids |-> {},      \* blocks the call is about
         orphans |-> {},  \* purge: those it found unreferenced
         todo |-> {},     \* rows the current statement has still to lock
         held |-> {},     \* rows locked until the transaction ends
         ins |-> {}, del |-> {}]  \* rows inserted, deleted so far

BlocksOf(s) == {b \in BlockId : <<s, b>> \in refs}
RefsTo(B) == {r \in refs : r[2] \in B}
Incident(B) == {e \in edges : e[1] \in B \/ e[3] \in B}

Deletes == {"delete_blocks", "delete_refs", "delete_edges"}

-----------------------------------------------------------------------------
(* Waiting.                                                                *)

Others(c) == Conn \ {c}

(* Another transaction holds a row with this content: the upsert waits.    *)
HoldsContent(d, h) == \E b \in BlockId : HashOf[b] = h /\ Row(b) \in tx[d].held

(* Connections that must end before the statement of c can.                *)
Awaited(c) ==
  CASE tx[c].pc = "begun" -> {d \in Others(c) : HoldsContent(d, tx[c].h)}
    [] tx[c].pc = "upsert" ->
         {d \in Others(c) : \E b \in tx[c].ids :
              <<tx[c].s, b>> \in tx[d].ins \union tx[d].del}
    [] OTHER -> {d \in Others(c) : tx[c].todo \intersect tx[d].held # {}}

(* Every member waits for a member, and no smaller set does: one cycle.    *)
Waiting(D) == D # {} /\ \A c \in D : Awaited(c) \intersect D # {}
Deadlocked(D) == Waiting(D) /\ \A E \in SUBSET D : Waiting(E) => E = D

-----------------------------------------------------------------------------

Init ==
  /\ blocks = {r[2] : r \in Seed}
  /\ refs = Seed
  /\ edges = {}
  /\ tx = [c \in Conn |-> Idle]
  /\ used = IF Fresh THEN {r[2] : r \in Seed} ELSE {}
  /\ overlapped = {}

Begin(c, call) ==
  /\ tx[c].pc = "idle"
  /\ tx' = [tx EXCEPT ![c] = call]
  /\ UNCHANGED <<tables, used, overlapped>>

(* The statement at has all its rows: start the next one on rows.          *)
Statement(c, at, next, rows) ==
  /\ tx[c].pc = at
  /\ tx[c].todo = {}
  /\ tx' = [tx EXCEPT ![c].pc = next, ![c].todo = rows]
  /\ UNCHANGED <<tables, used, overlapped>>

(* The current statement locks, and deletes if it is a DELETE, one row.    *)
LockRow(c) ==
  \E row \in tx[c].todo :
    /\ \A q \in tx[c].todo : <<q, row>> \notin ScanOrder
    /\ \A d \in Others(c) : row \notin tx[d].held
    /\ tx' = [tx EXCEPT
                ![c].todo = @ \ {row},
                ![c].held = @ \union {row},
                ![c].del = IF tx[c].pc \in Deletes THEN @ \union {row} ELSE @]
    /\ UNCHANGED <<tables, used, overlapped>>

-----------------------------------------------------------------------------
(* put                                                                     *)

BeginPut(c, s, h) ==
  Begin(c, [Idle EXCEPT !.op = "put", !.pc = "begun", !.s = s, !.h = h])

(* Operators with a _ in their name are mistakes: no action uses them, and *)
(* each is one the named property must notice in place of the real one.    *)

(***************************************************************************)
(* INSERT ... ON CONFLICT (hash) DO UPDATE: lock the committed row of that *)
(* content or insert the proposed id, once nobody else holds such a row.   *)
(***************************************************************************)
Upsert(c) ==
  LET t == tx[c]
      same == {b \in blocks : HashOf[b] = t.h}
  IN
  /\ t.pc = "begun"
  /\ \A d \in Others(c) : ~HoldsContent(d, t.h)
  /\ \E id \in BlockId :
       /\ HashOf[id] = t.h
       /\ IF same = {} THEN id \notin used ELSE id \in same
       /\ tx' = [tx EXCEPT ![c].pc = "upsert", ![c].ids = {id},
                           ![c].held = {Row(id)},
                           ![c].ins = IF same = {} THEN {Row(id)} ELSE {}]
  /\ UNCHANGED <<tables, used, overlapped>>

(***************************************************************************)
(* INSERT ... ON CONFLICT DO NOTHING waits only for a transaction that is  *)
(* inserting or deleting that very row; a row that is there stays unlocked.*)
(***************************************************************************)
InsertRef(c) ==
  \E b \in tx[c].ids :
    LET row == <<tx[c].s, b>> IN
    /\ tx[c].pc = "upsert"
    /\ \A d \in Others(c) : row \notin tx[d].ins \union tx[d].del
    /\ tx' = [tx EXCEPT ![c].pc = "insert_ref",
                        ![c].held = IF row \in refs THEN @ ELSE @ \union {row},
                        ![c].ins = IF row \in refs THEN @ ELSE @ \union {row}]
    /\ UNCHANGED <<tables, used, overlapped>>

(* delete *)

(* CallsTakeEffect: a block another call has locked is skipped. *)
BeginDelete_SkipLocked(c, b) ==
  Begin(c, [Idle EXCEPT !.op = "delete", !.pc = "delete_blocks", !.ids = {b},
                        !.todo = {row \in RowOf({b} \intersect blocks) :
                                    \A d \in Others(c) : row \notin tx[d].held}])

BeginDelete(c, b) ==
  Begin(c, [Idle EXCEPT !.op = "delete", !.pc = "delete_blocks", !.ids = {b},
                        !.todo = RowOf({b} \intersect blocks)])

DeleteSessionRefs(c) ==
  tx[c].op = "delete" /\ Statement(c, "delete_blocks", "delete_refs", RefsTo(tx[c].ids))

DeleteEdges(c) ==
  tx[c].op = "delete" /\ Statement(c, "delete_refs", "delete_edges", Incident(tx[c].ids))

(* purge_session; step 1 finding nothing ends the call at once. *)

BeginPurge(c, s) ==
  /\ BlocksOf(s) # {}
  /\ Begin(c, [Idle EXCEPT !.op = "purge", !.pc = "collect", !.s = s,
                           !.ids = BlocksOf(s)])

(* TablesConsistent, PutNeverDeadlocks: step 2 is left out. *)
LockBlocks_None(c) == Statement(c, "collect", "lock_blocks", {})

(* Step 2 *)
LockBlocks(c) ==
  Statement(c, "collect", "lock_blocks", RowOf(tx[c].ids \intersect blocks))

(* Step 3 *)
LockRefs(c) ==
  Statement(c, "lock_blocks", "lock_refs", RefsTo(tx[c].ids))

(* ImplementsLooseStore: the rows of the blocks go in every session. *)
DropRefs_EverySession(c) ==
  Statement(c, "lock_refs", "delete_refs", RefsTo(tx[c].ids))

(* Step 4 *)
DropRefs(c) ==
  Statement(c, "lock_refs", "delete_refs", {r \in refs : r[1] = tx[c].s})

(* NoLeakWithoutOverlap: the purge's own rows count, as before step 4. *)
CollectOrphans_OwnRows(c) ==
  /\ tx[c].op = "purge" /\ tx[c].pc = "delete_refs" /\ tx[c].todo = {}
  /\ tx' = [tx EXCEPT
              ![c].pc = "orphans",
              ![c].orphans = {b \in tx[c].ids \intersect blocks : RefsTo({b}) = {}}]
  /\ UNCHANGED <<tables, used, overlapped>>

(* Step 5; without orphans the call is done. *)
CollectOrphans(c) ==
  /\ tx[c].op = "purge" /\ tx[c].pc = "delete_refs" /\ tx[c].todo = {}
  /\ tx' = [tx EXCEPT
              ![c].pc = "orphans",
              ![c].orphans = {b \in tx[c].ids \intersect blocks :
                                RefsTo({b}) \subseteq tx[c].del}]
  /\ UNCHANGED <<tables, used, overlapped>>

(* Step 6 *)
ScrubEdges(c) ==
  /\ tx[c].orphans # {}
  /\ Statement(c, "orphans", "delete_edges", Incident(tx[c].orphans))

ScrubBlocks(c) ==
  /\ tx[c].op = "purge"
  /\ Statement(c, "delete_edges", "delete_blocks",
               RowOf(tx[c].orphans \intersect blocks))

-----------------------------------------------------------------------------

(* The last statement of the call is through. *)
Finished(t) ==
  /\ t.todo = {}
  /\ \/ t.op = "put" /\ t.pc = "insert_ref"
     \/ t.op = "delete" /\ t.pc = "delete_edges"
     \/ t.op = "purge" /\ t.pc = "delete_blocks"
     \/ t.op = "purge" /\ t.pc = "orphans" /\ t.orphans = {}

(***************************************************************************)
(* A purge of s collected before b was s's and has not dropped s's rows    *)
(* yet, or a delete of b that found no block has not dropped b's rows yet. *)
(***************************************************************************)
GonePast(t, s, b) ==
  \/ t.op = "purge" /\ t.s = s /\ b \notin t.ids
       /\ t.pc \in {"collect", "lock_blocks", "lock_refs"}
  \/ t.op = "delete" /\ b \in t.ids /\ t.pc = "delete_blocks"
       /\ Row(b) \notin t.held \union t.todo

Overlapping(c) ==
  {b \in tx[c].ids : tx[c].op = "put"
       /\ \E d \in Others(c) : GonePast(tx[d], tx[c].s, b)}

(* A row deleted here is gone for the statements that waited for it.       *)
Commit(c) ==
  LET t == tx[c] IN
  /\ Finished(t)
  /\ blocks' = {b \in BlockId : b \in blocks \/ Row(b) \in t.ins}
                 \ {b \in BlockId : Row(b) \in t.del}
  /\ refs' = (refs \union (t.ins \intersect (Session \X BlockId))) \ t.del
  /\ edges' = edges \ t.del
  /\ tx' = [d \in Conn |-> IF d = c THEN Idle
                             ELSE [tx[d] EXCEPT !.todo = @ \ t.del]]
  /\ used' = IF Fresh THEN used \union blocks' ELSE used
  /\ overlapped' = (overlapped \union Overlapping(c)) \intersect blocks'

(* Statement error, lost connection, crash or dropped future: rollback.    *)
Abort(c) ==
  /\ tx[c].pc # "idle"
  /\ tx' = [tx EXCEPT ![c] = Idle]
  /\ UNCHANGED <<tables, used, overlapped>>

(* Postgres ends a deadlock by rolling one of its transactions back.       *)
DeadlockVictim(c) ==
  /\ \E D \in SUBSET Conn : c \in D /\ Deadlocked(D)
  /\ Abort(c)

(* put_edge: ON CONFLICT DO NOTHING waits for a transaction deleting it.   *)
PutEdge(e) ==
  /\ \A d \in Conn : e \notin tx[d].del
  /\ edges' = edges \union {e}
  /\ UNCHANGED <<blocks, refs, tx, used, overlapped>>

Work(c) ==
  \/ LockRow(c)
  \/ Upsert(c) \/ InsertRef(c)
  \/ DeleteSessionRefs(c) \/ DeleteEdges(c)
  \/ LockBlocks(c) \/ LockRefs(c) \/ DropRefs(c)
  \/ CollectOrphans(c) \/ ScrubEdges(c) \/ ScrubBlocks(c)
  \/ Commit(c)

Call(c) ==
  \/ \E s \in Session, h \in Hash : BeginPut(c, s, h)
  \/ \E b \in BlockId : BeginDelete(c, b)
  \/ \E s \in Session : BeginPurge(c, s)

Next ==
  \/ \E c \in Conn : Call(c) \/ Work(c) \/ Abort(c) \/ DeadlockVictim(c)
  \/ \E e \in Edge : PutEdge(e)

Spec == Init /\ [][Next]_vars

(***************************************************************************)
(* A statement that can run does; Postgres queues the waiters of a row     *)
(* lock, so one that can run again and again gets its turn; the deadlock   *)
(* detector fires.  No call has to be made and nothing has to fail.        *)
(***************************************************************************)
FairSpec ==
  Spec /\ \A c \in Conn : SF_vars(Work(c)) /\ WF_vars(DeadlockVictim(c))

-----------------------------------------------------------------------------
(* Properties *)

Rows == RowOf(BlockId) \union (Session \X BlockId) \union (BlockId \X Kind \X BlockId)

Op == {"none", "put", "delete", "purge"}
Pc == {"idle", "begun", "upsert", "insert_ref", "collect", "lock_blocks", "lock_refs",
       "orphans"} \union Deletes
CallState ==
  [op : Op, pc : Pc, s : Session \union {None}, h : Hash \union {None},
   ids : SUBSET BlockId, orphans : SUBSET BlockId,
   todo : SUBSET Rows, held : SUBSET Rows, ins : SUBSET Rows, del : SUBSET Rows]

(* Tables and open transactions hold rows of their shape. *)
TypeOK ==
  /\ blocks \subseteq BlockId
  /\ refs \subseteq Session \X BlockId
  /\ edges \subseteq BlockId \X Kind \X BlockId
  /\ used \subseteq BlockId /\ overlapped \subseteq BlockId
  /\ tx \in [Conn -> CallState]

(***************************************************************************)
(* The comments on step 2 of purge_session and on delete: no session row   *)
(* ever names a block that is gone, whatever put, delete and purge do at   *)
(* the same time.                                                          *)
(***************************************************************************)
NoDanglingRef == \A r \in refs : r[2] \in blocks

(* However puts of one content race, the table holds it at most once.      *)
OneBlockPerContent == \A a, b \in blocks : HashOf[a] = HashOf[b] => a = b

(* What the other stores' tables promise holds of these between commits.   *)
TablesConsistent == NoDanglingRef /\ OneBlockPerContent

(***************************************************************************)
(* The comment on step 3 of purge_session: purges of sessions that share a *)
(* block do not leak it.  A block no session lists was put to a session    *)
(* while a purge of that session was under way, or while it was deleted.   *)
(***************************************************************************)
NoLeakWithoutOverlap ==
  \A b \in blocks : RefsTo({b}) = {} => b \in overlapped

(* The contract concurrent_purge.rs states without exception: no orphans.  *)
NoOrphanBlock == \A b \in blocks : RefsTo({b}) # {}

(***************************************************************************)
(* The lock order of put, delete and purge_session (blocks first) keeps a  *)
(* put out of every deadlock.                                              *)
(***************************************************************************)
PutNeverDeadlocks ==
  \A D \in SUBSET Conn : Deadlocked(D) => \A c \in D : tx[c].op # "put"

(* The comment on step 2 of AsyncPgStore::purge_session: none deadlocks.   *)
NoDeadlock == \A D \in SUBSET Conn : ~Deadlocked(D)

(* delete returns TRUE *)
Existed(t) == \E b \in t.ids : Row(b) \in t.del \/ \E s \in Session : <<s, b>> \in t.del

(***************************************************************************)
(* When a call succeeds it did what the trait says, although it decided in *)
(* several statements: a put's block is stored, the blocks a purge listed  *)
(* have left the session, and a block whose delete returned TRUE is gone   *)
(* unless a put of it overlapped.                                          *)
(***************************************************************************)
TookEffect(t) ==
  CASE t.op = "put" -> t.ids \subseteq blocks'
    [] t.op = "purge" -> \A b \in t.ids : <<t.s, b>> \notin refs'
    [] OTHER -> Existed(t) => t.ids \intersect blocks' \subseteq overlapped'

CallsTakeEffect == [][\A c \in Conn : Commit(c) => TookEffect(tx[c])]_vars

(***************************************************************************)
(* Every commit changes the tables as one call of the trait may: a purge   *)
(* takes only rows of its session and blocks nobody else lists, a delete   *)
(* only its block and what names it, a put stores nothing twice.           *)
(***************************************************************************)
BS == INSTANCE BlockStore WITH reply <- None

ImplementsLooseStore == BS!LooseSpec

(* No call waits forever: locks are released or a deadlock is broken.      *)
EveryCallReturns == \A c \in Conn : tx[c].pc # "idle" ~> tx[c].pc = "idle"

=============================================================================
