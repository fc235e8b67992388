---------------------------- MODULE PgStoreProofs ----------------------------
(***************************************************************************)
(* The calls of PgStore, for every number of connections, sessions and     *)
(* blocks, when no id is inserted a second time.  The tables agree at every*)
(* commit; the calls take effect although others run between their         *)
(* statements; no block is leaked but by an overlapping put; and a put     *)
(* never waits in a circle.  Last, stores that open one database at the    *)
(* same time, and callers that share their pools.                          *)
(***************************************************************************)
EXTENDS PgClients, TLAPS

(* What an open transaction t knows of the committed tables.               *)

InStep(t) ==
  \/ t.op = "none" /\ t.pc = "idle"
  \/ t.op = "put" /\ t.pc \in {"begun", "upsert", "insert_ref"}
  \/ t.op = "delete" /\ t.pc \in Deletes
  \/ t.op = "purge" /\ t.pc \in {"collect", "lock_blocks", "lock_refs", "orphans"} \union Deletes

(* A block whose row it holds is in the table, or it is inserting it.      *)
HoldsWhatIsThere(t) ==
  \A b \in BlockId : Row(b) \in t.held => b \in blocks \/ Row(b) \in t.ins

(* It holds the rows of the blocks it inserts or deletes.                  *)
ChangesWhatItHolds(t) ==
  \A b \in BlockId : Row(b) \in t.ins \union t.del => Row(b) \in t.held

(* A block it waits for is in the table still.                             *)
AsksForWhatIsThere(t) ==
  \A b \in BlockId :
    Row(b) \in t.todo => b \in blocks /\ t.pc \in {"lock_blocks", "delete_blocks"}

(* The block it inserts is new: its id, and its content among the blocks.  *)
InsertsNew(t) ==
  \A b \in BlockId : Row(b) \in t.ins =>
    b \notin used /\ \A a \in blocks : HashOf[a] # HashOf[b]

EdgeRow == BlockId \X Kind \X BlockId

(* A put is about one block, which it holds until it commits.              *)
PutStands(t) ==
  IF t.op = "put"
  THEN /\ t.s \in Session /\ t.del = {} /\ t.todo = {}
       /\ \A a, b \in t.ids : a = b
       /\ t.pc # "begun" => t.ids # {}
       /\ \A b \in t.ids : Row(b) \in t.held
       /\ \A b \in BlockId : Row(b) \in t.ins => b \in t.ids
       /\ \A r \in t.ins \intersect (Session \X BlockId) : r[2] \in t.ids
  ELSE t.ins = {}

(* After its first statement a delete is on every session row that names   *)
(* its one block, and on no edge but that block's.                         *)
DeleteStands(t) ==
  t.op = "delete" =>
    /\ t.ids # {} /\ \A a, b \in t.ids : a = b
    /\ \A e \in (t.todo \union t.del) \intersect EdgeRow : e[1] \in t.ids \/ e[3] \in t.ids
    /\ \A b \in BlockId :
      /\ Row(b) \in t.todo \union t.del => b \in t.ids
      /\ Row(b) \in t.del /\ t.pc # "delete_blocks" => RefsTo({b}) \subseteq t.todo \union t.del

(* A purge holds the blocks it listed that are left; all session rows that *)
(* named its orphans, and of the edges only theirs, are to be deleted.     *)
PurgeStands(t) ==
  t.op = "purge" =>
    /\ t.ids \subseteq used
    /\ t.pc \in {"collect", "lock_blocks", "lock_refs", "delete_refs"} => t.orphans = {}
    /\ \A b \in t.ids \intersect blocks :
         /\ t.pc = "lock_blocks" => Row(b) \in t.held \union t.todo
         /\ t.pc \in {"lock_refs", "delete_refs"} => Row(b) \in t.held
    /\ \A b \in t.orphans : Row(b) \in t.held /\ RefsTo({b}) \subseteq t.del
    /\ \A e \in (t.todo \union t.del) \intersect EdgeRow : e[1] \in t.orphans \/ e[3] \in t.orphans
    /\ \A b \in BlockId : Row(b) \in t.del => b \in t.orphans
    /\ \A b \in BlockId : Row(b) \in t.todo /\ t.pc = "delete_blocks" => b \in t.orphans

Stands(t) ==
  /\ InStep(t)
  /\ HoldsWhatIsThere(t) /\ ChangesWhatItHolds(t)
  /\ AsksForWhatIsThere(t) /\ InsertsNew(t)
  /\ PutStands(t) /\ DeleteStands(t) /\ PurgeStands(t)

(* No two transactions hold blocks of one content: in particular not the   *)
(* same block, nor one the table has and the other is inserting.           *)
OneHolder ==
  \A c, d \in Conn : \A a, b \in BlockId :
    c # d /\ Row(a) \in tx[c].held /\ Row(b) \in tx[d].held => HashOf[a] # HashOf[b]

PgInv ==
  /\ TypeOK
  /\ TablesConsistent
  /\ blocks \subseteq used
  /\ \A c \in Conn : Stands(tx[c])
  /\ OneHolder

-----------------------------------------------------------------------------
(* The row of a block is no session row, no edge and no other block's row. *)
LEMMA RowIsOwn ==
  ASSUME NEW b \in BlockId
  PROVE  /\ \A a \in BlockId : Row(a) = Row(b) => a = b
         /\ Row(b) \notin Session \X BlockId
         /\ Row(b) \notin BlockId \X Kind \X BlockId
<1>1. \A a \in BlockId : Row(a) = Row(b) => a = b
  BY DEF Row
<1>2. Row(b) \notin Session \X BlockId
  BY DEF Row
<1>3. Row(b) \notin BlockId \X Kind \X BlockId
  BY DEF Row
<1> QED
  BY <1>1, <1>2, <1>3

(* A block is among the rows of B exactly when B names it.                 *)
LEMMA RowOfExact ==
  ASSUME NEW B \in SUBSET BlockId
  PROVE  /\ RowOf(B) \in SUBSET Rows
         /\ \A b \in BlockId : Row(b) \in RowOf(B) <=> b \in B
         /\ \A e \in EdgeRow : e \notin RowOf(B)
<1>1. RowOf(B) \in SUBSET Rows
  BY DEF RowOf, Rows
<1>2. \A b \in BlockId : Row(b) \in RowOf(B) <=> b \in B
  BY RowIsOwn DEF RowOf
<1>3. \A e \in EdgeRow : e \notin RowOf(B)
  BY RowIsOwn DEF RowOf, EdgeRow
<1> QED
  BY <1>1, <1>2, <1>3

(* A transaction that has done nothing stands.                             *)
LEMMA IdleStands == Idle \in CallState /\ Stands(Idle)
<1>1. Idle \in CallState
  BY DEF Idle, CallState, Op, Pc
<1>2. Stands(Idle)
  BY DEF Idle, Stands, InStep, HoldsWhatIsThere, ChangesWhatItHolds, AsksForWhatIsThere,
         InsertsNew, PutStands, DeleteStands, PurgeStands
<1> QED
  BY <1>1, <1>2

(***************************************************************************)
(* A step of c's transaction to t, with the tables as they are: t has to   *)
(* stand by itself, and no other transaction may hold the content of a     *)
(* block it has come to hold.                                              *)
(***************************************************************************)
LEMMA StepInv ==
  ASSUME PgInv, NEW c \in Conn, NEW t \in CallState,
         tx' = [tx EXCEPT ![c] = t], UNCHANGED <<tables, used, overlapped>>,
         Stands(t),
         \A d \in Others(c) : \A a, b \in BlockId :
           Row(b) \in t.held \ tx[c].held /\ Row(a) \in tx[d].held => HashOf[a] # HashOf[b]
  PROVE  PgInv'
<1> USE DEF PgInv, tables
<1>1. /\ tx'[c] = t
      /\ \A d \in Others(c) : tx'[d] = tx[d]
      /\ tx' \in [Conn -> CallState]
  BY DEF TypeOK, Others
<1>2. TypeOK'
  BY <1>1 DEF TypeOK, Rows, CallState
<1>3. TablesConsistent' /\ (blocks \subseteq used)'
  BY DEF TablesConsistent, NoDanglingRef, OneBlockPerContent
<1>4. \A d \in Conn : Stands(tx[d])'
  <2> SUFFICES ASSUME NEW d \in Conn PROVE Stands(tx[d])'
    OBVIOUS
  <2>1. PICK u \in CallState : u = tx'[d] /\ Stands(u)
    BY <1>1 DEF TypeOK, Others
  <2>2. blocks' = blocks /\ refs' = refs /\ used' = used /\ \A b \in BlockId : RefsTo({b})' = RefsTo({b})
    BY DEF RefsTo
  <2>3. InStep(tx[d])' /\ HoldsWhatIsThere(tx[d])' /\ ChangesWhatItHolds(tx[d])'
    BY <2>1, <2>2 DEF Stands, InStep, HoldsWhatIsThere, ChangesWhatItHolds
  <2>4. AsksForWhatIsThere(tx[d])' /\ InsertsNew(tx[d])'
    BY <2>1, <2>2 DEF Stands, AsksForWhatIsThere, InsertsNew
  <2>5. PutStands(tx[d])' /\ DeleteStands(tx[d])'
    BY <2>1, <2>2 DEF Stands, PutStands, DeleteStands
  <2>6. PurgeStands(tx[d])'
    <3>1. u.orphans \subseteq BlockId
      BY DEF CallState
    <3> QED
      BY <2>1, <2>2, <3>1 DEF Stands, PurgeStands
  <2> QED
    BY <2>3, <2>4, <2>5, <2>6 DEF Stands
<1>5. OneHolder'
  <2> SUFFICES ASSUME NEW d \in Conn, NEW e \in Conn, NEW a \in BlockId, NEW b \in BlockId,
                      d # e, Row(a) \in tx'[d].held, Row(b) \in tx'[e].held
               PROVE  HashOf[a] # HashOf[b]
    BY DEF OneHolder
  <2>1. CASE d = c
    BY <2>1, <1>1 DEF OneHolder, Others
  <2>2. CASE e = c
    BY <2>2, <1>1 DEF OneHolder, Others
  <2>3. CASE d # c /\ e # c
    BY <2>3, <1>1 DEF OneHolder, Others
  <2> QED
    BY <2>1, <2>2, <2>3
<1> QED
  BY <1>2, <1>3, <1>4, <1>5

-----------------------------------------------------------------------------
(* The actions of one transaction.                                         *)

LEMMA BeginInv ==
  ASSUME PgInv, NEW c \in Conn, NEW call \in CallState,
         call.held = {}, Stands(call), Begin(c, call)
  PROVE  PgInv'
BY StepInv DEF Begin

LEMMA BeginPutInv ==
  ASSUME PgInv, NEW c \in Conn, NEW s \in Session, NEW h \in Hash, BeginPut(c, s, h)
  PROVE  PgInv'
<1> DEFINE t == [Idle EXCEPT !.op = "put", !.pc = "begun", !.s = s, !.h = h]
<1>1. t \in CallState /\ t.held = {}
  BY DEF Idle, CallState, Op, Pc
<1>2. Stands(t)
  BY DEF Idle, Stands, InStep, HoldsWhatIsThere, ChangesWhatItHolds, AsksForWhatIsThere,
         InsertsNew, PutStands, DeleteStands, PurgeStands
<1> QED
  BY <1>1, <1>2, BeginInv DEF BeginPut

LEMMA BeginDeleteInv ==
  ASSUME PgInv, NEW c \in Conn, NEW b \in BlockId, BeginDelete(c, b)
  PROVE  PgInv'
<1> DEFINE t == [Idle EXCEPT !.op = "delete", !.pc = "delete_blocks", !.ids = {b},
                             !.todo = RowOf({b} \intersect blocks)]
<1>1. t \in CallState /\ t.held = {}
  BY DEF Idle, CallState, Op, Pc, Deletes, Rows, RowOf
<1>2. /\ \A a \in BlockId : Row(a) \in t.todo => a = b /\ a \in blocks
      /\ \A e \in EdgeRow : e \notin t.todo
  BY RowOfExact DEF Idle
<1>3. Stands(t)
  BY <1>2 DEF Idle, Deletes, Stands, InStep, HoldsWhatIsThere, ChangesWhatItHolds,
         AsksForWhatIsThere, InsertsNew, PutStands, DeleteStands, PurgeStands
<1> QED
  BY <1>1, <1>3, BeginInv DEF BeginDelete

LEMMA BeginPurgeInv ==
  ASSUME PgInv, NEW c \in Conn, NEW s \in Session, BeginPurge(c, s)
  PROVE  PgInv'
<1> DEFINE t == [Idle EXCEPT !.op = "purge", !.pc = "collect", !.s = s, !.ids = BlocksOf(s)]
<1>1. t \in CallState /\ t.held = {}
  BY DEF Idle, CallState, Op, Pc, BlocksOf
<1>2. t.ids \subseteq used
  BY DEF Idle, BlocksOf, PgInv, TablesConsistent, NoDanglingRef
<1>3. Stands(t)
  BY <1>2 DEF Idle, Stands, InStep, HoldsWhatIsThere, ChangesWhatItHolds,
         AsksForWhatIsThere, InsertsNew, PutStands, DeleteStands, PurgeStands
<1> QED
  BY <1>1, <1>3, BeginInv DEF BeginPurge

(* The session rows of some blocks are rows of no block, nor are edges.    *)
LEMMA RefsAreRows ==
  ASSUME TypeOK, NEW B
  PROVE  /\ RefsTo(B) \in SUBSET Rows /\ Incident(B) \in SUBSET Rows
         /\ refs \in SUBSET Rows
         /\ \A b \in BlockId : Row(b) \notin RefsTo(B) /\ Row(b) \notin Incident(B)
         /\ \A b \in BlockId : Row(b) \notin refs
         /\ \A e \in EdgeRow : e \notin refs /\ e \notin RefsTo(B)
         /\ \A e \in Incident(B) : e[1] \in B \/ e[3] \in B
<1>1. /\ RefsTo(B) \subseteq refs /\ Incident(B) \subseteq edges
      /\ \A e \in Incident(B) : e[1] \in B \/ e[3] \in B
  BY DEF RefsTo, Incident
<1>2. \A e \in EdgeRow : e \notin refs
  BY DEF EdgeRow, TypeOK
<1> QED
  BY <1>1, <1>2, RowIsOwn DEF TypeOK, Rows

(* The transaction t at its next statement.                                *)
OnTo(t, next, rows) == [t EXCEPT !.pc = next, !.todo = rows]

(* A delete or purge goes on to a statement, which locks nothing before    *)
(* its first LockRow.                                                      *)
LEMMA StatementInv ==
  ASSUME PgInv, NEW c \in Conn, NEW at, NEW next \in Pc, NEW rows \in SUBSET Rows,
         Statement(c, at, next, rows), tx[c].op \in {"delete", "purge"},
         InStep(OnTo(tx[c], next, rows)),
         DeleteStands(OnTo(tx[c], next, rows)), PurgeStands(OnTo(tx[c], next, rows)),
         \A b \in BlockId :
           Row(b) \in rows => b \in blocks /\ next \in {"lock_blocks", "delete_blocks"}
  PROVE  PgInv'
<1> DEFINE t == OnTo(tx[c], next, rows)
<1>1. /\ tx[c] \in CallState /\ Stands(tx[c])
      /\ t \in CallState /\ t.held = tx[c].held
  BY DEF PgInv, TypeOK, CallState, OnTo
<1>2. tx' = [tx EXCEPT ![c] = t] /\ UNCHANGED <<tables, used, overlapped>>
  BY DEF Statement, PgInv, TypeOK, CallState, OnTo
<1>3. HoldsWhatIsThere(t) /\ ChangesWhatItHolds(t) /\ AsksForWhatIsThere(t)
  BY <1>1 DEF CallState, Stands, HoldsWhatIsThere, ChangesWhatItHolds, AsksForWhatIsThere, OnTo
<1>4. InsertsNew(t) /\ PutStands(t)
  BY <1>1 DEF CallState, Stands, InsertsNew, PutStands, OnTo
<1>5. Stands(t)
  BY <1>3, <1>4 DEF Stands
<1> HIDE DEF t
<1> QED
  BY <1>1, <1>2, <1>5, StepInv

LEMMA DeleteSessionRefsInv ==
  ASSUME PgInv, NEW c \in Conn, DeleteSessionRefs(c)
  PROVE  PgInv'
<1> DEFINE rows == RefsTo(tx[c].ids)
           t == OnTo(tx[c], "delete_refs", rows)
<1>1. /\ tx[c] \in CallState /\ Stands(tx[c]) /\ tx[c].op = "delete"
      /\ tx[c].pc = "delete_blocks" /\ tx[c].todo = {}
  BY DEF PgInv, TypeOK, DeleteSessionRefs, Statement
<1>2. /\ rows \in SUBSET Rows
      /\ \A b \in BlockId : Row(b) \notin rows
      /\ \A e \in EdgeRow : e \notin rows
      /\ \A b \in BlockId : b \in tx[c].ids => RefsTo({b}) \subseteq rows
  BY RefsAreRows DEF PgInv, RefsTo
<1>3. Statement(c, "delete_blocks", "delete_refs", rows)
  BY DEF DeleteSessionRefs
<1> HIDE DEF rows
<1>4. InStep(t) /\ DeleteStands(t) /\ PurgeStands(t)
  BY <1>1, <1>2 DEF Deletes, CallState, OnTo, Stands, InStep, DeleteStands, PurgeStands
<1> QED
  BY <1>1, <1>2, <1>3, <1>4, StatementInv DEF Pc, Deletes

LEMMA DeleteEdgesInv ==
  ASSUME PgInv, NEW c \in Conn, DeleteEdges(c)
  PROVE  PgInv'
<1> DEFINE rows == Incident(tx[c].ids)
           t == OnTo(tx[c], "delete_edges", rows)
<1>1. /\ tx[c] \in CallState /\ Stands(tx[c]) /\ tx[c].op = "delete"
      /\ tx[c].pc = "delete_refs" /\ tx[c].todo = {}
  BY DEF PgInv, TypeOK, DeleteEdges, Statement
<1>2. /\ rows \in SUBSET Rows /\ \A b \in BlockId : Row(b) \notin rows
      /\ \A e \in rows : e[1] \in tx[c].ids \/ e[3] \in tx[c].ids
  BY RefsAreRows DEF PgInv
<1>3. Statement(c, "delete_refs", "delete_edges", rows)
  BY DEF DeleteEdges
<1> HIDE DEF rows
<1>4. InStep(t) /\ DeleteStands(t) /\ PurgeStands(t)
  BY <1>1, <1>2 DEF Deletes, CallState, OnTo, Stands, InStep, DeleteStands, PurgeStands
<1> QED
  BY <1>1, <1>2, <1>3, <1>4, StatementInv DEF Pc, Deletes

LEMMA LockBlocksInv ==
  ASSUME PgInv, NEW c \in Conn, LockBlocks(c)
  PROVE  PgInv'
<1> DEFINE rows == RowOf(tx[c].ids \intersect blocks)
           t == OnTo(tx[c], "lock_blocks", rows)
<1>1. /\ tx[c] \in CallState /\ Stands(tx[c])
      /\ tx[c].pc = "collect" /\ tx[c].op = "purge" /\ tx[c].todo = {}
  BY DEF PgInv, TypeOK, LockBlocks, Statement, Stands, InStep, Deletes
<1>2. /\ rows \in SUBSET Rows
      /\ \A b \in BlockId : Row(b) \in rows <=> b \in tx[c].ids \intersect blocks
      /\ \A e \in EdgeRow : e \notin rows
  <2>1. tx[c].ids \intersect blocks \in SUBSET BlockId
    BY <1>1 DEF CallState
  <2> QED
    BY <2>1, RowOfExact
<1>3. Statement(c, "collect", "lock_blocks", rows)
  BY DEF LockBlocks
<1> HIDE DEF rows
<1>4. InStep(t) /\ DeleteStands(t) /\ PurgeStands(t)
  BY <1>1, <1>2 DEF Deletes, CallState, OnTo, Stands, InStep, DeleteStands, PurgeStands
<1> QED
  BY <1>1, <1>2, <1>3, <1>4, StatementInv DEF Pc, Deletes

LEMMA LockRefsInv ==
  ASSUME PgInv, NEW c \in Conn, LockRefs(c)
  PROVE  PgInv'
<1> DEFINE rows == RefsTo(tx[c].ids)
           t == OnTo(tx[c], "lock_refs", rows)
<1>1. /\ tx[c] \in CallState /\ Stands(tx[c])
      /\ tx[c].pc = "lock_blocks" /\ tx[c].op = "purge" /\ tx[c].todo = {}
  BY DEF PgInv, TypeOK, LockRefs, Statement, Stands, InStep, Deletes
<1>2. /\ rows \in SUBSET Rows /\ \A b \in BlockId : Row(b) \notin rows
      /\ \A e \in EdgeRow : e \notin rows
  BY RefsAreRows DEF PgInv
<1>3. Statement(c, "lock_blocks", "lock_refs", rows)
  BY DEF LockRefs
<1> HIDE DEF rows
<1>4. InStep(t) /\ DeleteStands(t) /\ PurgeStands(t)
  BY <1>1, <1>2 DEF Deletes, CallState, OnTo, Stands, InStep, DeleteStands, PurgeStands
<1> QED
  BY <1>1, <1>2, <1>3, <1>4, StatementInv DEF Pc, Deletes

LEMMA DropRefsInv ==
  ASSUME PgInv, NEW c \in Conn, DropRefs(c)
  PROVE  PgInv'
<1> DEFINE rows == {r \in refs : r[1] = tx[c].s}
           t == OnTo(tx[c], "delete_refs", rows)
<1>1. /\ tx[c] \in CallState /\ Stands(tx[c])
      /\ tx[c].pc = "lock_refs" /\ tx[c].op = "purge" /\ tx[c].todo = {}
  BY DEF PgInv, TypeOK, DropRefs, Statement, Stands, InStep, Deletes
<1>2. /\ rows \in SUBSET Rows /\ \A b \in BlockId : Row(b) \notin rows
      /\ \A e \in EdgeRow : e \notin rows
  BY RefsAreRows DEF PgInv
<1>3. Statement(c, "lock_refs", "delete_refs", rows)
  BY DEF DropRefs
<1> HIDE DEF rows
<1>4. InStep(t) /\ DeleteStands(t) /\ PurgeStands(t)
  BY <1>1, <1>2 DEF Deletes, CallState, OnTo, Stands, InStep, DeleteStands, PurgeStands
<1> QED
  BY <1>1, <1>2, <1>3, <1>4, StatementInv DEF Pc, Deletes

LEMMA ScrubEdgesInv ==
  ASSUME PgInv, NEW c \in Conn, ScrubEdges(c)
  PROVE  PgInv'
<1> DEFINE rows == Incident(tx[c].orphans)
           t == OnTo(tx[c], "delete_edges", rows)
<1>1. /\ tx[c] \in CallState /\ Stands(tx[c])
      /\ tx[c].pc = "orphans" /\ tx[c].op = "purge" /\ tx[c].todo = {}
  BY DEF PgInv, TypeOK, ScrubEdges, Statement, Stands, InStep, Deletes
<1>2. /\ rows \in SUBSET Rows /\ \A b \in BlockId : Row(b) \notin rows
      /\ \A e \in rows : e[1] \in tx[c].orphans \/ e[3] \in tx[c].orphans
  BY RefsAreRows DEF PgInv
<1>3. Statement(c, "orphans", "delete_edges", rows)
  BY DEF ScrubEdges
<1> HIDE DEF rows
<1>4. InStep(t) /\ DeleteStands(t) /\ PurgeStands(t)
  BY <1>1, <1>2 DEF Deletes, CallState, OnTo, Stands, InStep, DeleteStands, PurgeStands
<1> QED
  BY <1>1, <1>2, <1>3, <1>4, StatementInv DEF Pc, Deletes

LEMMA ScrubBlocksInv ==
  ASSUME PgInv, NEW c \in Conn, ScrubBlocks(c)
  PROVE  PgInv'
<1> DEFINE rows == RowOf(tx[c].orphans \intersect blocks)
           t == OnTo(tx[c], "delete_blocks", rows)
<1>1. /\ tx[c] \in CallState /\ Stands(tx[c])
      /\ tx[c].pc = "delete_edges" /\ tx[c].op = "purge" /\ tx[c].todo = {}
  BY DEF PgInv, TypeOK, ScrubBlocks, Statement
<1>2. /\ rows \in SUBSET Rows
      /\ \A b \in BlockId : Row(b) \in rows <=> b \in tx[c].orphans \intersect blocks
      /\ \A e \in EdgeRow : e \notin rows
  <2>1. tx[c].orphans \intersect blocks \in SUBSET BlockId
    BY <1>1 DEF CallState
  <2> QED
    BY <2>1, RowOfExact
<1>3. Statement(c, "delete_edges", "delete_blocks", rows)
  BY DEF ScrubBlocks
<1> HIDE DEF rows
<1>4. InStep(t) /\ DeleteStands(t) /\ PurgeStands(t)
  BY <1>1, <1>2 DEF Deletes, CallState, OnTo, Stands, InStep, DeleteStands, PurgeStands
<1> QED
  BY <1>1, <1>2, <1>3, <1>4, StatementInv DEF Pc, Deletes

(* Without a session row left, a block of the purge that it holds stays so.*)
LEMMA CollectOrphansInv ==
  ASSUME PgInv, NEW c \in Conn, CollectOrphans(c)
  PROVE  PgInv'
<1> DEFINE found == {b \in tx[c].ids \intersect blocks : RefsTo({b}) \subseteq tx[c].del}
           t == [tx[c] EXCEPT !.pc = "orphans", !.orphans = found]
<1>1. /\ tx[c] \in CallState /\ Stands(tx[c])
      /\ tx[c].pc = "delete_refs" /\ tx[c].op = "purge" /\ tx[c].todo = {}
  BY DEF PgInv, TypeOK, CollectOrphans
<1>2. tx' = [tx EXCEPT ![c] = t]
  BY DEF CollectOrphans, PgInv, TypeOK, CallState
<1>3. t \in CallState /\ t.held = tx[c].held
  BY <1>1 DEF CallState, Pc
<1>4. /\ found \subseteq tx[c].ids \intersect blocks
      /\ \A b \in found : RefsTo({b}) \subseteq tx[c].del
  OBVIOUS
<1> HIDE DEF found
<1>5. /\ InStep(t) /\ HoldsWhatIsThere(t) /\ ChangesWhatItHolds(t)
      /\ AsksForWhatIsThere(t) /\ InsertsNew(t) /\ PutStands(t) /\ DeleteStands(t)
  BY <1>1 DEF CallState, Stands, InStep, HoldsWhatIsThere, ChangesWhatItHolds,
              AsksForWhatIsThere, InsertsNew, PutStands, DeleteStands
<1>6. PurgeStands(t)
  BY <1>1, <1>4 DEF CallState, Stands, PurgeStands
<1>7. Stands(t) /\ UNCHANGED <<tables, used, overlapped>>
  BY <1>5, <1>6 DEF Stands, CollectOrphans
<1> HIDE DEF t
<1> QED
  BY <1>2, <1>3, <1>7, StepInv

LEMMA LockRowInv ==
  ASSUME PgInv, NEW c \in Conn, LockRow(c)
  PROVE  PgInv'
<1>1. tx[c] \in CallState /\ Stands(tx[c])
  BY DEF PgInv, TypeOK
<1>2. PICK row \in tx[c].todo :
        /\ \A d \in Others(c) : row \notin tx[d].held
        /\ tx' = [tx EXCEPT
                    ![c].todo = @ \ {row},
                    ![c].held = @ \union {row},
                    ![c].del = IF tx[c].pc \in Deletes THEN @ \union {row} ELSE @]
        /\ UNCHANGED <<tables, used, overlapped>>
  BY DEF LockRow
<1> DEFINE t == [tx[c] EXCEPT
                   !.todo = @ \ {row}, !.held = @ \union {row},
                   !.del = IF tx[c].pc \in Deletes THEN @ \union {row} ELSE @]
<1>3. tx' = [tx EXCEPT ![c] = t] /\ t \in CallState
  BY <1>1, <1>2 DEF PgInv, TypeOK, CallState
<1>4. tx[c].op # "put"
  BY <1>1, <1>2 DEF Stands, PutStands
<1>5. /\ t.op = tx[c].op /\ t.pc = tx[c].pc /\ t.ids = tx[c].ids
      /\ t.ins = tx[c].ins /\ t.orphans = tx[c].orphans
      /\ t.todo = tx[c].todo \ {row} /\ t.held = tx[c].held \union {row}
      /\ tx[c].pc \in Deletes => t.del = tx[c].del \union {row}
      /\ tx[c].pc \notin Deletes => t.del = tx[c].del
  BY <1>1 DEF CallState
<1> HIDE DEF t
<1>6. InStep(t) /\ InsertsNew(t) /\ PutStands(t)
  BY <1>1, <1>4, <1>5 DEF Stands, InStep, InsertsNew, PutStands
<1>7. HoldsWhatIsThere(t) /\ ChangesWhatItHolds(t) /\ AsksForWhatIsThere(t)
  BY <1>1, <1>2, <1>5 DEF Stands, HoldsWhatIsThere, ChangesWhatItHolds, AsksForWhatIsThere
<1>8. DeleteStands(t)
  <2> SUFFICES ASSUME t.op = "delete" PROVE DeleteStands(t)
    BY DEF DeleteStands
  <2>1. tx[c].op = "delete" /\ tx[c].pc \in Deletes
    BY <1>1, <1>5 DEF Stands, InStep
  <2>2. t.todo \union t.del = tx[c].todo \union tx[c].del /\ t.del = tx[c].del \union {row}
    BY <1>2, <1>5, <2>1
  <2>3. \A b \in BlockId : Row(b) = row /\ t.pc # "delete_blocks" => FALSE
    BY <1>1, <1>2, <1>5, <2>1 DEF Stands, AsksForWhatIsThere, Deletes
  <2> QED
    BY <1>1, <1>5, <2>1, <2>2, <2>3 DEF Stands, DeleteStands
<1>9. PurgeStands(t)
  BY <1>1, <1>2, <1>5 DEF Deletes, Stands, AsksForWhatIsThere, PurgeStands
<1>10. \A d \in Others(c) : \A a, b \in BlockId :
         Row(b) \in t.held \ tx[c].held /\ Row(a) \in tx[d].held => HashOf[a] # HashOf[b]
  <2> SUFFICES ASSUME NEW d \in Others(c), NEW a \in BlockId, NEW b \in BlockId,
                      Row(b) \in t.held \ tx[c].held, Row(a) \in tx[d].held
               PROVE  HashOf[a] # HashOf[b]
    OBVIOUS
  <2>1. Row(b) = row /\ b \in blocks
    BY <1>1, <1>2, <1>5 DEF Stands, AsksForWhatIsThere
  <2>2. a # b
    BY <2>1, <1>2
  <2>3. Stands(tx[d])
    BY DEF PgInv, Others
  <2>4. a \in blocks \/ HashOf[a] # HashOf[b]
    BY <2>1, <2>3 DEF Stands, HoldsWhatIsThere, InsertsNew
  <2> QED
    BY <2>1, <2>2, <2>4 DEF PgInv, TablesConsistent, OneBlockPerContent
<1>11. Stands(t)
  BY <1>6, <1>7, <1>8, <1>9 DEF Stands
<1> QED
  BY <1>2, <1>3, <1>10, <1>11, StepInv

LEMMA UpsertInv ==
  ASSUME PgInv, NEW c \in Conn, Upsert(c)
  PROVE  PgInv'
<1> DEFINE same == {b \in blocks : HashOf[b] = tx[c].h}
<1>1. /\ tx[c] \in CallState /\ Stands(tx[c]) /\ tx[c].op = "put"
      /\ \A d \in Others(c) : ~HoldsContent(d, tx[c].h)
  BY DEF PgInv, TypeOK, Upsert, Stands, InStep, Deletes
<1>2. PICK id \in BlockId :
        /\ HashOf[id] = tx[c].h
        /\ IF same = {} THEN id \notin used ELSE id \in same
        /\ tx' = [tx EXCEPT ![c].pc = "upsert", ![c].ids = {id},
                            ![c].held = {Row(id)},
                            ![c].ins = IF same = {} THEN {Row(id)} ELSE {}]
        /\ UNCHANGED <<tables, used, overlapped>>
  BY DEF Upsert
<1> DEFINE t == [tx[c] EXCEPT !.pc = "upsert", !.ids = {id}, !.held = {Row(id)},
                              !.ins = IF same = {} THEN {Row(id)} ELSE {}]
<1>3. tx' = [tx EXCEPT ![c] = t] /\ t \in CallState
  <2>1. tx' = [tx EXCEPT ![c] = t]
    BY <1>1, <1>2 DEF PgInv, TypeOK, CallState
  <2>2. {Row(id)} \in SUBSET Rows /\ {} \in SUBSET Rows /\ {id} \in SUBSET BlockId
    BY DEF Rows, RowOf
  <2> DEFINE i == {id}  h == {Row(id)}  n == IF same = {} THEN {Row(id)} ELSE {}
  <2>3. i \in SUBSET BlockId /\ h \in SUBSET Rows /\ n \in SUBSET Rows
    BY <2>2
  <2>4. t = [tx[c] EXCEPT !.pc = "upsert", !.ids = i, !.held = h, !.ins = n]
    OBVIOUS
  <2> HIDE DEF i, h, n, t
  <2> QED
    BY <1>1, <2>1, <2>3, <2>4 DEF CallState, Pc
<1>4. /\ t.op = "put" /\ t.pc = "upsert" /\ t.ids = {id} /\ t.held = {Row(id)}
      /\ t.s = tx[c].s /\ t.todo = tx[c].todo /\ t.del = tx[c].del
      /\ t.ins = IF same = {} THEN {Row(id)} ELSE {}
  BY <1>1 DEF CallState
<1> HIDE DEF t
<1>5. \A b \in BlockId : Row(b) = Row(id) <=> b = id
  BY RowIsOwn
<1>6. HoldsWhatIsThere(t) /\ ChangesWhatItHolds(t) /\ InsertsNew(t)
  BY <1>1, <1>2, <1>4, <1>5
     DEF Stands, PutStands, HoldsWhatIsThere, ChangesWhatItHolds, InsertsNew
<1>7. PutStands(t)
  BY <1>1, <1>4, <1>5, RowIsOwn DEF Stands, PutStands
<1>8. Stands(t)
  BY <1>1, <1>4, <1>6, <1>7 DEF Stands, InStep, PutStands, AsksForWhatIsThere,
                                DeleteStands, PurgeStands
<1>9. \A d \in Others(c) : \A a, b \in BlockId :
        Row(b) \in t.held \ tx[c].held /\ Row(a) \in tx[d].held => HashOf[a] # HashOf[b]
  BY <1>1, <1>2, <1>4, <1>5 DEF HoldsContent
<1> QED
  BY <1>2, <1>3, <1>8, <1>9, StepInv

LEMMA InsertRefInv ==
  ASSUME PgInv, NEW c \in Conn, InsertRef(c)
  PROVE  PgInv'
<1>1. tx[c] \in CallState /\ Stands(tx[c]) /\ tx[c].op = "put"
  BY DEF PgInv, TypeOK, InsertRef, Stands, InStep, Deletes
<1>2. PICK b \in tx[c].ids :
        LET row == <<tx[c].s, b>> IN
        tx' = [tx EXCEPT ![c].pc = "insert_ref",
                         ![c].held = IF row \in refs THEN @ ELSE @ \union {row},
                         ![c].ins = IF row \in refs THEN @ ELSE @ \union {row}]
  BY DEF InsertRef
<1> DEFINE row == <<tx[c].s, b>>
           t == [tx[c] EXCEPT !.pc = "insert_ref",
                              !.held = IF row \in refs THEN @ ELSE @ \union {row},
                              !.ins = IF row \in refs THEN @ ELSE @ \union {row}]
<1>3. tx' = [tx EXCEPT ![c] = t] /\ UNCHANGED <<tables, used, overlapped>>
  BY <1>1, <1>2 DEF InsertRef, PgInv, TypeOK, CallState
<1>4. row \in Session \X BlockId
  BY <1>1 DEF Stands, PutStands, CallState
<1>5. \A a \in BlockId : Row(a) # row
  BY <1>4, RowIsOwn
<1>6. row[2] \in tx[c].ids
  OBVIOUS
<1> HIDE DEF row
<1>7. t \in CallState
  <2> DEFINE h == IF row \in refs THEN tx[c].held ELSE tx[c].held \union {row}
             n == IF row \in refs THEN tx[c].ins ELSE tx[c].ins \union {row}
  <2>1. h \in SUBSET Rows /\ n \in SUBSET Rows
    BY <1>1, <1>4 DEF CallState, Rows
  <2>2. t = [tx[c] EXCEPT !.pc = "insert_ref", !.held = h, !.ins = n]
    BY <1>1 DEF CallState
  <2> HIDE DEF h, n, t
  <2> QED
    BY <1>1, <2>1, <2>2 DEF CallState, Pc
<1>8. /\ t.op = "put" /\ t.pc = "insert_ref" /\ t.ids = tx[c].ids
      /\ t.s = tx[c].s /\ t.todo = tx[c].todo /\ t.del = tx[c].del
      /\ t.held \in {tx[c].held, tx[c].held \union {row}}
      /\ t.ins \in {tx[c].ins, tx[c].ins \union {row}}
  BY <1>1 DEF CallState
<1> HIDE DEF t
<1>9. \A a \in BlockId : /\ Row(a) \in t.held <=> Row(a) \in tx[c].held
                         /\ Row(a) \in t.ins <=> Row(a) \in tx[c].ins
  BY <1>5, <1>8
<1>10. HoldsWhatIsThere(t) /\ ChangesWhatItHolds(t) /\ InsertsNew(t)
  BY <1>1, <1>8, <1>9 DEF Stands, HoldsWhatIsThere, ChangesWhatItHolds, InsertsNew
<1>11. PutStands(t)
  BY <1>1, <1>6, <1>8, <1>9 DEF Stands, PutStands, CallState
<1>12. Stands(t)
  BY <1>1, <1>8, <1>10, <1>11 DEF Stands, InStep, PutStands, AsksForWhatIsThere,
                                  DeleteStands, PurgeStands
<1> QED
  BY <1>3, <1>7, <1>9, <1>12, StepInv

(* A rollback gives everything back and changes nothing.                   *)
LEMMA AbortInv ==
  ASSUME PgInv, NEW c \in Conn, Abort(c)
  PROVE  PgInv'
<1>1. Idle.held = {}
  BY DEF Idle
<1>2. tx' = [tx EXCEPT ![c] = Idle] /\ UNCHANGED <<tables, used, overlapped>>
  BY DEF Abort
<1> QED
  BY <1>1, <1>2, IdleStands, StepInv

(* An edge touches no block and no session row.                            *)
LEMMA PutEdgeInv ==
  ASSUME PgInv, NEW e \in Edge, PutEdge(e)
  PROVE  PgInv'
<1>1. UNCHANGED <<blocks, refs, tx, used, overlapped>>
  BY DEF PutEdge
<1>2. TypeOK'
  BY <1>1, EdgeAssumption DEF PutEdge, PgInv, TypeOK, CallState, Rows
<1>3. TablesConsistent' /\ (blocks \subseteq used)' /\ OneHolder'
  BY <1>1 DEF PgInv, TablesConsistent, NoDanglingRef, OneBlockPerContent, OneHolder
<1>4. \A c \in Conn : Stands(tx[c])'
  BY <1>1 DEF PgInv, Stands, InStep, HoldsWhatIsThere, ChangesWhatItHolds,
              AsksForWhatIsThere, InsertsNew, PutStands, DeleteStands, PurgeStands, RefsTo
<1> QED
  BY <1>2, <1>3, <1>4 DEF PgInv

-----------------------------------------------------------------------------
(* A commit: what it does to the tables and to the others' transactions.   *)

(* What a call deleted when its last statement is through: blocks it held, *)
(* each with every session row that named it.                              *)
LEMMA FinishedDeletes ==
  ASSUME PgInv, NEW c \in Conn, Finished(tx[c]), NEW b \in BlockId, Row(b) \in tx[c].del
  PROVE  tx[c].op \in {"delete", "purge"} /\ RefsTo({b}) \subseteq tx[c].del
<1>1. Stands(tx[c])
  BY DEF PgInv
<1>2. CASE tx[c].op = "put"
  BY <1>1, <1>2 DEF Stands, PutStands
<1>3. CASE tx[c].op = "delete"
  BY <1>1, <1>3 DEF Stands, DeleteStands, Finished
<1>4. CASE tx[c].op = "purge"
  BY <1>1, <1>4 DEF Stands, PurgeStands
<1> QED
  BY <1>2, <1>3, <1>4 DEF Finished

(* Two transactions are never on one block.                                *)
LEMMA HeldByOne ==
  ASSUME PgInv, NEW c \in Conn, NEW d \in Conn, c # d,
         NEW b \in BlockId, Row(b) \in tx[d].held
  PROVE  Row(b) \notin tx[c].held /\ Row(b) \notin tx[c].ins /\ Row(b) \notin tx[c].del
BY DEF PgInv, OneHolder, Stands, ChangesWhatItHolds

(* The tables a commit of c leaves.                                        *)
LEMMA CommitTables ==
  ASSUME PgInv, NEW c \in Conn, Commit(c)
  PROVE  /\ \A b \in BlockId : b \in blocks' <=>
              (b \in blocks \/ Row(b) \in tx[c].ins) /\ Row(b) \notin tx[c].del
         /\ \A r \in refs' : r \notin tx[c].del /\
              (r \in refs \/ (r \in tx[c].ins /\ r[2] \in tx[c].ids /\ tx[c].op = "put"))
<1>1. Stands(tx[c]) /\ tx[c] \in CallState
  BY DEF PgInv, TypeOK
<1>2. \A b \in BlockId : b \in blocks' <=>
        (b \in blocks \/ Row(b) \in tx[c].ins) /\ Row(b) \notin tx[c].del
  BY DEF Commit
<1>3. refs' = (refs \union (tx[c].ins \intersect (Session \X BlockId))) \ tx[c].del
  BY DEF Commit
<1>4. ASSUME NEW r \in refs'
      PROVE  r \notin tx[c].del /\
              (r \in refs \/ (r \in tx[c].ins /\ r[2] \in tx[c].ids /\ tx[c].op = "put"))
  <2>1. r \notin tx[c].del /\ r \in Session \X BlockId /\ (r \in refs \/ r \in tx[c].ins)
    BY <1>3 DEF PgInv, TypeOK
  <2>2. CASE tx[c].op = "put"
    BY <1>1, <2>1, <2>2 DEF Stands, PutStands
  <2>3. CASE tx[c].op # "put"
    BY <1>1, <2>1, <2>3 DEF Stands, PutStands
  <2> QED
    BY <2>2, <2>3
<1> QED
  BY <1>2, <1>4

LEMMA CommitType ==
  ASSUME PgInv, NEW c \in Conn, Commit(c)
  PROVE  /\ TypeOK'
         /\ tx'[c] = Idle
         /\ \A d \in Conn \ {c} :
              tx'[d] = [tx[d] EXCEPT !.todo = @ \ tx[c].del]
<1>1. tx' = [d \in Conn |-> IF d = c THEN Idle
                              ELSE [tx[d] EXCEPT !.todo = @ \ tx[c].del]]
  BY DEF Commit
<1>2. tx' \in [Conn -> CallState]
  BY <1>1, IdleStands DEF PgInv, TypeOK, CallState
<1>3. blocks' \subseteq BlockId /\ refs' \subseteq Session \X BlockId
  BY DEF Commit, PgInv, TypeOK
<1>4. edges' \subseteq BlockId \X Kind \X BlockId
  BY DEF Commit, PgInv, TypeOK
<1>5. used' \subseteq BlockId /\ overlapped' \subseteq BlockId
  BY <1>3 DEF Commit, PgInv, TypeOK
<1>6. TypeOK'
  BY <1>2, <1>3, <1>4, <1>5 DEF TypeOK, CallState, Rows
<1> QED
  BY <1>1, <1>6

LEMMA CommitConsistent ==
  ASSUME PgInv, NEW c \in Conn, Commit(c)
  PROVE  TablesConsistent'
<1>1. Stands(tx[c]) /\ tx[c] \in CallState /\ Finished(tx[c])
  BY DEF PgInv, TypeOK, Commit
<1>2. ASSUME NEW r \in refs' PROVE r[2] \in blocks'
  <2>1. r[2] \in BlockId
    BY CommitType DEF TypeOK
  <2>2. CASE r \in refs
    <3>1. r[2] \in blocks /\ r \in RefsTo({r[2]})
      BY <2>2 DEF PgInv, TablesConsistent, NoDanglingRef, RefsTo
    <3>2. Row(r[2]) \notin tx[c].del
      BY <1>1, <2>1, <3>1, FinishedDeletes, CommitTables
    <3> QED
      BY <2>1, <3>1, <3>2, CommitTables
  <2>3. CASE r[2] \in tx[c].ids /\ tx[c].op = "put"
    BY <1>1, <2>1, <2>3, CommitTables DEF Stands, PutStands, HoldsWhatIsThere
  <2> QED
    BY <2>2, <2>3, CommitTables
<1>3. ASSUME NEW a \in blocks', NEW b \in blocks', HashOf[a] = HashOf[b] PROVE a = b
  <2>1. a \in BlockId /\ b \in BlockId
    BY CommitType DEF TypeOK
  <2>2. /\ a \in blocks \/ Row(a) \in tx[c].ins
        /\ b \in blocks \/ Row(b) \in tx[c].ins
    BY <2>1, CommitTables
  <2>3. CASE a \in blocks /\ b \in blocks
    BY <1>3, <2>3 DEF PgInv, TablesConsistent, OneBlockPerContent
  <2>4. CASE Row(a) \in tx[c].ins /\ Row(b) \in tx[c].ins
    BY <1>1, <2>1, <2>4 DEF Stands, PutStands
  <2> QED
    BY <1>1, <1>3, <2>1, <2>2, <2>3, <2>4 DEF Stands, InsertsNew
<1> QED
  BY <1>2, <1>3 DEF TablesConsistent, NoDanglingRef, OneBlockPerContent

(* The other transactions stand on the new tables.                         *)
LEMMA CommitOthersStand ==
  ASSUME Fresh, PgInv, NEW c \in Conn, Commit(c), NEW d \in Conn \ {c}
  PROVE  Stands(tx[d])'
<1> DEFINE t == tx[c]
           u == tx[d]
<1>1. /\ Stands(t) /\ t \in CallState /\ Finished(t)
      /\ Stands(u) /\ u \in CallState
  BY DEF PgInv, TypeOK, Commit
<1>2. tx'[d] = [u EXCEPT !.todo = @ \ t.del]
  BY CommitType
<1>3. /\ tx'[d].op = u.op /\ tx'[d].pc = u.pc /\ tx'[d].s = u.s
      /\ tx'[d].ids = u.ids /\ tx'[d].orphans = u.orphans
      /\ tx'[d].held = u.held /\ tx'[d].ins = u.ins /\ tx'[d].del = u.del
      /\ tx'[d].todo = u.todo \ t.del
  BY <1>1, <1>2 DEF CallState
<1>4. \A b \in BlockId : Row(b) \in u.held =>
        Row(b) \notin t.held /\ Row(b) \notin t.ins /\ Row(b) \notin t.del
  BY HeldByOne
<1>5. \A b \in BlockId : b \in blocks' <=> (b \in blocks \/ Row(b) \in t.ins) /\ Row(b) \notin t.del
  BY CommitTables
<1>6. used' = used \union blocks' /\ blocks \subseteq used /\ blocks' \subseteq BlockId
  BY CommitType DEF Commit, PgInv, TypeOK
<1>7. \A r \in refs' : r[2] \in BlockId /\ Row(r[2]) \in u.held => r \in refs /\ r \notin t.del
  BY <1>1, <1>4, CommitTables DEF Stands, PutStands
<1>8. ASSUME NEW b \in BlockId, Row(b) \in u.held, NEW R, RefsTo({b}) \subseteq R
      PROVE  RefsTo({b})' \subseteq R \ t.del
  BY <1>7, <1>8 DEF RefsTo
<1>10. HoldsWhatIsThere(tx[d])' /\ ChangesWhatItHolds(tx[d])'
  BY <1>1, <1>3, <1>4, <1>5 DEF Stands, HoldsWhatIsThere, ChangesWhatItHolds
<1>11. AsksForWhatIsThere(tx[d])' /\ InStep(tx[d])'
  BY <1>1, <1>3, <1>5 DEF Stands, AsksForWhatIsThere, InStep, Deletes
<1>12. InsertsNew(tx[d])'
  <2> SUFFICES ASSUME NEW b \in BlockId, Row(b) \in u.ins
               PROVE  b \notin used' /\ \A a \in blocks' : HashOf[a] # HashOf[b]
    BY <1>3 DEF InsertsNew
  <2>1. /\ Row(b) \in u.held /\ b \notin used
        /\ \A a \in blocks : HashOf[a] # HashOf[b]
    BY <1>1 DEF Stands, ChangesWhatItHolds, InsertsNew
  <2>2. \A a \in BlockId : Row(a) \in t.ins => HashOf[a] # HashOf[b]
    BY <1>1, <2>1 DEF Stands, ChangesWhatItHolds, PgInv, OneHolder
  <2> QED
    BY <1>4, <1>5, <1>6, <2>1, <2>2
<1>13. PutStands(tx[d])'
  BY <1>1, <1>3 DEF Stands, PutStands
<1>14. DeleteStands(tx[d])'
  <2> SUFFICES ASSUME u.op = "delete", NEW b \in BlockId
               PROVE  /\ Row(b) \in tx'[d].todo \union u.del => b \in u.ids
                      /\ Row(b) \in u.del /\ u.pc # "delete_blocks" =>
                           RefsTo({b})' \subseteq tx'[d].todo \union u.del
    BY <1>1, <1>3 DEF Stands, DeleteStands
  <2>1. Row(b) \in tx'[d].todo \union u.del => b \in u.ids
    BY <1>1, <1>3 DEF Stands, DeleteStands
  <2>2. ASSUME Row(b) \in u.del, u.pc # "delete_blocks"
        PROVE  RefsTo({b})' \subseteq tx'[d].todo \union u.del
    <3>1. Row(b) \in u.held /\ RefsTo({b}) \subseteq u.todo \union u.del
      BY <1>1, <2>2 DEF Stands, DeleteStands, ChangesWhatItHolds
    <3>2. RefsTo({b})' \subseteq (u.todo \union u.del) \ t.del
      BY <1>8, <3>1
    <3> QED
      BY <1>3, <3>2
  <2> QED
    BY <2>1, <2>2
<1>15. PurgeStands(tx[d])'
  <2> SUFFICES ASSUME u.op = "purge" PROVE PurgeStands(tx[d])'
    BY <1>3 DEF PurgeStands
  <2>1. u.ids \subseteq used' /\ u.ids \subseteq BlockId /\ u.orphans \subseteq BlockId
    BY <1>1, <1>6 DEF Stands, PurgeStands, CallState
  <2>2. \A b \in u.ids \intersect blocks' :
          /\ b \in u.ids \intersect blocks /\ Row(b) \notin t.del
    BY <1>1, <1>5, <2>1 DEF Stands, PurgeStands, InsertsNew
  <2>3. \A b \in u.ids \intersect blocks' :
          /\ u.pc = "lock_blocks" => Row(b) \in u.held \union tx'[d].todo
          /\ u.pc \in {"lock_refs", "delete_refs"} => Row(b) \in u.held
    BY <1>1, <1>3, <2>2 DEF Stands, PurgeStands
  <2>4. \A b \in u.orphans : Row(b) \in u.held /\ RefsTo({b})' \subseteq u.del
    BY <1>1, <1>8, <2>1 DEF Stands, PurgeStands
  <2>5. /\ u.pc \in {"collect", "lock_blocks", "lock_refs", "delete_refs"} => u.orphans = {}
        /\ \A e \in (tx'[d].todo \union u.del) \intersect EdgeRow :
             e[1] \in u.orphans \/ e[3] \in u.orphans
        /\ \A b \in BlockId : Row(b) \in u.del => b \in u.orphans
        /\ \A b \in BlockId : Row(b) \in tx'[d].todo /\ u.pc = "delete_blocks" => b \in u.orphans
    BY <1>1, <1>3 DEF Stands, PurgeStands
  <2> QED
    BY <1>3, <2>1, <2>3, <2>4, <2>5 DEF PurgeStands
<1> QED
  BY <1>10, <1>11, <1>12, <1>13, <1>14, <1>15 DEF Stands

(* A commit takes no locks.                                                *)
LEMMA CommitHolds ==
  ASSUME PgInv, NEW c \in Conn, Commit(c), NEW d \in Conn
  PROVE  tx'[d].held \subseteq tx[d].held
<1>1. CASE d = c
  BY <1>1, CommitType DEF Idle
<1>2. CASE d # c
  <2>1. tx[d] \in CallState /\ tx'[d] = [tx[d] EXCEPT !.todo = @ \ tx[c].del]
    BY <1>2, CommitType DEF PgInv, TypeOK
  <2> QED
    BY <2>1 DEF CallState
<1> QED
  BY <1>1, <1>2

LEMMA CommitInv ==
  ASSUME Fresh, PgInv, NEW c \in Conn, Commit(c)
  PROVE  PgInv'
<1>1. TypeOK' /\ TablesConsistent'
  BY CommitType, CommitConsistent
<1>2. (blocks \subseteq used)'
  BY DEF Commit
<1>3. Stands(tx[c])'
  <2>1. tx'[c] = Idle
    BY CommitType
  <2> QED
    BY <2>1 DEF Idle, Stands, InStep, HoldsWhatIsThere, ChangesWhatItHolds, AsksForWhatIsThere,
                InsertsNew, PutStands, DeleteStands, PurgeStands
<1>4. \A d \in Conn : Stands(tx[d])'
  BY <1>3, CommitOthersStand
<1>5. \A d \in Conn : tx'[d].held \subseteq tx[d].held
  BY CommitHolds
<1>6. OneHolder'
  BY <1>5 DEF PgInv, OneHolder
<1> QED
  BY <1>1, <1>2, <1>4, <1>6 DEF PgInv

-----------------------------------------------------------------------------

LEMMA PgInitInv ==
  ASSUME Fresh, Init
  PROVE  PgInv
<1>1. TypeOK
  BY SeedAssumption, IdleStands DEF Init, TypeOK
<1>2. TablesConsistent
  BY SeedAssumption DEF Init, TablesConsistent, NoDanglingRef, OneBlockPerContent
<1>3. blocks \subseteq used
  BY DEF Init
<1> QED
  BY <1>1, <1>2, <1>3, IdleStands DEF Init, PgInv, OneHolder, Idle

LEMMA PgNextInv ==
  ASSUME Fresh, PgInv, [Next]_vars
  PROVE  PgInv'
<1>1. ASSUME NEW c \in Conn, Call(c) PROVE PgInv'
  BY <1>1, BeginPutInv, BeginDeleteInv, BeginPurgeInv DEF Call
<1>2. ASSUME NEW c \in Conn, Work(c) PROVE PgInv'
  <2>1. CASE LockRow(c)
    BY <2>1, LockRowInv
  <2>2. CASE Upsert(c) \/ InsertRef(c)
    BY <2>2, UpsertInv, InsertRefInv
  <2>3. CASE DeleteSessionRefs(c) \/ DeleteEdges(c)
    BY <2>3, DeleteSessionRefsInv, DeleteEdgesInv
  <2>4. CASE LockBlocks(c) \/ LockRefs(c) \/ DropRefs(c)
    BY <2>4, LockBlocksInv, LockRefsInv, DropRefsInv
  <2>5. CASE CollectOrphans(c) \/ ScrubEdges(c) \/ ScrubBlocks(c)
    BY <2>5, CollectOrphansInv, ScrubEdgesInv, ScrubBlocksInv
  <2>6. CASE Commit(c)
    BY <2>6, CommitInv
  <2> QED
    BY <1>2, <2>1, <2>2, <2>3, <2>4, <2>5, <2>6 DEF Work
<1>3. ASSUME NEW c \in Conn, Abort(c) \/ DeadlockVictim(c) PROVE PgInv'
  BY <1>3, AbortInv DEF DeadlockVictim
<1>4. ASSUME NEW e \in Edge, PutEdge(e) PROVE PgInv'
  BY <1>4, PutEdgeInv
<1>5. CASE UNCHANGED vars
  <2>1. UNCHANGED <<blocks, refs, edges, tx, used, overlapped>>
    BY <1>5 DEF vars, tables
  <2>2. TypeOK' /\ TablesConsistent' /\ (blocks \subseteq used)' /\ OneHolder'
    BY <2>1 DEF PgInv, TypeOK, CallState, Rows, TablesConsistent, NoDanglingRef,
                OneBlockPerContent, OneHolder
  <2>3. \A c \in Conn : Stands(tx[c])'
    BY <2>1 DEF PgInv, Stands, InStep, HoldsWhatIsThere, ChangesWhatItHolds,
                AsksForWhatIsThere, InsertsNew, PutStands, DeleteStands, PurgeStands, RefsTo
  <2> QED
    BY <2>2, <2>3 DEF PgInv
<1> QED
  BY <1>1, <1>2, <1>3, <1>4, <1>5 DEF Next

(***************************************************************************)
(* Whatever put, delete and purge_session do at the same time, with        *)
(* rollbacks and deadlocks: the transactions never step on each other's    *)
(* blocks (PgInv), if no id of a stored block is inserted again.           *)
(***************************************************************************)
THEOREM PgStoreInvariant ==
  ASSUME Fresh
  PROVE  Spec => []PgInv
<1>1. Init => PgInv
  BY PgInitInv
<1>2. PgInv /\ [Next]_vars => PgInv'
  BY PgNextInv
<1> QED
  BY <1>1, <1>2, PTL DEF Spec

(***************************************************************************)
(* The comments on step 2 of purge_session and on delete, and the upsert   *)
(* by hash of put: at every commit each session row names a stored block   *)
(* and no content is stored twice.                                         *)
(***************************************************************************)
THEOREM TablesConsistentAlways ==
  ASSUME Fresh
  PROVE  Spec => []TablesConsistent
<1>1. PgInv => TablesConsistent
  BY DEF PgInv
<1> QED
  BY <1>1, PgStoreInvariant, PTL

-----------------------------------------------------------------------------
(* What the calls achieve.                                                  *)

Ref == Session \X BlockId

(* A session row it locked is in the table, or it is inserting it; it holds*)
(* those it inserts or deletes, and waits only for rows of the table.      *)
RefsOwned(t) ==
  \A r \in Ref :
    /\ r \in t.held => r \in refs \/ r \in t.ins
    /\ r \in t.ins \union t.del => r \in t.held
    /\ r \in t.todo => r \in refs

(* A put that is through has its row, or lost it to a call it overlapped.  *)
PutListed(t) ==
  t.op = "put" =>
    /\ t.pc = "insert_ref" =>
         \A b \in t.ids : <<t.s, b>> \in refs \union t.ins \/ b \in overlapped
    /\ \A r \in t.ins \intersect Ref : r[1] = t.s

(* A block a delete did not find in its first statement overlapped it.     *)
DeleteFinds(t) ==
  t.op = "delete" =>
    /\ \A r \in (t.todo \union t.del) \intersect Ref :
         r[2] \in used /\ r[2] \in t.ids /\ t.pc # "delete_blocks"
    /\ \A b \in t.ids \intersect blocks :
         /\ t.pc = "delete_blocks" => Row(b) \in t.todo \union t.del \/ b \in overlapped
         /\ t.pc # "delete_blocks" /\ (\E s \in Session : <<s, b>> \in t.todo \union t.del)
              => Row(b) \in t.del \/ b \in overlapped

Late == {"delete_refs", "orphans", "delete_edges", "delete_blocks"}
Settled == {"orphans", "delete_edges", "delete_blocks"}

(* A block listed since a purge looked overlaps it; the rows of those it   *)
(* looked at are its own, from step 3 on; its orphans are exactly those of *)
(* them that lose their last row.                                          *)
PurgeHolds(t) ==
  t.op = "purge" =>
    /\ t.s \in Session
    /\ \A b \in BlockId :
         <<t.s, b>> \in refs /\ b \notin t.ids /\ t.pc \in {"collect", "lock_blocks", "lock_refs"}
           => b \in overlapped
    /\ \A b \in t.ids \intersect blocks :
         /\ t.pc = "lock_refs" => RefsTo({b}) \subseteq t.todo \union t.held
         /\ t.pc \in Late => Row(b) \in t.held /\ RefsTo({b}) \subseteq t.held
    /\ t.pc \in Late => \A b \in t.ids : <<t.s, b>> \in refs => <<t.s, b>> \in t.todo \union t.del
    /\ \A r \in Ref :
         r \in t.del \/ (r \in t.todo /\ t.pc \in Deletes) =>
           /\ r[1] = t.s /\ r[2] \in used
           /\ r[2] \in blocks /\ r[2] \notin t.ids => r[2] \in overlapped
    /\ t.pc \in Settled =>
         /\ t.todo \intersect Ref = {}
         /\ \A b \in (t.ids \intersect blocks) \ t.orphans : \E r \in RefsTo({b}) : r \notin t.del
    /\ t.pc = "delete_blocks" =>
         \A b \in t.orphans \intersect blocks : Row(b) \in t.todo \union t.del

Tracks(t) == RefsOwned(t) /\ PutListed(t) /\ DeleteFinds(t) /\ PurgeHolds(t)

RefsOneHolder ==
  \A c, d \in Conn : \A r \in Ref : c # d /\ r \in tx[c].held => r \notin tx[d].held

LeakInv ==
  /\ \A c \in Conn : Tracks(tx[c])
  /\ RefsOneHolder
  /\ overlapped \subseteq blocks
  /\ NoLeakWithoutOverlap

-----------------------------------------------------------------------------

LEMMA RefParts == \A r \in Ref : r[1] \in Session /\ r[2] \in BlockId /\ r = <<r[1], r[2]>>
BY DEF Ref

LEMMA RowNoRef == \A b \in BlockId : Row(b) \notin Ref
BY RowIsOwn DEF Ref

(* A step of c's transaction to t, with the tables as they are.            *)
LEMMA TrackStep ==
  ASSUME PgInv, LeakInv, NEW c \in Conn, NEW t,
         tx' = [tx EXCEPT ![c] = t], UNCHANGED <<tables, used, overlapped>>,
         Tracks(t),
         \A d \in Others(c) : \A r \in Ref : r \in t.held \ tx[c].held => r \notin tx[d].held
  PROVE  LeakInv'
<1>1. tx'[c] = t /\ \A d \in Others(c) : tx'[d] = tx[d]
  BY DEF PgInv, TypeOK, Others
<1>2. UNCHANGED <<blocks, refs, edges, used, overlapped>>
  BY DEF tables
<1>3. \A d \in Conn : Tracks(tx[d])'
  <2> SUFFICES ASSUME NEW d \in Conn PROVE Tracks(tx[d])'
    OBVIOUS
  <2>1. PICK u : u = tx'[d] /\ Tracks(u)
    BY <1>1 DEF Others, LeakInv
  <2>2. RefsOwned(tx[d])' /\ PutListed(tx[d])'
    BY <1>2, <2>1 DEF Tracks, RefsOwned, PutListed
  <2>3. DeleteFinds(tx[d])'
    BY <1>2, <2>1 DEF Tracks, DeleteFinds
  <2>4. PurgeHolds(tx[d])'
    BY <1>2, <2>1 DEF Tracks, PurgeHolds, RefsTo
  <2> QED
    BY <2>2, <2>3, <2>4 DEF Tracks
<1>4. RefsOneHolder'
  <2> SUFFICES ASSUME NEW d \in Conn, NEW e \in Conn, NEW r \in Ref, d # e, r \in tx'[d].held
               PROVE  r \notin tx'[e].held
    BY DEF RefsOneHolder
  <2>1. CASE d = c
    BY <2>1, <1>1 DEF LeakInv, RefsOneHolder, Others
  <2>2. CASE e = c
    BY <2>2, <1>1 DEF LeakInv, RefsOneHolder, Others
  <2>3. CASE d # c /\ e # c
    BY <2>3, <1>1 DEF LeakInv, RefsOneHolder, Others
  <2> QED
    BY <2>1, <2>2, <2>3
<1>5. NoLeakWithoutOverlap' /\ (overlapped \subseteq blocks)'
  BY <1>2 DEF LeakInv, NoLeakWithoutOverlap, RefsTo
<1> QED
  BY <1>3, <1>4, <1>5 DEF LeakInv

LEMMA IdleTracks == Tracks(Idle)
BY DEF Idle, Tracks, RefsOwned, PutListed, DeleteFinds, PurgeHolds

LEMMA BeginTracks ==
  ASSUME PgInv, LeakInv, NEW c \in Conn, NEW call,
         call.held = {}, Tracks(call), Begin(c, call)
  PROVE  LeakInv'
BY TrackStep DEF Begin

LEMMA BeginPutTracks ==
  ASSUME PgInv, LeakInv, NEW c \in Conn, NEW s \in Session, NEW h \in Hash, BeginPut(c, s, h)
  PROVE  LeakInv'
<1> DEFINE t == [Idle EXCEPT !.op = "put", !.pc = "begun", !.s = s, !.h = h]
<1>1. t.held = {} /\ Tracks(t)
  BY DEF Idle, Tracks, RefsOwned, PutListed, DeleteFinds, PurgeHolds
<1> QED
  BY <1>1, BeginTracks DEF BeginPut

LEMMA BeginDeleteTracks ==
  ASSUME PgInv, LeakInv, NEW c \in Conn, NEW b \in BlockId, BeginDelete(c, b)
  PROVE  LeakInv'
<1> DEFINE t == [Idle EXCEPT !.op = "delete", !.pc = "delete_blocks", !.ids = {b},
                             !.todo = RowOf({b} \intersect blocks)]
<1>1. /\ t.op = "delete" /\ t.pc = "delete_blocks" /\ t.ids = {b}
      /\ t.todo = RowOf({b} \intersect blocks)
      /\ t.held = {} /\ t.ins = {} /\ t.del = {}
  BY DEF Idle
<1> HIDE DEF t
<1>2. b \in blocks => Row(b) \in t.todo
  BY <1>1, RowOfExact
<1>3. t.todo \intersect Ref = {}
  BY <1>1, RowNoRef DEF RowOf
<1>4. Tracks(t)
  BY <1>1, <1>2, <1>3 DEF Tracks, RefsOwned, PutListed, DeleteFinds, PurgeHolds
<1>5. Begin(c, t)
  BY DEF BeginDelete, t
<1> QED
  BY <1>1, <1>4, <1>5, BeginTracks

LEMMA BeginPurgeTracks ==
  ASSUME PgInv, LeakInv, NEW c \in Conn, NEW s \in Session, BeginPurge(c, s)
  PROVE  LeakInv'
<1> DEFINE t == [Idle EXCEPT !.op = "purge", !.pc = "collect", !.s = s, !.ids = BlocksOf(s)]
<1>1. /\ t.op = "purge" /\ t.pc = "collect" /\ t.s = s /\ t.ids = BlocksOf(s)
      /\ t.todo = {} /\ t.held = {} /\ t.ins = {} /\ t.del = {}
  BY DEF Idle
<1> HIDE DEF t
<1>2. \A b \in BlockId : <<s, b>> \in refs => b \in t.ids
  BY <1>1 DEF BlocksOf
<1>3. Tracks(t)
  BY <1>1, <1>2 DEF Tracks, RefsOwned, PutListed, DeleteFinds, PurgeHolds, Late, Settled
<1>4. Begin(c, t)
  BY DEF BeginPurge, t
<1> QED
  BY <1>1, <1>3, <1>4, BeginTracks

(* A delete or purge goes on to a statement on rows.                       *)
LEMMA StatementTracks ==
  ASSUME PgInv, LeakInv, NEW c \in Conn, NEW at, NEW next, NEW rows,
         Statement(c, at, next, rows), tx[c].op \in {"delete", "purge"},
         DeleteFinds(OnTo(tx[c], next, rows)), PurgeHolds(OnTo(tx[c], next, rows)),
         \A r \in Ref : r \in rows => r \in refs
  PROVE  LeakInv'
<1> DEFINE t == OnTo(tx[c], next, rows)
<1>1. tx[c] \in CallState /\ Tracks(tx[c])
  BY DEF PgInv, TypeOK, LeakInv
<1>2. tx' = [tx EXCEPT ![c] = t] /\ UNCHANGED <<tables, used, overlapped>>
  BY <1>1 DEF Statement, PgInv, TypeOK, CallState, OnTo
<1>3. RefsOwned(t) /\ PutListed(t) /\ t.held = tx[c].held
  BY <1>1 DEF CallState, Tracks, RefsOwned, PutListed, OnTo
<1>4. Tracks(t)
  BY <1>3 DEF Tracks
<1> HIDE DEF t
<1> QED
  BY <1>2, <1>3, <1>4, TrackStep

LEMMA DeleteSessionRefsTracks ==
  ASSUME PgInv, LeakInv, NEW c \in Conn, DeleteSessionRefs(c)
  PROVE  LeakInv'
<1> DEFINE rows == RefsTo(tx[c].ids)
           t == OnTo(tx[c], "delete_refs", rows)
<1>1. /\ tx[c] \in CallState /\ Stands(tx[c]) /\ Tracks(tx[c])
      /\ tx[c].op = "delete" /\ tx[c].pc = "delete_blocks" /\ tx[c].todo = {}
      /\ Statement(c, "delete_blocks", "delete_refs", rows)
  BY DEF PgInv, TypeOK, LeakInv, DeleteSessionRefs, Statement, Stands, InStep, Deletes
<1>2. /\ t.op = tx[c].op /\ t.pc = "delete_refs" /\ t.s = tx[c].s /\ t.ids = tx[c].ids
      /\ t.orphans = tx[c].orphans /\ t.held = tx[c].held /\ t.del = tx[c].del
      /\ t.todo = rows
  BY <1>1 DEF CallState, OnTo
<1>3. \A r \in Ref : r \in rows => r \in refs /\ r[2] \in used /\ r[2] \in tx[c].ids
  BY DEF RefsTo, PgInv, TablesConsistent, NoDanglingRef
<1> HIDE DEF rows, t
<1>4. DeleteFinds(t) /\ PurgeHolds(t)
  BY <1>1, <1>2, <1>3 DEF Tracks, DeleteFinds, PurgeHolds, Stands, DeleteStands, PurgeStands,
                          Late, Settled, Deletes
<1> QED
  BY <1>1, <1>3, <1>4, StatementTracks DEF t

LEMMA DeleteEdgesTracks ==
  ASSUME PgInv, LeakInv, NEW c \in Conn, DeleteEdges(c)
  PROVE  LeakInv'
<1> DEFINE rows == Incident(tx[c].ids)
           t == OnTo(tx[c], "delete_edges", rows)
<1>1. /\ tx[c] \in CallState /\ Stands(tx[c]) /\ Tracks(tx[c])
      /\ tx[c].op = "delete" /\ tx[c].pc = "delete_refs" /\ tx[c].todo = {}
      /\ Statement(c, "delete_refs", "delete_edges", rows)
  BY DEF PgInv, TypeOK, LeakInv, DeleteEdges, Statement, Stands, InStep, Deletes
<1>2. /\ t.op = tx[c].op /\ t.pc = "delete_edges" /\ t.s = tx[c].s /\ t.ids = tx[c].ids
      /\ t.orphans = tx[c].orphans /\ t.held = tx[c].held /\ t.del = tx[c].del
      /\ t.todo = rows
  BY <1>1 DEF CallState, OnTo
<1>3. /\ \A r \in Ref : r \notin rows
      /\ \A s \in Session, b \in BlockId : <<s, b>> \notin rows
  BY DEF Ref, Incident, PgInv, TypeOK
<1> HIDE DEF rows, t
<1>4. DeleteFinds(t)
  <2>1. \A r \in (t.todo \union t.del) \intersect Ref : r \in tx[c].del
    BY <1>2, <1>3
  <2>2. \A r \in (t.todo \union t.del) \intersect Ref : r[2] \in used /\ r[2] \in t.ids
    BY <1>1, <1>2, <2>1 DEF Tracks, DeleteFinds
  <2>3. ASSUME NEW b \in t.ids \intersect blocks, NEW s \in Session, <<s, b>> \in t.todo \union t.del
        PROVE  Row(b) \in t.del \/ b \in overlapped
    <3>1. b \in BlockId /\ <<s, b>> \in tx[c].del
      BY <1>1, <1>2, <1>3, <2>3 DEF CallState
    <3> QED
      BY <1>1, <1>2, <2>3, <3>1 DEF Tracks, DeleteFinds
  <2> QED
    BY <1>1, <1>2, <2>2, <2>3 DEF Tracks, DeleteFinds
<1>5. PurgeHolds(t)
  BY <1>1, <1>2 DEF PurgeHolds
<1> QED
  BY <1>1, <1>3, <1>4, <1>5, StatementTracks DEF t

LEMMA LockBlocksTracks ==
  ASSUME PgInv, LeakInv, NEW c \in Conn, LockBlocks(c)
  PROVE  LeakInv'
<1> DEFINE rows == RowOf(tx[c].ids \intersect blocks)
           t == OnTo(tx[c], "lock_blocks", rows)
<1>1. /\ tx[c] \in CallState /\ Stands(tx[c]) /\ Tracks(tx[c])
      /\ tx[c].op = "purge" /\ tx[c].pc = "collect" /\ tx[c].todo = {}
      /\ Statement(c, "collect", "lock_blocks", rows)
  BY DEF PgInv, TypeOK, LeakInv, LockBlocks, Statement, Stands, InStep, Deletes
<1>2. /\ t.op = tx[c].op /\ t.pc = "lock_blocks" /\ t.s = tx[c].s /\ t.ids = tx[c].ids
      /\ t.orphans = tx[c].orphans /\ t.held = tx[c].held /\ t.del = tx[c].del
      /\ t.todo = rows
  BY <1>1 DEF CallState, OnTo
<1>3. \A r \in Ref : r \notin rows
  BY RowNoRef, <1>1 DEF RowOf, CallState
<1> HIDE DEF rows, t
<1>4. DeleteFinds(t) /\ PurgeHolds(t)
  BY <1>1, <1>2, <1>3 DEF Tracks, DeleteFinds, PurgeHolds, Stands, DeleteStands, PurgeStands,
                          Late, Settled, Deletes
<1> QED
  BY <1>1, <1>3, <1>4, StatementTracks DEF t

LEMMA LockRefsTracks ==
  ASSUME PgInv, LeakInv, NEW c \in Conn, LockRefs(c)
  PROVE  LeakInv'
<1> DEFINE rows == RefsTo(tx[c].ids)
           t == OnTo(tx[c], "lock_refs", rows)
<1>1. /\ tx[c] \in CallState /\ Stands(tx[c]) /\ Tracks(tx[c])
      /\ tx[c].op = "purge" /\ tx[c].pc = "lock_blocks" /\ tx[c].todo = {}
      /\ Statement(c, "lock_blocks", "lock_refs", rows)
  BY DEF PgInv, TypeOK, LeakInv, LockRefs, Statement, Stands, InStep, Deletes
<1>2. /\ t.op = tx[c].op /\ t.pc = "lock_refs" /\ t.s = tx[c].s /\ t.ids = tx[c].ids
      /\ t.orphans = tx[c].orphans /\ t.held = tx[c].held /\ t.del = tx[c].del
      /\ t.todo = rows
  BY <1>1 DEF CallState, OnTo
<1>3. /\ \A r \in Ref : r \in rows => r \in refs
      /\ \A b \in tx[c].ids : RefsTo({b}) \subseteq rows
  BY DEF RefsTo
<1> HIDE DEF rows, t
<1>4. DeleteFinds(t) /\ PurgeHolds(t)
  BY <1>1, <1>2, <1>3 DEF Tracks, DeleteFinds, PurgeHolds, Stands, DeleteStands, PurgeStands,
                          Late, Settled, Deletes
<1> QED
  BY <1>1, <1>3, <1>4, StatementTracks DEF t

LEMMA DropRefsTracks ==
  ASSUME PgInv, LeakInv, NEW c \in Conn, DropRefs(c)
  PROVE  LeakInv'
<1> DEFINE rows == {r \in refs : r[1] = tx[c].s}
           t == OnTo(tx[c], "delete_refs", rows)
<1>1. /\ tx[c] \in CallState /\ Stands(tx[c]) /\ Tracks(tx[c])
      /\ tx[c].op = "purge" /\ tx[c].pc = "lock_refs" /\ tx[c].todo = {}
      /\ Statement(c, "lock_refs", "delete_refs", rows)
  BY DEF PgInv, TypeOK, LeakInv, DropRefs, Statement, Stands, InStep, Deletes
<1>2. /\ t.op = tx[c].op /\ t.pc = "delete_refs" /\ t.s = tx[c].s /\ t.ids = tx[c].ids
      /\ t.orphans = tx[c].orphans /\ t.held = tx[c].held /\ t.del = tx[c].del
      /\ t.todo = rows
  BY <1>1 DEF CallState, OnTo
<1>3. /\ \A r \in Ref : r \in rows => r \in refs /\ r[1] = tx[c].s /\ r[2] \in used
                                    /\ r[2] \in BlockId /\ <<tx[c].s, r[2]>> \in refs
      /\ \A b \in BlockId : <<tx[c].s, b>> \in refs => <<tx[c].s, b>> \in rows
  BY RefParts DEF PgInv, TablesConsistent, NoDanglingRef
<1> HIDE DEF rows, t
<1>4. PurgeHolds(t)
  <2>1. \A b \in t.ids \intersect blocks : Row(b) \in t.held /\ RefsTo({b}) \subseteq t.held
    BY <1>1, <1>2 DEF Tracks, PurgeHolds, Stands, PurgeStands
  <2>2. \A b \in t.ids : <<t.s, b>> \in refs => <<t.s, b>> \in t.todo
    BY <1>1, <1>2, <1>3 DEF CallState
  <2>3. \A r \in Ref : r \in t.del \union t.todo =>
          /\ r[1] = t.s /\ r[2] \in used
          /\ r[2] \in blocks /\ r[2] \notin t.ids => r[2] \in overlapped
    BY <1>1, <1>2, <1>3 DEF Tracks, PurgeHolds
  <2> QED
    BY <1>1, <1>2, <2>1, <2>2, <2>3 DEF Tracks, PurgeHolds, Settled
<1>5. DeleteFinds(t)
  BY <1>1, <1>2 DEF DeleteFinds
<1> QED
  BY <1>1, <1>3, <1>4, <1>5, StatementTracks DEF t

LEMMA ScrubEdgesTracks ==
  ASSUME PgInv, LeakInv, NEW c \in Conn, ScrubEdges(c)
  PROVE  LeakInv'
<1> DEFINE rows == Incident(tx[c].orphans)
           t == OnTo(tx[c], "delete_edges", rows)
<1>1. /\ tx[c] \in CallState /\ Stands(tx[c]) /\ Tracks(tx[c])
      /\ tx[c].op = "purge" /\ tx[c].pc = "orphans" /\ tx[c].todo = {}
      /\ Statement(c, "orphans", "delete_edges", rows)
  BY DEF PgInv, TypeOK, LeakInv, ScrubEdges, Statement, Stands, InStep, Deletes
<1>2. /\ t.op = tx[c].op /\ t.pc = "delete_edges" /\ t.s = tx[c].s /\ t.ids = tx[c].ids
      /\ t.orphans = tx[c].orphans /\ t.held = tx[c].held /\ t.del = tx[c].del
      /\ t.todo = rows
  BY <1>1 DEF CallState, OnTo
<1>3. /\ \A r \in Ref : r \notin rows
      /\ \A s \in Session, b \in BlockId : <<s, b>> \notin rows
  BY DEF Ref, Incident, PgInv, TypeOK
<1> HIDE DEF rows, t
<1>4. DeleteFinds(t) /\ PurgeHolds(t)
  BY <1>1, <1>2, <1>3 DEF Tracks, DeleteFinds, PurgeHolds, Stands, DeleteStands, PurgeStands,
                          Late, Settled, Deletes
<1> QED
  BY <1>1, <1>3, <1>4, StatementTracks DEF t

LEMMA ScrubBlocksTracks ==
  ASSUME PgInv, LeakInv, NEW c \in Conn, ScrubBlocks(c)
  PROVE  LeakInv'
<1> DEFINE rows == RowOf(tx[c].orphans \intersect blocks)
           t == OnTo(tx[c], "delete_blocks", rows)
<1>1. /\ tx[c] \in CallState /\ Stands(tx[c]) /\ Tracks(tx[c])
      /\ tx[c].op = "purge" /\ tx[c].pc = "delete_edges" /\ tx[c].todo = {}
      /\ Statement(c, "delete_edges", "delete_blocks", rows)
  BY DEF PgInv, TypeOK, LeakInv, ScrubBlocks, Statement, Stands, InStep, Deletes
<1>2. /\ t.op = tx[c].op /\ t.pc = "delete_blocks" /\ t.s = tx[c].s /\ t.ids = tx[c].ids
      /\ t.orphans = tx[c].orphans /\ t.held = tx[c].held /\ t.del = tx[c].del
      /\ t.todo = rows
  BY <1>1 DEF CallState, OnTo
<1>3. /\ \A r \in Ref : r \notin rows
      /\ \A b \in tx[c].orphans \intersect blocks : Row(b) \in rows
  BY RowNoRef, <1>1 DEF RowOf, CallState
<1> HIDE DEF rows, t
<1>4. DeleteFinds(t) /\ PurgeHolds(t)
  BY <1>1, <1>2, <1>3 DEF Tracks, DeleteFinds, PurgeHolds, Stands, DeleteStands, PurgeStands,
                          Late, Settled, Deletes
<1> QED
  BY <1>1, <1>3, <1>4, StatementTracks DEF t

LEMMA CollectOrphansTracks ==
  ASSUME PgInv, LeakInv, NEW c \in Conn, CollectOrphans(c)
  PROVE  LeakInv'
<1> DEFINE found == {b \in tx[c].ids \intersect blocks : RefsTo({b}) \subseteq tx[c].del}
           t == [tx[c] EXCEPT !.pc = "orphans", !.orphans = found]
<1>1. /\ tx[c] \in CallState /\ Tracks(tx[c])
      /\ tx[c].op = "purge" /\ tx[c].pc = "delete_refs" /\ tx[c].todo = {}
  BY DEF PgInv, TypeOK, LeakInv, CollectOrphans
<1>2. tx' = [tx EXCEPT ![c] = t] /\ UNCHANGED <<tables, used, overlapped>>
  BY <1>1 DEF CollectOrphans, PgInv, TypeOK, CallState
<1>3. /\ t.op = "purge" /\ t.pc = "orphans" /\ t.s = tx[c].s /\ t.ids = tx[c].ids
      /\ t.orphans = found /\ t.held = tx[c].held /\ t.del = tx[c].del
      /\ t.ins = tx[c].ins /\ t.todo = {}
  BY <1>1 DEF CallState
<1>4. \A b \in (tx[c].ids \intersect blocks) \ found : \E r \in RefsTo({b}) : r \notin tx[c].del
  OBVIOUS
<1> HIDE DEF found, t
<1>5. RefsOwned(t) /\ PutListed(t) /\ DeleteFinds(t)
  BY <1>1, <1>3 DEF Tracks, RefsOwned, PutListed, DeleteFinds
<1>6. PurgeHolds(t)
  BY <1>1, <1>3, <1>4 DEF Tracks, PurgeHolds, Late, Settled, Deletes
<1> QED
  BY <1>2, <1>3, <1>5, <1>6, TrackStep DEF Tracks

LEMMA LockRowTracks ==
  ASSUME PgInv, LeakInv, NEW c \in Conn, LockRow(c)
  PROVE  LeakInv'
<1>1. tx[c] \in CallState /\ Stands(tx[c]) /\ Tracks(tx[c])
  BY DEF PgInv, TypeOK, LeakInv
<1>2. PICK row \in tx[c].todo :
        /\ \A d \in Others(c) : row \notin tx[d].held
        /\ tx' = [tx EXCEPT
                    ![c].todo = @ \ {row},
                    ![c].held = @ \union {row},
                    ![c].del = IF tx[c].pc \in Deletes THEN @ \union {row} ELSE @]
        /\ UNCHANGED <<tables, used, overlapped>>
  BY DEF LockRow
<1> DEFINE t == [tx[c] EXCEPT
                   !.todo = @ \ {row}, !.held = @ \union {row},
                   !.del = IF tx[c].pc \in Deletes THEN @ \union {row} ELSE @]
<1>3. tx' = [tx EXCEPT ![c] = t]
  BY <1>1, <1>2 DEF PgInv, TypeOK, CallState
<1>4. tx[c].op # "put"
  BY <1>1, <1>2 DEF Stands, PutStands
<1>5. /\ t.op = tx[c].op /\ t.pc = tx[c].pc /\ t.s = tx[c].s /\ t.ids = tx[c].ids
      /\ t.ins = tx[c].ins /\ t.orphans = tx[c].orphans
      /\ t.todo = tx[c].todo \ {row} /\ t.held = tx[c].held \union {row}
      /\ tx[c].pc \in Deletes => t.del = tx[c].del \union {row}
      /\ tx[c].pc \notin Deletes => t.del = tx[c].del
  BY <1>1 DEF CallState
<1> HIDE DEF t
<1>6. RefsOwned(t) /\ PutListed(t)
  BY <1>1, <1>2, <1>4, <1>5 DEF Tracks, RefsOwned, PutListed
<1>7. DeleteFinds(t)
  <2>1. t.op = "delete" => t.todo \union t.del = tx[c].todo \union tx[c].del
                           /\ tx[c].del \subseteq t.del
    BY <1>1, <1>5 DEF Stands, InStep
  <2> QED
    BY <1>1, <1>5, <2>1 DEF Tracks, DeleteFinds
<1>8. PurgeHolds(t)
  <2> SUFFICES ASSUME t.op = "purge" PROVE PurgeHolds(t)
    BY DEF PurgeHolds
  <2>1. \A b \in t.ids \intersect blocks :
          /\ t.pc = "lock_refs" => RefsTo({b}) \subseteq t.todo \union t.held
          /\ t.pc \in Late => Row(b) \in t.held /\ RefsTo({b}) \subseteq t.held
    BY <1>1, <1>5 DEF Tracks, PurgeHolds
  <2>2. ASSUME t.pc \in Late, NEW b \in t.ids, <<t.s, b>> \in refs
        PROVE  <<t.s, b>> \in t.todo \union t.del
    <3>1. <<t.s, b>> \in tx[c].todo \union tx[c].del
      BY <1>1, <1>5, <2>2 DEF Tracks, PurgeHolds
    <3>2. <<t.s, b>> \in Ref
      BY <1>1, <1>5, <2>2 DEF Ref, CallState, Tracks, PurgeHolds
    <3>3. CASE t.pc = "orphans"
      BY <1>1, <1>5, <3>1, <3>2, <3>3 DEF Tracks, PurgeHolds, Settled
    <3>4. CASE t.pc # "orphans"
      BY <1>5, <2>2, <3>1, <3>4 DEF Late, Deletes
    <3> QED
      BY <3>3, <3>4
  <2>3. \A r \in Ref :
          r \in t.del \/ (r \in t.todo /\ t.pc \in Deletes) =>
            /\ r[1] = t.s /\ r[2] \in used
            /\ r[2] \in blocks /\ r[2] \notin t.ids => r[2] \in overlapped
    BY <1>1, <1>2, <1>5 DEF Tracks, PurgeHolds
  <2>4. ASSUME t.pc \in Settled
        PROVE  /\ t.todo \intersect Ref = {}
               /\ \A b \in (t.ids \intersect blocks) \ t.orphans : \E r \in RefsTo({b}) : r \notin t.del
    <3>1. row \notin refs
      BY <1>1, <1>2, <1>5, <2>4 DEF Tracks, PurgeHolds, PgInv, TypeOK, Ref
    <3> QED
      BY <1>1, <1>5, <2>4, <3>1 DEF Tracks, PurgeHolds, RefsTo
  <2>5. t.pc = "delete_blocks" => \A b \in t.orphans \intersect blocks : Row(b) \in t.todo \union t.del
    BY <1>1, <1>5 DEF Tracks, PurgeHolds, Deletes
  <2> QED
    BY <1>1, <1>5, <2>1, <2>2, <2>3, <2>4, <2>5 DEF Tracks, PurgeHolds
<1>9. \A d \in Others(c) : \A r \in Ref : r \in t.held \ tx[c].held => r \notin tx[d].held
  BY <1>2, <1>5
<1> QED
  BY <1>2, <1>3, <1>6, <1>7, <1>8, <1>9, TrackStep DEF Tracks

LEMMA UpsertTracks ==
  ASSUME PgInv, LeakInv, NEW c \in Conn, Upsert(c)
  PROVE  LeakInv'
<1>1. tx[c] \in CallState /\ Stands(tx[c]) /\ tx[c].op = "put"
  BY DEF PgInv, TypeOK, Upsert, Stands, InStep, Deletes
<1>2. PICK id \in BlockId : \E I \in {{}, {Row(id)}} :
        /\ tx' = [tx EXCEPT ![c].pc = "upsert", ![c].ids = {id},
                            ![c].held = {Row(id)}, ![c].ins = I]
        /\ UNCHANGED <<tables, used, overlapped>>
  BY DEF Upsert
<1>3. PICK I \in {{}, {Row(id)}} :
        /\ tx' = [tx EXCEPT ![c].pc = "upsert", ![c].ids = {id},
                            ![c].held = {Row(id)}, ![c].ins = I]
        /\ UNCHANGED <<tables, used, overlapped>>
  BY <1>2
<1> DEFINE t == [tx[c] EXCEPT !.pc = "upsert", !.ids = {id}, !.held = {Row(id)}, !.ins = I]
<1>4. tx' = [tx EXCEPT ![c] = t]
  BY <1>1, <1>3 DEF PgInv, TypeOK, CallState
<1>5. /\ t.op = "put" /\ t.pc = "upsert" /\ t.held = {Row(id)} /\ t.ins = I
      /\ t.todo = {} /\ t.del = {}
  BY <1>1 DEF CallState, Stands, PutStands
<1> HIDE DEF t
<1>6. Tracks(t)
  BY <1>3, <1>5, RowNoRef DEF Tracks, RefsOwned, PutListed, DeleteFinds, PurgeHolds
<1>7. \A r \in Ref : r \notin t.held
  BY <1>5, RowNoRef
<1> QED
  BY <1>3, <1>4, <1>6, <1>7, TrackStep

LEMMA InsertRefTracks ==
  ASSUME PgInv, LeakInv, NEW c \in Conn, InsertRef(c)
  PROVE  LeakInv'
<1>1. tx[c] \in CallState /\ Stands(tx[c]) /\ Tracks(tx[c]) /\ tx[c].op = "put"
  BY DEF PgInv, TypeOK, LeakInv, InsertRef, Stands, InStep, Deletes
<1>2. PICK b \in tx[c].ids :
        LET row == <<tx[c].s, b>> IN
        /\ \A d \in Others(c) : row \notin tx[d].ins \union tx[d].del
        /\ tx' = [tx EXCEPT ![c].pc = "insert_ref",
                            ![c].held = IF row \in refs THEN @ ELSE @ \union {row},
                            ![c].ins = IF row \in refs THEN @ ELSE @ \union {row}]
  BY DEF InsertRef
<1> DEFINE row == <<tx[c].s, b>>
           t == [tx[c] EXCEPT !.pc = "insert_ref",
                              !.held = IF row \in refs THEN @ ELSE @ \union {row},
                              !.ins = IF row \in refs THEN @ ELSE @ \union {row}]
<1>3. tx' = [tx EXCEPT ![c] = t] /\ UNCHANGED <<tables, used, overlapped>>
  BY <1>1, <1>2 DEF InsertRef, PgInv, TypeOK, CallState
<1>4. row[1] = tx[c].s /\ \A a \in tx[c].ids : <<tx[c].s, a>> = row
  BY <1>1 DEF Stands, PutStands
<1>5. \A d \in Others(c) : row \notin tx[d].ins
  BY <1>2
<1> HIDE DEF row
<1>6. /\ t.op = "put" /\ t.pc = "insert_ref" /\ t.ids = tx[c].ids /\ t.s = tx[c].s
      /\ t.todo = {} /\ t.del = {}
      /\ t.held = IF row \in refs THEN tx[c].held ELSE tx[c].held \union {row}
      /\ t.ins = IF row \in refs THEN tx[c].ins ELSE tx[c].ins \union {row}
  BY <1>1 DEF CallState, Stands, PutStands
<1> HIDE DEF t
<1>7. RefsOwned(t) /\ PutListed(t)
  BY <1>1, <1>4, <1>6 DEF Tracks, RefsOwned, PutListed
<1>8. Tracks(t)
  BY <1>6, <1>7 DEF Tracks, DeleteFinds, PurgeHolds
<1>9. \A d \in Others(c) : \A r \in Ref : r \in t.held \ tx[c].held => r \notin tx[d].held
  BY <1>5, <1>6 DEF LeakInv, Tracks, RefsOwned, Others
<1> QED
  BY <1>3, <1>8, <1>9, TrackStep

LEMMA AbortTracks ==
  ASSUME PgInv, LeakInv, NEW c \in Conn, Abort(c)
  PROVE  LeakInv'
<1>1. Idle.held = {}
  BY DEF Idle
<1>2. tx' = [tx EXCEPT ![c] = Idle] /\ UNCHANGED <<tables, used, overlapped>>
  BY DEF Abort
<1> QED
  BY <1>1, <1>2, IdleTracks, TrackStep

(* Neither an edge nor a step that changes nothing is noticed.             *)
LEMMA SameTracks ==
  ASSUME LeakInv, UNCHANGED <<blocks, refs, tx, used, overlapped>>
  PROVE  LeakInv'
<1>1. RefsOneHolder' /\ (overlapped \subseteq blocks)' /\ NoLeakWithoutOverlap'
  BY DEF LeakInv, RefsOneHolder, NoLeakWithoutOverlap, RefsTo
<1>2. \A c \in Conn : Tracks(tx[c])'
  <2> SUFFICES ASSUME NEW c \in Conn PROVE Tracks(tx[c])'
    OBVIOUS
  <2>1. Tracks(tx[c])
    BY DEF LeakInv
  <2>2. RefsOwned(tx[c])' /\ PutListed(tx[c])'
    BY <2>1 DEF Tracks, RefsOwned, PutListed
  <2>3. DeleteFinds(tx[c])'
    BY <2>1 DEF Tracks, DeleteFinds
  <2>4. PurgeHolds(tx[c])'
    BY <2>1 DEF Tracks, PurgeHolds, RefsTo
  <2> QED
    BY <2>2, <2>3, <2>4 DEF Tracks
<1> QED
  BY <1>1, <1>2 DEF LeakInv

-----------------------------------------------------------------------------
(* A commit of c.                                                          *)

(* A session row another transaction holds is not c's to insert or delete. *)
LEMMA RefHeldByOne ==
  ASSUME LeakInv, NEW c \in Conn, NEW d \in Conn, c # d, NEW r \in Ref, r \in tx[d].held
  PROVE  r \notin tx[c].ins /\ r \notin tx[c].del
BY DEF LeakInv, RefsOneHolder, Tracks, RefsOwned

(* The rows a commit of c leaves, and the blocks marked as overlapped.     *)
LEMMA CommitRefs ==
  ASSUME Fresh, PgInv, LeakInv, NEW c \in Conn, Commit(c)
  PROVE  /\ \A r \in Ref : r \in refs' <=> (r \in refs \/ r \in tx[c].ins) /\ r \notin tx[c].del
         /\ refs' \subseteq Ref /\ refs \subseteq Ref
         /\ blocks \subseteq used /\ used' = used \union blocks'
         /\ overlapped \intersect blocks' \subseteq overlapped'
         /\ Overlapping(c) \intersect blocks' \subseteq overlapped'
BY DEF Commit, PgInv, TypeOK, Ref

(* A finished call that dropped a session row of a block that stays: the   *)
(* block overlapped it, or a purge kept it for another session.            *)
LEMMA DroppedRow ==
  ASSUME PgInv, LeakInv, NEW c \in Conn, Finished(tx[c]),
         NEW r \in Ref, r \in tx[c].del, r[2] \in blocks, Row(r[2]) \notin tx[c].del
  PROVE  \/ r[2] \in overlapped
         \/ /\ tx[c].op = "purge" /\ Row(r[2]) \in tx[c].held
            /\ \E q \in RefsTo({r[2]}) : q \notin tx[c].del
<1>1. Stands(tx[c]) /\ Tracks(tx[c])
  BY DEF PgInv, LeakInv
<1>2. tx[c].op # "put"
  BY <1>1 DEF Stands, PutStands
<1>3. r[2] \in BlockId /\ r[1] \in Session /\ r = <<r[1], r[2]>>
  BY RefParts
<1>4. CASE tx[c].op = "delete"
  BY <1>1, <1>3, <1>4 DEF Finished, Tracks, DeleteFinds
<1>5. CASE tx[c].op = "purge"
  <2>1. CASE r[2] \notin tx[c].ids
    BY <1>1, <1>5, <2>1 DEF Tracks, PurgeHolds
  <2>2. CASE r[2] \in tx[c].ids
    <3>1. tx[c].pc \in Settled /\ tx[c].todo = {}
      BY <1>5 DEF Finished, Settled
    <3>2. r[2] \notin tx[c].orphans
      BY <1>1, <1>5, <3>1 DEF Finished, Tracks, PurgeHolds
    <3> QED
      BY <1>1, <1>5, <2>2, <3>1, <3>2 DEF Tracks, PurgeHolds, Late, Settled
  <2> QED
    BY <2>1, <2>2
<1> QED
  BY <1>2, <1>4, <1>5 DEF Finished

(* The other transactions keep track of the new tables.                    *)
LEMMA CommitOthersTrack ==
  ASSUME Fresh, PgInv, LeakInv, NEW c \in Conn, Commit(c), NEW d \in Conn \ {c}
  PROVE  Tracks(tx[d])'
<1> DEFINE t == tx[c]
           u == tx[d]
<1>1. /\ Stands(t) /\ Tracks(t) /\ t \in CallState /\ Finished(t)
      /\ Stands(u) /\ Tracks(u) /\ u \in CallState
  BY DEF PgInv, LeakInv, TypeOK, Commit
<1>2. tx'[d] = [u EXCEPT !.todo = @ \ t.del]
  BY CommitType
<1>3. /\ tx'[d].op = u.op /\ tx'[d].pc = u.pc /\ tx'[d].s = u.s
      /\ tx'[d].ids = u.ids /\ tx'[d].orphans = u.orphans
      /\ tx'[d].held = u.held /\ tx'[d].ins = u.ins /\ tx'[d].del = u.del
      /\ tx'[d].todo = u.todo \ t.del
  BY <1>1, <1>2 DEF CallState
<1>4. \A b \in BlockId : Row(b) \in u.held =>
        Row(b) \notin t.held /\ Row(b) \notin t.ins /\ Row(b) \notin t.del
  BY HeldByOne
<1>5. \A b \in BlockId : b \in blocks' <=> (b \in blocks \/ Row(b) \in t.ins) /\ Row(b) \notin t.del
  BY CommitTables
<1>6. \A r \in Ref : r \in refs' <=> (r \in refs \/ r \in t.ins) /\ r \notin t.del
  BY CommitRefs
<1>7. \A r \in Ref : r \in u.held => r \notin t.ins /\ r \notin t.del
  BY RefHeldByOne
<1>8. \A b \in BlockId : b \in used /\ b \in blocks' => b \in blocks
  BY <1>1, <1>5 DEF Stands, InsertsNew
<1>9. \A r \in refs' : Row(r[2]) \in u.held => r \in refs /\ r \notin t.del
  <2>1. \A r \in Ref : r \in t.ins => r[2] \in BlockId /\ Row(r[2]) \in t.held
    BY <1>1, RefParts DEF Stands, PutStands, Ref
  <2>2. refs' \subseteq Ref
    BY CommitRefs
  <2> QED
    BY <1>4, <1>6, <2>1, <2>2
<1>10. \A b \in BlockId : b \in overlapped /\ b \in blocks' => b \in overlapped'
  BY CommitRefs
<1>11. \A b \in t.ids : t.op = "put" /\ GonePast(u, t.s, b) /\ b \in blocks' => b \in overlapped'
  BY CommitRefs DEF Overlapping, Others
<1>12. refs' \subseteq Ref /\ refs \subseteq Ref /\ used \subseteq used' /\ blocks \subseteq used
       /\ blocks' \subseteq BlockId /\ overlapped \subseteq blocks
  BY CommitRefs, CommitType DEF TypeOK, LeakInv
<1>13. \A r \in refs' : r[2] \in blocks'
  BY CommitConsistent DEF TablesConsistent, NoDanglingRef
<1> HIDE DEF t, u
<1>14. RefsOwned(tx[d])'
  BY <1>1, <1>3, <1>6, <1>7 DEF Tracks, RefsOwned
<1>15. PutListed(tx[d])'
  <2> SUFFICES ASSUME u.op = "put", u.pc = "insert_ref", NEW b \in u.ids
               PROVE  <<u.s, b>> \in refs' \union u.ins \/ b \in overlapped'
    BY <1>1, <1>3 DEF Tracks, PutListed
  <2>1. /\ b \in BlockId /\ <<u.s, b>> \in Ref /\ Row(b) \in u.held
        /\ b \in blocks \/ Row(b) \in u.ins
    BY <1>1 DEF Stands, PutStands, HoldsWhatIsThere, CallState, Ref
  <2>2. <<u.s, b>> \in refs \union u.ins \/ b \in overlapped
    BY <1>1 DEF Tracks, PutListed
  <2>3. Row(b) \notin t.del /\ Row(b) \notin t.held
    BY <1>4, <2>1
  <2>4. CASE b \in overlapped
    BY <1>5, <1>10, <1>12, <2>1, <2>3, <2>4
  <2>5. CASE <<u.s, b>> \in t.del /\ b \in blocks
    <3>1. b \in overlapped
      <4> DEFINE r == <<u.s, b>>
      <4>1. r \in Ref /\ r \in t.del /\ r[2] = b
        BY <2>1, <2>5
      <4> HIDE DEF r
      <4> QED
        BY <1>1, <2>3, <2>5, <4>1, DroppedRow DEF t
    <3> QED
      BY <2>4, <3>1
  <2>6. CASE <<u.s, b>> \in t.del /\ b \notin blocks
    <3>1. b \notin used
      BY <1>1, <2>1, <2>6 DEF Stands, InsertsNew
    <3>2. \A r \in Ref : r \in t.del => r[2] \in used
      BY <1>1 DEF Stands, PutStands, Finished, Tracks, DeleteFinds, PurgeHolds
    <3> QED
      BY <2>1, <2>6, <3>1, <3>2
  <2> QED
    BY <1>6, <2>1, <2>2, <2>4, <2>5, <2>6
<1>16. DeleteFinds(tx[d])'
  <2> SUFFICES ASSUME u.op = "delete" PROVE DeleteFinds(tx[d])'
    BY <1>3 DEF DeleteFinds
  <2>1. \A r \in (tx'[d].todo \union u.del) \intersect Ref :
          r[2] \in used' /\ r[2] \in u.ids /\ u.pc # "delete_blocks"
    BY <1>1, <1>3, <1>12 DEF Tracks, DeleteFinds
  <2>2. ASSUME NEW b \in u.ids \intersect blocks', u.pc = "delete_blocks"
        PROVE  Row(b) \in tx'[d].todo \union u.del \/ b \in overlapped'
    <3>1. b \in BlockId /\ Row(b) \notin t.del
      BY <1>5, <1>12, <2>2
    <3>2. CASE b \in blocks
      BY <1>1, <1>3, <1>10, <2>2, <3>1, <3>2 DEF Tracks, DeleteFinds
    <3>3. CASE b \notin blocks
      <4>1. Row(b) \in t.ins /\ t.op = "put" /\ b \in t.ids
        BY <1>1, <1>5, <2>2, <3>1, <3>3 DEF Stands, PutStands
      <4>2. Row(b) \notin u.held /\ Row(b) \notin u.todo
        BY <1>1, <1>4, <3>1, <3>3, <4>1 DEF Stands, AsksForWhatIsThere
      <4> QED
        BY <1>11, <2>2, <4>1, <4>2 DEF GonePast
    <3> QED
      BY <3>2, <3>3
  <2>3. ASSUME NEW b \in u.ids \intersect blocks', u.pc # "delete_blocks",
               NEW s \in Session, <<s, b>> \in tx'[d].todo \union u.del
        PROVE  Row(b) \in u.del \/ b \in overlapped'
    <3>1. b \in BlockId /\ <<s, b>> \in Ref /\ <<s, b>> \in u.todo \union u.del
      BY <1>3, <1>12, <2>3 DEF Ref
    <3>2. b \in used
      BY <1>1, <3>1 DEF Tracks, DeleteFinds
    <3>3. b \in blocks
      BY <1>8, <2>3, <3>1, <3>2
    <3> QED
      BY <1>1, <1>10, <2>3, <3>1, <3>3 DEF Tracks, DeleteFinds
  <2> QED
    BY <1>1, <1>3, <2>1, <2>2, <2>3 DEF Tracks, DeleteFinds
<1>17. PurgeHolds(tx[d])'
  <2> SUFFICES ASSUME u.op = "purge" PROVE PurgeHolds(tx[d])'
    BY <1>3 DEF PurgeHolds
  <2>1. u.s \in Session /\ u.ids \subseteq BlockId /\ u.ids \subseteq used /\ u.orphans \subseteq BlockId
    BY <1>1 DEF Tracks, PurgeHolds, Stands, PurgeStands, CallState
  <2>2. ASSUME NEW b \in BlockId, <<u.s, b>> \in refs', b \notin u.ids,
               u.pc \in {"collect", "lock_blocks", "lock_refs"}
        PROVE  b \in overlapped'
    <3>1. b \in blocks' /\ <<u.s, b>> \in Ref
      BY <1>12, <1>13, <2>2
    <3>2. CASE <<u.s, b>> \in refs
      BY <1>1, <1>10, <2>2, <3>1, <3>2 DEF Tracks, PurgeHolds
    <3>3. CASE <<u.s, b>> \in t.ins
      <4>1. t.op = "put" /\ b \in t.ids /\ t.s = u.s
        <5> DEFINE r == <<u.s, b>>
        <5>1. r \in Ref /\ r \in t.ins /\ r[1] = u.s /\ r[2] = b
          BY <3>1, <3>3
        <5> HIDE DEF r
        <5> QED
          BY <1>1, <5>1 DEF Stands, PutStands, Tracks, PutListed, Ref
      <4> QED
        BY <1>11, <2>2, <3>1, <4>1 DEF GonePast
    <3> QED
      BY <1>6, <2>2, <3>1, <3>2, <3>3
  <2>3. \A b \in u.ids \intersect blocks' : b \in blocks
    BY <1>8, <2>1
  <2>4. ASSUME NEW b \in u.ids \intersect blocks'
        PROVE  /\ u.pc = "lock_refs" => RefsTo({b})' \subseteq tx'[d].todo \union u.held
               /\ u.pc \in Late => Row(b) \in u.held /\ RefsTo({b})' \subseteq u.held
    <3>1. u.pc \in Late \union {"lock_refs"} => Row(b) \in u.held
      BY <1>1, <2>3 DEF Stands, PurgeStands, Tracks, PurgeHolds
    <3>2. Row(b) \in u.held => RefsTo({b})' \subseteq RefsTo({b}) \ t.del
      BY <1>9 DEF RefsTo
    <3> QED
      BY <1>1, <1>3, <2>3, <3>1, <3>2 DEF Tracks, PurgeHolds
  <2>5. ASSUME u.pc \in Late, NEW b \in u.ids, <<u.s, b>> \in refs'
        PROVE  <<u.s, b>> \in tx'[d].todo \union u.del
    <3>1. b \in blocks'
      BY <1>13, <2>5
    <3>2. Row(b) \in u.held
      BY <1>1, <2>3, <2>5, <3>1 DEF Tracks, PurgeHolds
    <3>3. <<u.s, b>> \in refs /\ <<u.s, b>> \notin t.del
      BY <1>9, <2>5, <3>2
    <3> QED
      BY <1>1, <1>3, <2>5, <3>3 DEF Tracks, PurgeHolds
  <2>6. ASSUME NEW r \in Ref, r \in u.del \/ (r \in tx'[d].todo /\ u.pc \in Deletes)
        PROVE  /\ r[1] = u.s /\ r[2] \in used'
               /\ r[2] \in blocks' /\ r[2] \notin u.ids => r[2] \in overlapped'
    BY <1>1, <1>3, <1>8, <1>10, <1>12, <2>6, RefParts DEF Tracks, PurgeHolds
  <2>7. ASSUME u.pc \in Settled, NEW b \in (u.ids \intersect blocks') \ u.orphans
        PROVE  \E r \in RefsTo({b})' : r \notin u.del
    <3>1. PICK r \in RefsTo({b}) : r \notin u.del
      BY <1>1, <2>3, <2>7 DEF Tracks, PurgeHolds
    <3>2. r \in Ref /\ r \in refs /\ r[2] = b
      BY <1>12 DEF RefsTo
    <3>3. r \in u.held
      BY <1>1, <2>3, <2>7, <3>1 DEF Tracks, PurgeHolds, Late, Settled
    <3>4. r \in refs'
      BY <1>6, <1>7, <3>2, <3>3
    <3> QED
      BY <3>1, <3>2, <3>4 DEF RefsTo
  <2>8. ASSUME u.pc = "delete_blocks", NEW b \in u.orphans \intersect blocks'
        PROVE  Row(b) \in tx'[d].todo \union u.del
    <3>1. b \in BlockId /\ Row(b) \in u.held
      BY <1>1, <2>1 DEF Stands, PurgeStands
    <3>2. b \in blocks /\ Row(b) \notin t.del
      BY <1>4, <1>5, <2>8, <3>1
    <3> QED
      BY <1>1, <1>3, <2>8, <3>2 DEF Tracks, PurgeHolds
  <2>9. u.pc \in Settled => tx'[d].todo \intersect Ref = {}
    BY <1>1, <1>3 DEF Tracks, PurgeHolds
  <2> QED
    BY <1>3, <2>1, <2>2, <2>4, <2>5, <2>6, <2>7, <2>8, <2>9 DEF PurgeHolds
<1> QED
  BY <1>14, <1>15, <1>16, <1>17 DEF Tracks

LEMMA CommitLeaksNothing ==
  ASSUME Fresh, PgInv, LeakInv, NEW c \in Conn, Commit(c)
  PROVE  NoLeakWithoutOverlap'
<1> DEFINE t == tx[c]
<1> SUFFICES ASSUME NEW b \in blocks', RefsTo({b})' = {} PROVE b \in overlapped'
  BY DEF NoLeakWithoutOverlap
<1>1. /\ Stands(t) /\ Tracks(t) /\ t \in CallState /\ Finished(t)
      /\ b \in BlockId /\ Row(b) \notin t.del
      /\ b \in blocks \/ Row(b) \in t.ins
  BY CommitType, CommitTables DEF PgInv, LeakInv, TypeOK, Commit
<1>2. \A r \in Ref : r[2] = b => r \notin refs'
  BY DEF RefsTo
<1>3. \A r \in Ref : r \in refs' <=> (r \in refs \/ r \in t.ins) /\ r \notin t.del
  BY CommitRefs
<1>4. b \in overlapped => b \in overlapped'
  BY CommitRefs
<1>5. refs \subseteq Ref
  BY CommitRefs
<1> HIDE DEF t
<1>6. CASE b \in blocks /\ RefsTo({b}) = {}
  BY <1>4, <1>6 DEF LeakInv, NoLeakWithoutOverlap
<1>7. CASE b \in blocks /\ RefsTo({b}) # {}
  <2>1. \A q \in RefsTo({b}) : q \in Ref /\ q[2] = b /\ q \in t.del
    BY <1>2, <1>3, <1>5 DEF RefsTo
  <2>2. PICK r \in RefsTo({b}) : TRUE
    BY <1>7
  <2> QED
    BY <1>1, <1>4, <1>7, <2>1, <2>2, DroppedRow DEF t
<1>8. CASE b \notin blocks
  <2>1. t.op = "put" /\ b \in t.ids /\ t.del = {} /\ t.pc = "insert_ref"
    BY <1>1, <1>8 DEF Stands, PutStands, Finished
  <2>2. <<t.s, b>> \in refs \union t.ins \/ b \in overlapped
    BY <1>1, <2>1 DEF Tracks, PutListed
  <2> DEFINE r == <<t.s, b>>
  <2>3. r \in Ref /\ r[2] = b
    BY <1>1, <2>1 DEF Stands, PutStands, Ref
  <2> HIDE DEF r
  <2> QED
    BY <1>2, <1>3, <1>4, <2>1, <2>2, <2>3 DEF r
<1> QED
  BY <1>6, <1>7, <1>8

LEMMA CommitTracks ==
  ASSUME Fresh, PgInv, LeakInv, NEW c \in Conn, Commit(c)
  PROVE  LeakInv'
<1>1. Tracks(tx[c])'
  <2>1. tx'[c] = Idle
    BY CommitType
  <2> QED
    BY <2>1 DEF Idle, Tracks, RefsOwned, PutListed, DeleteFinds, PurgeHolds
<1>2. \A d \in Conn : Tracks(tx[d])'
  BY <1>1, CommitOthersTrack
<1>3. \A d \in Conn : tx'[d].held \subseteq tx[d].held
  BY CommitHolds
<1>4. RefsOneHolder'
  BY <1>3 DEF LeakInv, RefsOneHolder
<1>5. (overlapped \subseteq blocks)'
  BY DEF Commit
<1> QED
  BY <1>2, <1>4, <1>5, CommitLeaksNothing DEF LeakInv

(* A finished call has done what the trait says.                           *)
LEMMA CommitTakesEffect ==
  ASSUME Fresh, PgInv, LeakInv, NEW c \in Conn, Commit(c)
  PROVE  TookEffect(tx[c])
<1> DEFINE t == tx[c]
<1>1. /\ Stands(t) /\ Tracks(t) /\ t \in CallState /\ Finished(t)
  BY DEF PgInv, LeakInv, TypeOK, Commit
<1>2. \A b \in BlockId : b \in blocks' <=> (b \in blocks \/ Row(b) \in t.ins) /\ Row(b) \notin t.del
  BY CommitTables
<1>3. \A r \in Ref : r \in refs' <=> (r \in refs \/ r \in t.ins) /\ r \notin t.del
  BY CommitRefs
<1>4. /\ overlapped \intersect blocks' \subseteq overlapped'
      /\ refs' \subseteq Ref
  BY CommitRefs
<1> HIDE DEF t
<1>5. CASE t.op = "put"
  <2>1. t.ids \subseteq blocks'
    BY <1>1, <1>2, <1>5 DEF Stands, PutStands, HoldsWhatIsThere, CallState
  <2> QED
    BY <1>5, <2>1 DEF TookEffect, t
<1>6. CASE t.op = "purge"
  <2>1. ASSUME NEW b \in t.ids, <<t.s, b>> \in refs' PROVE FALSE
    <3>1. <<t.s, b>> \in refs /\ <<t.s, b>> \notin t.del
      BY <1>1, <1>3, <1>4, <1>6, <2>1 DEF Stands, PutStands
    <3>2. t.todo = {} /\ t.pc \in Late
      BY <1>1, <1>6 DEF Finished, Late
    <3> QED
      BY <1>1, <1>6, <2>1, <3>1, <3>2 DEF Tracks, PurgeHolds
  <2> QED
    BY <1>6, <2>1 DEF TookEffect, t
<1>7. CASE t.op = "delete"
  <2>1. ASSUME Existed(t), NEW b \in t.ids \intersect blocks' PROVE b \in overlapped'
    <3>1. b \in BlockId /\ b \in blocks /\ Row(b) \notin t.del
      BY <1>1, <1>2, <1>7, <2>1 DEF Stands, PutStands, CallState
    <3>2. \E s \in Session : <<s, b>> \in t.del
      BY <1>1, <1>7, <2>1, <3>1 DEF Existed, Stands, DeleteStands, CallState
    <3>3. b \in overlapped
      BY <1>1, <1>7, <2>1, <3>1, <3>2 DEF Finished, Tracks, DeleteFinds
    <3> QED
      BY <1>4, <2>1, <3>3
  <2> QED
    BY <1>7, <2>1 DEF TookEffect, t
<1> QED
  BY <1>1, <1>5, <1>6, <1>7 DEF Finished

-----------------------------------------------------------------------------

LEMMA LeakInitInv ==
  ASSUME Fresh, Init
  PROVE  LeakInv
<1>1. \A b \in blocks : RefsTo({b}) # {}
  BY DEF Init, RefsTo
<1>2. \A c \in Conn : Tracks(tx[c])
  BY IdleTracks DEF Init
<1>3. RefsOneHolder
  BY DEF Init, RefsOneHolder, Idle
<1> QED
  BY <1>1, <1>2, <1>3 DEF Init, LeakInv, NoLeakWithoutOverlap

LEMMA LeakNextInv ==
  ASSUME Fresh, PgInv, LeakInv, [Next]_vars
  PROVE  LeakInv'
<1>1. ASSUME NEW c \in Conn, Call(c) PROVE LeakInv'
  BY <1>1, BeginPutTracks, BeginDeleteTracks, BeginPurgeTracks DEF Call
<1>2. ASSUME NEW c \in Conn, Work(c) PROVE LeakInv'
  <2>1. CASE LockRow(c)
    BY <2>1, LockRowTracks
  <2>2. CASE Upsert(c) \/ InsertRef(c)
    BY <2>2, UpsertTracks, InsertRefTracks
  <2>3. CASE DeleteSessionRefs(c) \/ DeleteEdges(c)
    BY <2>3, DeleteSessionRefsTracks, DeleteEdgesTracks
  <2>4. CASE LockBlocks(c) \/ LockRefs(c) \/ DropRefs(c)
    BY <2>4, LockBlocksTracks, LockRefsTracks, DropRefsTracks
  <2>5. CASE CollectOrphans(c) \/ ScrubEdges(c) \/ ScrubBlocks(c)
    BY <2>5, CollectOrphansTracks, ScrubEdgesTracks, ScrubBlocksTracks
  <2>6. CASE Commit(c)
    BY <2>6, CommitTracks
  <2> QED
    BY <1>2, <2>1, <2>2, <2>3, <2>4, <2>5, <2>6 DEF Work
<1>3. ASSUME NEW c \in Conn, Abort(c) \/ DeadlockVictim(c) PROVE LeakInv'
  BY <1>3, AbortTracks DEF DeadlockVictim
<1>4. ASSUME NEW e \in Edge, PutEdge(e) PROVE LeakInv'
  BY <1>4, SameTracks DEF PutEdge
<1>5. CASE UNCHANGED vars
  BY <1>5, SameTracks DEF vars, tables
<1> QED
  BY <1>1, <1>2, <1>3, <1>4, <1>5 DEF Next

(* What every open call knows of the rows it needs stays true.             *)
THEOREM LeakInvariant ==
  ASSUME Fresh
  PROVE  Spec => [](PgInv /\ LeakInv)
<1>1. Init => PgInv /\ LeakInv
  BY PgInitInv, LeakInitInv
<1>2. PgInv /\ LeakInv /\ [Next]_vars => (PgInv /\ LeakInv)'
  BY PgNextInv, LeakNextInv
<1> QED
  BY <1>1, <1>2, PTL DEF Spec

(***************************************************************************)
(* The comment on step 3 of purge_session, for any number of purges,       *)
(* deletes and puts at once: a block is without a session only if a put of *)
(* it overlapped the purge or delete that took its last row.               *)
(***************************************************************************)
THEOREM NoLeakWithoutOverlapAlways ==
  ASSUME Fresh
  PROVE  Spec => []NoLeakWithoutOverlap
<1>1. LeakInv => NoLeakWithoutOverlap
  BY DEF LeakInv
<1> QED
  BY <1>1, LeakInvariant, PTL

(***************************************************************************)
(* put, delete and purge_session, each a transaction of several            *)
(* statements, have their effect when they commit.                         *)
(***************************************************************************)
THEOREM CallsTakeEffectAlways ==
  ASSUME Fresh
  PROVE  Spec => CallsTakeEffect
<1>1. PgInv /\ LeakInv /\ [Next]_vars => [\A c \in Conn : Commit(c) => TookEffect(tx[c])]_vars
  BY CommitTakesEffect
<1> QED
  BY <1>1, LeakInvariant, PTL DEF Spec, CallsTakeEffect

-----------------------------------------------------------------------------
(* The tables of PgStore do what BlockStore!LooseSpec lets them.           *)

(* What a put commits: its row with its block, or nothing if a call that   *)
(* overlapped it took the row.                                             *)
LEMMA PutImplements ==
  ASSUME Fresh, PgInv, LeakInv, NEW c \in Conn, Commit(c), tx[c].op = "put"
  PROVE  (\E s \in Session, b \in BlockId : BS!LoosePut(s, b)) \/ UNCHANGED tables
<1> DEFINE t == tx[c]
<1>1. /\ Stands(t) /\ Tracks(t) /\ t \in CallState /\ t.pc = "insert_ref"
      /\ t.del = {} /\ t.s \in Session
  BY DEF PgInv, LeakInv, TypeOK, Commit, Finished, Stands, PutStands
<1>2. PICK b \in t.ids : t.ids = {b}
  BY <1>1 DEF Stands, PutStands
<1>3. b \in BlockId /\ Row(b) \in t.held
  BY <1>1, <1>2 DEF Stands, PutStands, CallState
<1>4. blocks' = {a \in BlockId : a \in blocks \/ Row(a) \in t.ins} /\ edges' = edges
  BY <1>1 DEF Commit
<1>5. refs' = refs \union (t.ins \intersect Ref)
  BY <1>1 DEF Commit, Ref
<1> DEFINE row == <<t.s, b>>
<1>6. row \in Ref /\ \A r \in t.ins \intersect Ref : r = row
  BY <1>1, <1>2, <1>3 DEF Stands, PutStands, Tracks, PutListed, Ref
<1>7. \A a \in BlockId : Row(a) \in t.ins => a = b
  BY <1>1, <1>2 DEF Stands, PutStands
<1> HIDE DEF t, row
<1>8. blocks' = blocks \union {b}
  BY <1>1, <1>3, <1>4, <1>7 DEF Stands, HoldsWhatIsThere, PgInv, TypeOK
<1>9. CASE row \in refs \/ row \in t.ins
  <2>1. refs' = refs \union {row}
    BY <1>5, <1>6, <1>9
  <2>2. IF BS!SameContent(b) = {} THEN TRUE ELSE b \in BS!SameContent(b)
    BY <1>1, <1>3 DEF Stands, HoldsWhatIsThere, InsertsNew, BS!SameContent
  <2>3. BS!LoosePut(t.s, b)
    BY <1>3, <1>4, <1>8, <2>1, <2>2 DEF BS!LoosePut, row
  <2> QED
    BY <1>1, <1>3, <2>3
<1>10. CASE row \notin refs /\ row \notin t.ins
  <2>1. b \in blocks
    BY <1>1, <1>2, <1>10 DEF Tracks, PutListed, LeakInv, row, t
  <2>2. refs' = refs /\ blocks' = blocks
    BY <1>5, <1>6, <1>8, <1>10, <2>1
  <2> QED
    BY <1>4, <2>2 DEF tables
<1> QED
  BY <1>9, <1>10

(* A removal takes session rows in R, blocks in B and their edges.         *)
LEMMA RemoveImplements ==
  ASSUME Fresh, PgInv, LeakInv, NEW c \in Conn, Commit(c), tx[c].op \in {"delete", "purge"},
         NEW R, NEW B, tx[c].del \intersect refs \subseteq R,
         \A b \in BlockId : Row(b) \in tx[c].del => b \in B,
         \A e \in tx[c].del \intersect EdgeRow : e[1] \in B \/ e[3] \in B
  PROVE  BS!LooseRemove(R, B)
<1>1. tx[c].ins = {}
  BY DEF PgInv, Stands, PutStands
<1>2. /\ blocks' \subseteq blocks
      /\ \A b \in blocks \ blocks' : Row(b) \in tx[c].del
  BY <1>1, CommitTables DEF Commit, PgInv, TypeOK
<1>3. refs' = refs \ tx[c].del /\ edges' = edges \ tx[c].del
  BY <1>1 DEF Commit
<1>4. edges \subseteq EdgeRow /\ blocks \subseteq BlockId
  BY DEF PgInv, TypeOK, EdgeRow
<1>5. \A b \in blocks \ blocks' : \A r \in refs' : r[2] # b
  BY CommitConsistent DEF TablesConsistent, NoDanglingRef
<1>6. edges \ edges' \subseteq BS!Incident(B)
  BY <1>3, <1>4 DEF BS!Incident
<1> QED
  BY <1>2, <1>3, <1>4, <1>5, <1>6 DEF BS!LooseRemove

LEMMA DeleteImplements ==
  ASSUME Fresh, PgInv, LeakInv, NEW c \in Conn, Commit(c), tx[c].op = "delete"
  PROVE  \E b \in BlockId : BS!LooseDelete(b)
<1> DEFINE t == tx[c]
<1>1. Stands(t) /\ Tracks(t) /\ t \in CallState
  BY DEF PgInv, LeakInv, TypeOK
<1>2. PICK b \in BlockId : t.ids = {b}
  BY <1>1 DEF Stands, DeleteStands, CallState
<1>3. t.del \intersect refs \subseteq {r \in refs : r[2] = b}
  BY <1>1, <1>2 DEF Tracks, DeleteFinds, PgInv, TypeOK, Ref
<1>4. /\ \A a \in BlockId : Row(a) \in t.del => a \in {b}
      /\ \A e \in t.del \intersect EdgeRow : e[1] \in {b} \/ e[3] \in {b}
  BY <1>1, <1>2 DEF Stands, DeleteStands
<1>5. BS!LooseRemove({r \in refs : r[2] = b}, {b})
  BY <1>3, <1>4, RemoveImplements
<1> QED
  BY <1>2, <1>5 DEF BS!LooseDelete

LEMMA PurgeImplements ==
  ASSUME Fresh, PgInv, LeakInv, NEW c \in Conn, Commit(c), tx[c].op = "purge"
  PROVE  \E s \in Session : BS!LoosePurge(s)
<1> DEFINE t == tx[c]
           R == {r \in refs : r[1] = t.s}
           B == {b \in BlockId : BS!SessionsOf(b) \subseteq {t.s}}
<1>1. Stands(t) /\ Tracks(t) /\ t \in CallState /\ t.s \in Session
  BY DEF PgInv, LeakInv, TypeOK, Tracks, PurgeHolds
<1>2. \A r \in Ref : r \in t.del => r[1] = t.s
  BY <1>1 DEF Tracks, PurgeHolds
<1>3. t.del \intersect refs \subseteq R
  BY <1>2 DEF PgInv, TypeOK, Ref
<1>4. \A b \in t.orphans : b \in B
  <2> SUFFICES ASSUME NEW b \in t.orphans PROVE b \in BlockId /\ BS!SessionsOf(b) \subseteq {t.s}
    OBVIOUS
  <2>1. b \in BlockId /\ RefsTo({b}) \subseteq t.del
    BY <1>1 DEF Stands, PurgeStands, CallState
  <2>2. ASSUME NEW s \in BS!SessionsOf(b) PROVE s = t.s
    <3>1. s \in Session /\ <<s, b>> \in refs
      BY <2>2 DEF BS!SessionsOf
    <3>2. <<s, b>> \in Ref /\ <<s, b>> \in t.del
      BY <2>1, <3>1 DEF Ref, RefsTo
    <3> DEFINE r == <<s, b>>
    <3>3. r \in Ref /\ r \in t.del /\ r[1] = s
      BY <3>2
    <3> HIDE DEF r
    <3> QED
      BY <1>2, <3>3
  <2> QED
    BY <2>1, <2>2
<1> HIDE DEF B, R
<1>5. /\ \A b \in BlockId : Row(b) \in t.del => b \in B
      /\ \A e \in t.del \intersect EdgeRow : e[1] \in B \/ e[3] \in B
  BY <1>1, <1>4 DEF Stands, PurgeStands
<1>6. BS!LooseRemove(R, B)
  BY <1>3, <1>5, RemoveImplements
<1> QED
  BY <1>1, <1>6 DEF BS!LoosePurge, R, B

(***************************************************************************)
(* Every commit changes the tables as one call of the BlockStore trait may:*)
(* several statements on a shared database look like one call at a time.   *)
(***************************************************************************)
THEOREM ImplementsLooseStoreAlways ==
  ASSUME Fresh
  PROVE  Spec => ImplementsLooseStore
<1>1. Init => BS!TablesInit
  BY SeedAssumption DEF Init, BS!TablesInit
<1>2. PgInv /\ LeakInv /\ [Next]_vars => [BS!LooseNext]_(BS!tables)
  <2> SUFFICES ASSUME PgInv, LeakInv, [Next]_vars PROVE BS!LooseNext \/ UNCHANGED tables
    BY DEF tables, BS!tables
  <2>1. ASSUME NEW c \in Conn, Commit(c) PROVE BS!LooseNext \/ UNCHANGED tables
    <3>1. tx[c].op \in {"put", "delete", "purge"}
      BY <2>1 DEF Commit, Finished
    <3> QED
      BY <2>1, <3>1, PutImplements, DeleteImplements, PurgeImplements DEF BS!LooseNext
  <2>2. ASSUME NEW e \in Edge, PutEdge(e) PROVE BS!LooseNext
    BY <2>2 DEF PutEdge, BS!LooseNext, BS!LoosePutEdge
  <2>3. ASSUME NEW c \in Conn, Call(c) PROVE UNCHANGED tables
    BY <2>3 DEF Call, BeginPut, BeginDelete, BeginPurge, Begin
  <2>4. ASSUME NEW c \in Conn, Work(c), ~Commit(c) PROVE UNCHANGED tables
    BY <2>4 DEF Work, LockRow, Upsert, InsertRef, DeleteSessionRefs, DeleteEdges, LockBlocks,
                LockRefs, DropRefs, CollectOrphans, ScrubEdges, ScrubBlocks, Statement
  <2>5. ASSUME NEW c \in Conn, Abort(c) \/ DeadlockVictim(c) PROVE UNCHANGED tables
    BY <2>5 DEF Abort, DeadlockVictim
  <2>6. CASE UNCHANGED vars
    BY <2>6 DEF vars
  <2> QED
    BY <2>1, <2>2, <2>3, <2>4, <2>5, <2>6 DEF Next
<1> QED
  BY <1>1, <1>2, LeakInvariant, PTL DEF Spec, ImplementsLooseStore, BS!LooseSpec

-----------------------------------------------------------------------------
(* Which calls a deadlock can have: put, delete and purge_session lock     *)
(* blocks before session rows and edges, and a put locks one block only.   *)


BlockRows == RowOf(BlockId)

(* t is waiting, or about to, for the rows of blocks.                      *)
AtBlocks(t) ==
  \/ t.pc \in {"begun", "collect", "lock_blocks"}
  \/ t.op = "delete" /\ t.pc = "delete_blocks"

(* So far t has nothing but rows of blocks, a put not even those at first. *)
BlocksFirst(t) ==
  /\ AtBlocks(t) \/ t.pc = "upsert" =>
       \A R \in {t.todo, t.held, t.ins, t.del} : R \subseteq BlockRows
  /\ t.pc = "begun" => t.held = {} /\ t.ins = {} /\ t.del = {}

AllBlocksFirst == \A c \in Conn : BlocksFirst(tx[c])

-----------------------------------------------------------------------------

LEMMA BlocksFirstStep ==
  ASSUME PgInv, AllBlocksFirst, NEW c \in Conn, NEW t,
         tx' = [tx EXCEPT ![c] = t], BlocksFirst(t)
  PROVE  AllBlocksFirst'
<1> SUFFICES ASSUME NEW d \in Conn PROVE BlocksFirst(tx[d])'
  BY DEF AllBlocksFirst
<1>1. BlocksFirst(tx'[d])
  BY DEF AllBlocksFirst, PgInv, TypeOK
<1> QED
  BY <1>1 DEF BlocksFirst, AtBlocks

LEMMA CallBlocksFirst ==
  ASSUME PgInv, AllBlocksFirst, NEW c \in Conn, Call(c)
  PROVE  AllBlocksFirst'
<1>1. ASSUME NEW s \in Session, NEW h \in Hash, BeginPut(c, s, h) PROVE AllBlocksFirst'
  <2> DEFINE t == [Idle EXCEPT !.op = "put", !.pc = "begun", !.s = s, !.h = h]
  <2>1. BlocksFirst(t)
    BY DEF Idle, BlocksFirst, AtBlocks
  <2>2. tx' = [tx EXCEPT ![c] = t]
    BY <1>1 DEF BeginPut, Begin
  <2> HIDE DEF t
  <2> QED
    BY <2>1, <2>2, BlocksFirstStep
<1>2. ASSUME NEW b \in BlockId, BeginDelete(c, b) PROVE AllBlocksFirst'
  <2> DEFINE t == [Idle EXCEPT !.op = "delete", !.pc = "delete_blocks", !.ids = {b},
                               !.todo = RowOf({b} \intersect blocks)]
  <2>1. BlocksFirst(t)
    BY DEF Idle, BlocksFirst, AtBlocks, BlockRows, RowOf
  <2>2. tx' = [tx EXCEPT ![c] = t]
    BY <1>2 DEF BeginDelete, Begin
  <2> HIDE DEF t
  <2> QED
    BY <2>1, <2>2, BlocksFirstStep
<1>3. ASSUME NEW s \in Session, BeginPurge(c, s) PROVE AllBlocksFirst'
  <2> DEFINE t == [Idle EXCEPT !.op = "purge", !.pc = "collect", !.s = s, !.ids = BlocksOf(s)]
  <2>1. BlocksFirst(t)
    BY DEF Idle, BlocksFirst, AtBlocks
  <2>2. tx' = [tx EXCEPT ![c] = t]
    BY <1>3 DEF BeginPurge, Begin
  <2> HIDE DEF t
  <2> QED
    BY <2>1, <2>2, BlocksFirstStep
<1> QED
  BY <1>1, <1>2, <1>3 DEF Call

(* Only LockBlocks and Upsert lead to blocks; the rest lead away.          *)
LEMMA StatementBlocksFirst ==
  ASSUME PgInv, AllBlocksFirst, NEW c \in Conn, NEW at, NEW next, NEW rows,
         Statement(c, at, next, rows),
         \/ next \notin {"begun", "upsert", "collect", "lock_blocks", "delete_blocks"}
         \/ next = "delete_blocks" /\ tx[c].op = "purge"
         \/ at = "collect" /\ next = "lock_blocks" /\ rows \subseteq BlockRows
  PROVE  AllBlocksFirst'
<1>1. tx[c] \in CallState /\ BlocksFirst(tx[c]) /\ tx[c].pc = at
  BY DEF PgInv, TypeOK, AllBlocksFirst, Statement
<1>2. tx' = [tx EXCEPT ![c] = OnTo(tx[c], next, rows)]
  BY <1>1 DEF Statement, PgInv, TypeOK, CallState, OnTo
<1>3. BlocksFirst(OnTo(tx[c], next, rows))
  BY <1>1 DEF BlocksFirst, AtBlocks, CallState, OnTo
<1> QED
  BY <1>2, <1>3, BlocksFirstStep

LEMMA LockRowBlocksFirst ==
  ASSUME PgInv, AllBlocksFirst, NEW c \in Conn, LockRow(c)
  PROVE  AllBlocksFirst'
<1>1. tx[c] \in CallState /\ Stands(tx[c]) /\ BlocksFirst(tx[c])
  BY DEF PgInv, TypeOK, AllBlocksFirst
<1>2. PICK row \in tx[c].todo :
        tx' = [tx EXCEPT
                 ![c].todo = @ \ {row},
                 ![c].held = @ \union {row},
                 ![c].del = IF tx[c].pc \in Deletes THEN @ \union {row} ELSE @]
  BY DEF LockRow
<1> DEFINE t == [tx[c] EXCEPT
                   !.todo = @ \ {row}, !.held = @ \union {row},
                   !.del = IF tx[c].pc \in Deletes THEN @ \union {row} ELSE @]
<1>3. tx' = [tx EXCEPT ![c] = t]
  BY <1>1, <1>2 DEF PgInv, TypeOK, CallState
<1>4. tx[c].op # "put"
  BY <1>1, <1>2 DEF Stands, PutStands
<1>5. /\ t.op = tx[c].op /\ t.pc = tx[c].pc /\ t.ins = tx[c].ins
      /\ t.todo = tx[c].todo \ {row} /\ t.held = tx[c].held \union {row}
      /\ t.del \in {tx[c].del, tx[c].del \union {row}}
  BY <1>1 DEF CallState
<1> HIDE DEF t
<1>6. BlocksFirst(t)
  BY <1>1, <1>2, <1>4, <1>5 DEF BlocksFirst, AtBlocks, Stands, InStep, Deletes
<1> QED
  BY <1>3, <1>6, BlocksFirstStep

LEMMA UpsertBlocksFirst ==
  ASSUME PgInv, AllBlocksFirst, NEW c \in Conn, Upsert(c)
  PROVE  AllBlocksFirst'
<1>1. tx[c] \in CallState /\ Stands(tx[c]) /\ tx[c].op = "put"
  BY DEF PgInv, TypeOK, Upsert, Stands, InStep, Deletes
<1>2. PICK id \in BlockId : \E I \in {{}, {Row(id)}} :
        tx' = [tx EXCEPT ![c].pc = "upsert", ![c].ids = {id},
                         ![c].held = {Row(id)}, ![c].ins = I]
  BY DEF Upsert
<1>3. PICK I \in {{}, {Row(id)}} :
        tx' = [tx EXCEPT ![c].pc = "upsert", ![c].ids = {id},
                         ![c].held = {Row(id)}, ![c].ins = I]
  BY <1>2
<1> DEFINE t == [tx[c] EXCEPT !.pc = "upsert", !.ids = {id}, !.held = {Row(id)}, !.ins = I]
<1>4. tx' = [tx EXCEPT ![c] = t]
  BY <1>1, <1>3 DEF PgInv, TypeOK, CallState
<1>5. /\ t.pc = "upsert" /\ t.todo = {} /\ t.del = {}
      /\ t.held = {Row(id)} /\ t.ins = I
  BY <1>1 DEF CallState, Stands, PutStands
<1>6. {Row(id)} \subseteq BlockRows
  BY DEF BlockRows, RowOf
<1> HIDE DEF t
<1>7. BlocksFirst(t)
  BY <1>3, <1>5, <1>6 DEF BlocksFirst, AtBlocks
<1> QED
  BY <1>4, <1>7, BlocksFirstStep

LEMMA InsertRefBlocksFirst ==
  ASSUME PgInv, AllBlocksFirst, NEW c \in Conn, InsertRef(c)
  PROVE  AllBlocksFirst'
<1>1. tx[c] \in CallState /\ tx[c].op = "put"
  BY DEF PgInv, TypeOK, InsertRef, Stands, InStep, Deletes
<1>2. PICK b \in tx[c].ids :
        LET row == <<tx[c].s, b>> IN
        tx' = [tx EXCEPT ![c].pc = "insert_ref",
                         ![c].held = IF row \in refs THEN @ ELSE @ \union {row},
                         ![c].ins = IF row \in refs THEN @ ELSE @ \union {row}]
  BY DEF InsertRef
<1> DEFINE row == <<tx[c].s, b>>
           t == [tx[c] EXCEPT !.pc = "insert_ref",
                              !.held = IF row \in refs THEN @ ELSE @ \union {row},
                              !.ins = IF row \in refs THEN @ ELSE @ \union {row}]
<1>3. tx' = [tx EXCEPT ![c] = t]
  BY <1>1, <1>2 DEF PgInv, TypeOK, CallState
<1>4. t.pc = "insert_ref" /\ t.op = "put"
  BY <1>1 DEF CallState
<1> HIDE DEF t
<1>5. BlocksFirst(t)
  BY <1>4 DEF BlocksFirst, AtBlocks
<1> QED
  BY <1>3, <1>5, BlocksFirstStep

LEMMA CollectOrphansBlocksFirst ==
  ASSUME PgInv, AllBlocksFirst, NEW c \in Conn, CollectOrphans(c)
  PROVE  AllBlocksFirst'
<1> DEFINE found == {b \in tx[c].ids \intersect blocks : RefsTo({b}) \subseteq tx[c].del}
           t == [tx[c] EXCEPT !.pc = "orphans", !.orphans = found]
<1>1. tx[c] \in CallState
  BY DEF PgInv, TypeOK
<1>2. tx' = [tx EXCEPT ![c] = t] /\ t.pc = "orphans"
  BY <1>1 DEF CollectOrphans, PgInv, TypeOK, CallState
<1> HIDE DEF t
<1>3. BlocksFirst(t)
  BY <1>2 DEF BlocksFirst, AtBlocks
<1> QED
  BY <1>2, <1>3, BlocksFirstStep

LEMMA CommitBlocksFirst ==
  ASSUME PgInv, AllBlocksFirst, NEW c \in Conn, Commit(c)
  PROVE  AllBlocksFirst'
<1> SUFFICES ASSUME NEW d \in Conn PROVE BlocksFirst(tx[d])'
  BY DEF AllBlocksFirst
<1>1. CASE d = c
  BY <1>1, CommitType DEF Idle, BlocksFirst, AtBlocks
<1>2. CASE d # c
  <2>1. tx'[d] = [tx[d] EXCEPT !.todo = @ \ tx[c].del]
    BY <1>2, CommitType
  <2>2. tx[d] \in CallState /\ BlocksFirst(tx[d])
    BY DEF PgInv, TypeOK, AllBlocksFirst
  <2>3. /\ tx'[d].op = tx[d].op /\ tx'[d].pc = tx[d].pc
        /\ tx'[d].held = tx[d].held /\ tx'[d].ins = tx[d].ins /\ tx'[d].del = tx[d].del
        /\ tx'[d].todo \subseteq tx[d].todo
    BY <2>1, <2>2 DEF CallState
  <2> QED
    BY <2>2, <2>3 DEF BlocksFirst, AtBlocks
<1> QED
  BY <1>1, <1>2

LEMMA NextBlocksFirst ==
  ASSUME PgInv, AllBlocksFirst, [Next]_vars
  PROVE  AllBlocksFirst'
<1>1. ASSUME NEW c \in Conn, Call(c) PROVE AllBlocksFirst'
  BY <1>1, CallBlocksFirst
<1>2. ASSUME NEW c \in Conn, Work(c) PROVE AllBlocksFirst'
  <2>1. CASE LockRow(c) \/ Upsert(c) \/ InsertRef(c)
    BY <2>1, LockRowBlocksFirst, UpsertBlocksFirst, InsertRefBlocksFirst
  <2>2. CASE DeleteSessionRefs(c) \/ DeleteEdges(c)
    BY <2>2, StatementBlocksFirst DEF DeleteSessionRefs, DeleteEdges
  <2>3. CASE LockBlocks(c)
    <3>1. RowOf(tx[c].ids \intersect blocks) \subseteq BlockRows
      BY DEF BlockRows, RowOf, PgInv, TypeOK
    <3> QED
      BY <2>3, <3>1, StatementBlocksFirst DEF LockBlocks
  <2>4. CASE LockRefs(c) \/ DropRefs(c) \/ ScrubEdges(c) \/ ScrubBlocks(c)
    BY <2>4, StatementBlocksFirst DEF LockRefs, DropRefs, ScrubEdges, ScrubBlocks
  <2>5. CASE CollectOrphans(c) \/ Commit(c)
    BY <2>5, CollectOrphansBlocksFirst, CommitBlocksFirst
  <2> QED
    BY <1>2, <2>1, <2>2, <2>3, <2>4, <2>5 DEF Work
<1>3. ASSUME NEW c \in Conn, Abort(c) \/ DeadlockVictim(c) PROVE AllBlocksFirst'
  <2>1. BlocksFirst(Idle)
    BY DEF Idle, BlocksFirst, AtBlocks
  <2> QED
    BY <1>3, <2>1, BlocksFirstStep DEF Abort, DeadlockVictim
<1>4. CASE UNCHANGED tx
  BY <1>4 DEF AllBlocksFirst, BlocksFirst, AtBlocks
<1> QED
  BY <1>1, <1>2, <1>3, <1>4 DEF Next, PutEdge, vars

-----------------------------------------------------------------------------
(* Who waits for a transaction that has nothing but rows of blocks is      *)
(* itself at blocks.                                                       *)
LEMMA WaitsForBlocks ==
  ASSUME PgInv, NEW a \in Conn, NEW x \in Conn, x \in Awaited(a),
         tx[x].held \subseteq BlockRows, tx[x].ins \subseteq BlockRows, tx[x].del \subseteq BlockRows
  PROVE  AtBlocks(tx[a])
<1>1. tx[a] \in CallState /\ Stands(tx[a]) /\ x # a
  BY DEF PgInv, TypeOK, Awaited, Others
<1>2. CASE tx[a].pc = "begun"
  BY <1>2 DEF AtBlocks
<1>3. CASE tx[a].pc = "upsert"
  <2>1. PICK b \in tx[a].ids : <<tx[a].s, b>> \in tx[x].ins \union tx[x].del
    BY <1>3 DEF Awaited
  <2>2. <<tx[a].s, b>> \in Session \X BlockId
    BY <1>1, <1>3 DEF Stands, InStep, PutStands, CallState, Deletes
  <2> QED
    BY <2>1, <2>2, RowIsOwn DEF BlockRows, RowOf
<1>4. CASE tx[a].pc \notin {"begun", "upsert"}
  <2>1. tx[a].todo \intersect tx[x].held # {}
    BY <1>4 DEF Awaited
  <2>2. PICK b \in BlockId : Row(b) \in tx[a].todo /\ Row(b) \in tx[x].held
    BY <2>1 DEF BlockRows, RowOf
  <2>3. Row(b) \notin tx[a].held
    BY <1>1, <2>2, HeldByOne DEF PgInv, OneHolder
  <2>4. tx[a].pc = "lock_blocks" \/ (tx[a].pc = "delete_blocks" /\ tx[a].op = "delete")
    BY <1>1, <2>2, <2>3 DEF Stands, InStep, AsksForWhatIsThere, PutStands, PurgeStands
  <2> QED
    BY <2>4 DEF AtBlocks
<1> QED
  BY <1>2, <1>3, <1>4

(* In a deadlock somebody waits for each member.                           *)
LEMMA DeadlockedAwaited ==
  ASSUME NEW D \in SUBSET Conn, Deadlocked(D), NEW c \in D
  PROVE  \E e \in D : c \in Awaited(e)
<1> SUFFICES ASSUME \A e \in D : c \notin Awaited(e) PROVE FALSE
  OBVIOUS
<1>1. \A e \in D : Awaited(e) \intersect (D \ {c}) # {}
  BY DEF Deadlocked, Waiting
<1>2. Waiting(D \ {c})
  BY <1>1 DEF Waiting
<1> QED
  BY <1>2 DEF Deadlocked

LEMMA NoPutInDeadlock ==
  ASSUME PgInv, AllBlocksFirst
  PROVE  PutNeverDeadlocks
<1> SUFFICES ASSUME NEW D \in SUBSET Conn, Deadlocked(D), NEW c \in D, tx[c].op = "put"
             PROVE  FALSE
  BY DEF PutNeverDeadlocks
<1>1. Stands(tx[c]) /\ BlocksFirst(tx[c]) /\ tx[c].pc \in {"begun", "upsert", "insert_ref"}
  BY DEF PgInv, AllBlocksFirst, Stands, InStep
<1>2. PICK e \in D : c \in Awaited(e)
  BY DeadlockedAwaited
<1>3. tx[c].pc # "begun"
  BY <1>1, <1>2 DEF BlocksFirst, Awaited, HoldsContent
<1>4. tx[c].pc # "insert_ref"
  <2>1. Awaited(c) # {}
    BY DEF Deadlocked, Waiting
  <2> QED
    BY <1>1, <2>1 DEF Stands, PutStands, Awaited
<1>5. tx[c].pc = "upsert"
  BY <1>1, <1>3, <1>4
<1>6. AtBlocks(tx[e]) /\ ~AtBlocks(tx[c])
  BY <1>1, <1>2, <1>5, WaitsForBlocks DEF BlocksFirst, AtBlocks
<1> DEFINE E == {a \in D : ~AtBlocks(tx[a])}
<1>7. \A a \in E : Awaited(a) \intersect E # {}
  <2> SUFFICES ASSUME NEW a \in E PROVE Awaited(a) \intersect E # {}
    OBVIOUS
  <2>1. PICK x \in D : x \in Awaited(a)
    BY DEF Deadlocked, Waiting
  <2>2. ~AtBlocks(tx[x])
    BY <2>1, WaitsForBlocks DEF AllBlocksFirst, BlocksFirst
  <2> QED
    BY <2>1, <2>2
<1>8. Waiting(E)
  BY <1>6, <1>7 DEF Waiting
<1> QED
  BY <1>6, <1>8 DEF Deadlocked

(***************************************************************************)
(* Whatever puts, deletes and purges run at the same time: no put is ever  *)
(* part of a deadlock, so none is rolled back to end one.                  *)
(***************************************************************************)
THEOREM PutNeverDeadlocksAlways ==
  ASSUME Fresh
  PROVE  Spec => []PutNeverDeadlocks
<1>1. Init => PgInv /\ AllBlocksFirst
  BY PgInitInv DEF Init, AllBlocksFirst, BlocksFirst, AtBlocks, Idle
<1>2. PgInv /\ AllBlocksFirst /\ [Next]_vars => (PgInv /\ AllBlocksFirst)'
  BY PgNextInv, NextBlocksFirst
<1>3. PgInv /\ AllBlocksFirst => PutNeverDeadlocks
  BY NoPutInDeadlock
<1> QED
  BY <1>1, <1>2, <1>3, PTL DEF Spec

-----------------------------------------------------------------------------
(* Opening a database, and sharing the connections to it: for every number *)
(* of stores, connections and callers.                                     *)

InTransaction == {"locked", "looked", "created", "written"}

(* The store whose bootstrap transaction is open has the advisory lock.    *)
LockHeld(s) == opening[s].pc \in InTransaction => lock = s

(* What it looked at and created under the lock is still so.               *)
LooksAreFresh(s) ==
  /\ opening[s].pc = "looked" => opening[s].missing = Tables \ catalog
  /\ opening[s].pc \in {"created", "written"} => Tables \ catalog \subseteq opening[s].created
  /\ opening[s].created \subseteq Tables
  /\ opening[s].created # {} => opening[s].pc \in {"created", "written"}
  /\ opening[s].wrote => version = "none" /\ opening[s].pc = "written"

Steps == InTransaction \union
  {"closed", "begun", "collided", "refused", "installed", "ready"}

OpenState ==
  [pc : Steps, link : {"none", "plain", "tls"},
   missing : SUBSET Tables, created : SUBSET Tables, wrote : BOOLEAN]

OpeningInv ==
  /\ opening \in [Store -> OpenState]
  /\ catalog \subseteq Tables
  /\ \A s \in Store : LockHeld(s) /\ LooksAreFresh(s)
  /\ OpensDoNotCollide
  /\ ReadyMeansInstalled

-----------------------------------------------------------------------------

LEMMA ClosedIsOpenState == Closed \in OpenState /\ Closed.pc = "closed" /\ Closed.created = {} /\ ~Closed.wrote
BY DEF Closed, OpenState, Steps, InTransaction

(* A step that leaves the committed schema and other stores' locks alone.  *)
LEMMA OpeningStep ==
  ASSUME OpeningInv, NEW s \in Store, NEW o \in OpenState,
         opening' = [opening EXCEPT ![s] = o],
         UNCHANGED <<catalog, version>>,
         lock' = lock \/ (lock \in {None, s} /\ lock' \in {None, s}),
         o.pc \in InTransaction => lock' = s,
         o.pc = "looked" => o.missing = Tables \ catalog,
         o.pc \in {"created", "written"} => Tables \ catalog \subseteq o.created,
         o.created # {} => o.pc \in {"created", "written"},
         o.wrote => version = "none" /\ o.pc = "written",
         o.pc # "collided",
         o.pc \in {"installed", "ready"} => catalog = Tables /\ version = Current
  PROVE  OpeningInv'
<1>1. opening' \in [Store -> OpenState]
  BY DEF OpeningInv
<1>2. ASSUME NEW t \in Store PROVE opening'[t] = IF t = s THEN o ELSE opening[t]
  BY DEF OpeningInv
<1>3. ASSUME NEW t \in Store PROVE LockHeld(t)'
  BY <1>2, NobodyAssumption DEF OpeningInv, LockHeld
<1>4. ASSUME NEW t \in Store PROVE LooksAreFresh(t)'
  BY <1>2 DEF OpeningInv, LooksAreFresh, OpenState
<1>5. OpensDoNotCollide'
  BY <1>2 DEF OpeningInv, OpensDoNotCollide
<1>6. ReadyMeansInstalled'
  BY <1>2 DEF OpeningInv, ReadyMeansInstalled
<1> QED
  BY <1>1, <1>3, <1>4, <1>5, <1>6 DEF OpeningInv

LEMMA TransportLinks ==
  ASSUME NEW m, NEW offered \in BOOLEAN, Transport(m, offered) # "refused"
  PROVE  Transport(m, offered) \in {"plain", "tls"}
BY DEF Transport

LEMMA ConnectInv ==
  ASSUME OpeningInv, NEW s \in Store, Connect(s)
  PROVE  OpeningInv'
<1>1. PICK offered \in BOOLEAN :
        /\ Transport(Mode[s], offered) # "refused"
        /\ Advance(s, "closed",
                   [Closed EXCEPT !.pc = "begun", !.link = Transport(Mode[s], offered)])
        /\ UNCHANGED <<catalog, version, lock>>
  BY DEF Connect
<1> DEFINE o == [Closed EXCEPT !.pc = "begun", !.link = Transport(Mode[s], offered)]
<1>2. o \in OpenState /\ o.pc = "begun" /\ o.created = {} /\ ~o.wrote
  BY <1>1, TransportLinks DEF Closed, OpenState, Steps, InTransaction
<1>3. opening' = [opening EXCEPT ![s] = o] /\ UNCHANGED <<catalog, version, lock>>
  BY <1>1 DEF Advance
<1> HIDE DEF o
<1> QED
  BY <1>2, <1>3, OpeningStep DEF InTransaction

LEMMA TakeLockInv ==
  ASSUME OpeningInv, NEW s \in Store, TakeLock(s)
  PROVE  OpeningInv'
<1> DEFINE o == [opening[s] EXCEPT !.pc = "locked"]
<1>1. o \in OpenState /\ o.pc = "locked" /\ o.created = opening[s].created /\ o.wrote = opening[s].wrote
  BY DEF OpeningInv, OpenState, Steps, InTransaction
<1>2. opening[s].pc = "begun" /\ opening' = [opening EXCEPT ![s] = o]
      /\ lock = None /\ lock' = s /\ UNCHANGED <<catalog, version>>
  BY DEF TakeLock, Advance
<1>3. o.created = {} /\ ~o.wrote
  BY <1>1, <1>2 DEF OpeningInv, LooksAreFresh, OpenState
<1> HIDE DEF o
<1> QED
  BY <1>1, <1>2, <1>3, OpeningStep

LEMMA LookForTablesInv ==
  ASSUME OpeningInv, NEW s \in Store, LookForTables(s)
  PROVE  OpeningInv'
<1> DEFINE o == [opening[s] EXCEPT !.pc = "looked", !.missing = Tables \ catalog]
<1>1. o \in OpenState /\ o.pc = "looked" /\ o.missing = Tables \ catalog
      /\ o.created = opening[s].created /\ o.wrote = opening[s].wrote
  BY DEF OpeningInv, OpenState, Steps, InTransaction
<1>2. opening[s].pc = "locked" /\ opening' = [opening EXCEPT ![s] = o]
      /\ UNCHANGED <<catalog, version, lock>>
  BY DEF LookForTables, Advance
<1>3. o.created = {} /\ ~o.wrote /\ lock = s
  BY <1>1, <1>2 DEF OpeningInv, LooksAreFresh, LockHeld, InTransaction, OpenState
<1> HIDE DEF o
<1> QED
  BY <1>1, <1>2, <1>3, OpeningStep

(* The tables it did not find are still missing: it does not collide.      *)
LEMMA CreateTablesInv ==
  ASSUME OpeningInv, NEW s \in Store, CreateTables(s)
  PROVE  OpeningInv'
<1> DEFINE o == [opening[s] EXCEPT !.pc = "created", !.created = opening[s].missing]
<1>1. o \in OpenState /\ o.pc = "created" /\ o.created = opening[s].missing
      /\ o.wrote = opening[s].wrote
  BY DEF OpeningInv, OpenState, Steps, InTransaction
<1>2. opening[s].pc = "looked" /\ UNCHANGED <<catalog, version, lock>>
  BY DEF CreateTables, Advance
<1>3. opening[s].missing = Tables \ catalog /\ lock = s /\ ~opening[s].wrote
  BY <1>2 DEF OpeningInv, LooksAreFresh, LockHeld, InTransaction, OpenState
<1>4. opening' = [opening EXCEPT ![s] = o]
  BY <1>3 DEF CreateTables, Advance
<1> HIDE DEF o
<1> QED
  BY <1>1, <1>2, <1>3, <1>4, OpeningStep

LEMMA WriteVersionInv ==
  ASSUME OpeningInv, NEW s \in Store, WriteVersion(s)
  PROVE  OpeningInv'
<1> DEFINE o == [opening[s] EXCEPT !.pc = "written", !.wrote = version = "none"]
<1>1. o \in OpenState /\ o.pc = "written" /\ o.wrote = (version = "none")
      /\ o.created = opening[s].created
  BY DEF OpeningInv, OpenState, Steps, InTransaction
<1>2. opening[s].pc = "created" /\ opening' = [opening EXCEPT ![s] = o]
      /\ UNCHANGED <<catalog, version, lock>>
  BY DEF WriteVersion, Advance
<1>3. Tables \ catalog \subseteq o.created /\ lock = s
  BY <1>1, <1>2 DEF OpeningInv, LooksAreFresh, LockHeld, InTransaction
<1> HIDE DEF o
<1> QED
  BY <1>1, <1>2, <1>3, OpeningStep

(* What the lock holder commits: all tables, and the version if none was.  *)
LEMMA InstallCommits ==
  ASSUME OpeningInv, NEW s \in Store, Install(s)
  PROVE  /\ lock = s /\ lock' = None
         /\ catalog' = Tables /\ version' = Current
         /\ version \in {"none", Current}
         /\ \A t \in Store : opening[t].pc \in {"installed", "ready"} => catalog = Tables
<1>1. opening[s].pc = "written" /\ VersionSeen(s) = Current
  BY DEF Install, Advance
<1>2. lock = s /\ Tables \ catalog \subseteq opening[s].created
      /\ opening[s].created \subseteq Tables /\ catalog \subseteq Tables
      /\ (opening[s].wrote => version = "none")
  BY <1>1 DEF OpeningInv, LockHeld, LooksAreFresh, InTransaction
<1> QED
  BY <1>1, <1>2 DEF Install, VersionSeen, OpeningInv, ReadyMeansInstalled

LEMMA InstallInv ==
  ASSUME OpeningInv, NEW s \in Store, Install(s)
  PROVE  OpeningInv'
<1> DEFINE o == [Closed EXCEPT !.pc = IF s \in Sync THEN "installed" ELSE "ready",
                               !.link = opening[s].link]
<1>1. o \in OpenState /\ o.pc \in {"installed", "ready"} /\ o.created = {} /\ ~o.wrote
  BY DEF OpeningInv, Closed, OpenState, Steps, InTransaction
<1>2. opening' = [opening EXCEPT ![s] = o]
  BY DEF Install, Advance
<1> HIDE DEF o
<1>3. lock = s /\ lock' = None /\ catalog' = Tables /\ version' = Current
  BY InstallCommits
<1>4. ASSUME NEW t \in Store PROVE opening'[t] = IF t = s THEN o ELSE opening[t]
  BY <1>2 DEF OpeningInv
<1>5. ASSUME NEW t \in Store, t # s PROVE opening[t].pc \notin InTransaction
  BY <1>3, <1>5 DEF OpeningInv, LockHeld
<1>6. opening' \in [Store -> OpenState]
  BY <1>1, <1>2 DEF OpeningInv
<1>7. ASSUME NEW t \in Store PROVE LockHeld(t)' /\ LooksAreFresh(t)'
  BY <1>1, <1>4, <1>5 DEF OpeningInv, LockHeld, LooksAreFresh, InTransaction, OpenState
<1>8. OpensDoNotCollide'
  BY <1>1, <1>4 DEF OpeningInv, OpensDoNotCollide
<1>9. ReadyMeansInstalled'
  BY <1>3 DEF ReadyMeansInstalled
<1> QED
  BY <1>3, <1>6, <1>7, <1>8, <1>9 DEF OpeningInv

LEMMA RefuseInv ==
  ASSUME OpeningInv, NEW s \in Store, Refuse(s)
  PROVE  OpeningInv'
<1> DEFINE o == [Closed EXCEPT !.pc = "refused"]
<1>1. o \in OpenState /\ o.pc = "refused" /\ o.created = {} /\ ~o.wrote
  BY DEF Closed, OpenState, Steps, InTransaction
<1>2. opening' = [opening EXCEPT ![s] = o] /\ UNCHANGED <<catalog, version>>
      /\ lock' = IF lock = s THEN None ELSE lock
  BY DEF Refuse, Advance
<1> HIDE DEF o
<1> QED
  BY <1>1, <1>2, OpeningStep DEF InTransaction

LEMMA BuildPoolInv ==
  ASSUME OpeningInv, NEW s \in Store, BuildPool(s)
  PROVE  OpeningInv'
<1>1. PICK offered \in BOOLEAN :
        /\ Transport(Mode[s], offered) # "refused"
        /\ Advance(s, "installed",
                   [Closed EXCEPT !.pc = "ready", !.link = Transport(Mode[s], offered)])
  BY DEF BuildPool
<1> DEFINE o == [Closed EXCEPT !.pc = "ready", !.link = Transport(Mode[s], offered)]
<1>2. o \in OpenState /\ o.pc = "ready" /\ o.created = {} /\ ~o.wrote
  BY <1>1, TransportLinks DEF Closed, OpenState, Steps, InTransaction
<1>3. opening[s].pc = "installed" /\ opening' = [opening EXCEPT ![s] = o]
      /\ UNCHANGED <<catalog, version, lock>>
  BY <1>1 DEF Advance, BuildPool
<1>4. catalog = Tables /\ version = Current
  BY <1>3 DEF OpeningInv, ReadyMeansInstalled
<1> HIDE DEF o
<1> QED
  BY <1>2, <1>3, <1>4, OpeningStep DEF InTransaction

LEMMA CloseInv ==
  ASSUME OpeningInv, NEW s \in Store, Close(s)
  PROVE  OpeningInv'
<1>1. opening' = [opening EXCEPT ![s] = Closed] /\ UNCHANGED <<catalog, version>>
      /\ lock' = IF lock = s THEN None ELSE lock
  BY DEF Close
<1> QED
  BY <1>1, ClosedIsOpenState, OpeningStep DEF InTransaction

LEMMA OpeningNextInv ==
  ASSUME OpeningInv, [ClientsNext]_allVars
  PROVE  OpeningInv'
<1>1. ASSUME UNCHANGED bootstrap PROVE OpeningInv'
  BY <1>1 DEF bootstrap, OpeningInv, LockHeld, LooksAreFresh, OpensDoNotCollide, ReadyMeansInstalled
<1>2. ASSUME NEW s \in Store,
             Connect(s) \/ TakeLock(s) \/ OpenStep(s) \/ BuildPool(s) \/ Close(s)
      PROVE  OpeningInv'
  BY <1>2, ConnectInv, TakeLockInv, LookForTablesInv, CreateTablesInv, WriteVersionInv,
     InstallInv, RefuseInv, BuildPoolInv, CloseInv DEF OpenStep
<1>3. ASSUME NEW u \in Caller,
             Ask(u) \/ CheckOut(u) \/ CheckOutTimesOut(u) \/ StartCall(u) \/ GiveBack(u)
      PROVE  OpeningInv'
  BY <1>1, <1>3 DEF Ask, CheckOut, CheckOutTimesOut, StartCall, GiveBack
<1>4. ASSUME NEW c \in Conn, Proceed(c) \/ Fail(c) PROVE OpeningInv'
  BY <1>1, <1>4 DEF Proceed, Fail
<1>5. CASE UNCHANGED allVars
  BY <1>1, <1>5 DEF allVars
<1> QED
  BY <1>2, <1>3, <1>4, <1>5 DEF ClientsNext

LEMMA OpeningInitInv == ClientsInit => OpeningInv
<1> SUFFICES ASSUME ClientsInit PROVE OpeningInv
  OBVIOUS
<1>1. PICK f \in Found : version = f.version /\ catalog = f.catalog
  BY DEF ClientsInit
<1>2. opening = [s \in Store |-> Closed]
  BY DEF ClientsInit
<1> QED
  BY <1>1, <1>2, ClosedIsOpenState, FoundAssumption
  DEF OpeningInv, LockHeld, LooksAreFresh, OpensDoNotCollide, ReadyMeansInstalled, InTransaction

(***************************************************************************)
(* However many stores open the database, fail, are lost and open it again,*)
(* their DDL never meets, and a store that serves calls has the schema.    *)
(***************************************************************************)
THEOREM OpeningInvariant == ClientsSpec => []OpeningInv
BY OpeningInitInv, OpeningNextInv, PTL DEF ClientsSpec

(* No open fails on a table another one is creating.                       *)
THEOREM OpensDoNotCollideAlways == ClientsSpec => []OpensDoNotCollide
<1>1. OpeningInv => OpensDoNotCollide
  BY DEF OpeningInv
<1> QED
  BY <1>1, OpeningInvariant, PTL

(* A store serves calls on the whole schema of the expected version only.  *)
THEOREM ReadyMeansInstalledAlways == ClientsSpec => []ReadyMeansInstalled
<1>1. OpeningInv => ReadyMeansInstalled
  BY DEF OpeningInv
<1> QED
  BY <1>1, OpeningInvariant, PTL

LEMMA OnlyInstallWrites ==
  ASSUME OpeningInv, [ClientsNext]_allVars, version \notin {"none", Current}
  PROVE  UNCHANGED <<catalog, version>>
<1>1. ASSUME NEW s \in Store,
             Connect(s) \/ TakeLock(s) \/ OpenStep(s) \/ BuildPool(s) \/ Close(s)
      PROVE  UNCHANGED <<catalog, version>>
  BY <1>1, InstallCommits
  DEF Connect, TakeLock, OpenStep, BuildPool, Close, LookForTables, CreateTables, WriteVersion, Refuse
<1>2. ASSUME NEW u \in Caller,
             Ask(u) \/ CheckOut(u) \/ CheckOutTimesOut(u) \/ StartCall(u) \/ GiveBack(u)
      PROVE  UNCHANGED <<catalog, version>>
  BY <1>2 DEF Ask, CheckOut, CheckOutTimesOut, StartCall, GiveBack, bootstrap
<1>3. ASSUME NEW c \in Conn, Proceed(c) \/ Fail(c) PROVE UNCHANGED <<catalog, version>>
  BY <1>3 DEF Proceed, Fail, bootstrap
<1> QED
  BY <1>1, <1>2, <1>3 DEF ClientsNext, allVars, bootstrap

(* Nothing an open did remains in a database whose version it refuses.     *)
THEOREM RefusedIsUntouchedAlways == ClientsSpec => RefusedIsUntouched
<1>1. OpeningInv /\ [ClientsNext]_allVars
        => [version \notin {"none", Current} => UNCHANGED <<catalog, version>>]_allVars
  BY OnlyInstallWrites
<1> QED
  BY <1>1, OpeningInvariant, PTL DEF ClientsSpec, RefusedIsUntouched

-----------------------------------------------------------------------------
(* Callers and connections.                                                *)

CallerState ==
  [pc : {"idle", "waiting", "holding", "calling"}, conn : Conn \union {None}]

(* A caller has a connection of its store's pool exactly while it holds one*)
(* or is in a call.                                                        *)
HoldsOneOfItsPool(u) ==
  IF caller[u].pc \in {"holding", "calling"}
  THEN caller[u].conn \in PoolOf[StoreOf[u]]
  ELSE caller[u].conn = None

(* No row is left to lock on an idle connection.                           *)
Rests(t) == {"pc", "todo"} \subseteq DOMAIN t /\ (t.pc = "idle" => t.todo = {})

InCall(u, c) == caller[u].pc = "calling" /\ caller[u].conn = c

CallersInv ==
  /\ caller \in [Caller -> CallerState]
  /\ tx = [c \in Conn |-> tx[c]]
  /\ \A c \in Conn : Rests(tx[c])
  /\ \A u \in Caller : HoldsOneOfItsPool(u)
  /\ \A c \in Conn : tx[c].pc # "idle" => \E u \in Caller : InCall(u, c)
  /\ \A u, v \in Caller : u # v /\ caller[u].conn # None => caller[u].conn # caller[v].conn

LEMMA CallersInitInv == ClientsInit => CallersInv
<1> SUFFICES ASSUME ClientsInit PROVE CallersInv
  OBVIOUS
<1>1. tx = [c \in Conn |-> Idle] /\ caller = [u \in Caller |-> Resting]
  BY DEF ClientsInit, Init
<1>2. Idle.pc = "idle" /\ Rests(Idle)
  BY DEF Idle, Rests
<1>3. Resting \in CallerState /\ Resting.pc = "idle" /\ Resting.conn = None
  BY DEF Resting, CallerState
<1> QED
  BY <1>1, <1>2, <1>3 DEF CallersInv, HoldsOneOfItsPool

(* A transaction step leaves the other connections idle that were.         *)
LEMMA TransactionStep ==
  ASSUME CallersInv, NEW c \in Conn, Call(c) \/ Work(c) \/ Abort(c)
  PROVE  /\ tx' = [d \in Conn |-> tx'[d]]
         /\ \A d \in Conn : Rests(tx'[d])
         /\ \A d \in Conn : d # c /\ tx'[d].pc # "idle" => tx[d].pc # "idle"
<1> DEFINE Keeps ==
         /\ tx' = [d \in Conn |-> tx'[d]]
         /\ \A d \in Conn : Rests(tx'[d])
         /\ \A d \in Conn : d # c /\ tx'[d].pc # "idle" => tx[d].pc # "idle"
<1>0. Rests(Idle)
  BY DEF Idle, Rests
<1>1. ASSUME NEW t, tx' = [tx EXCEPT ![c] = t], Rests(t) PROVE Keeps
  BY <1>1 DEF CallersInv
<1>2. CASE Call(c)
  <2>1. PICK call : Begin(c, call) /\ Rests(call)
    <3>1. ASSUME NEW s \in Session, NEW h \in Hash, BeginPut(c, s, h)
          PROVE  \E call : Begin(c, call) /\ Rests(call)
      <4> DEFINE t == [Idle EXCEPT !.op = "put", !.pc = "begun", !.s = s, !.h = h]
      <4>1. Begin(c, t)
        BY <3>1 DEF BeginPut
      <4>2. Rests(t)
        BY DEF Rests, Idle
      <4> QED
        BY <4>1, <4>2
    <3>2. ASSUME NEW b \in BlockId, BeginDelete(c, b)
          PROVE  \E call : Begin(c, call) /\ Rests(call)
      <4> DEFINE t == [Idle EXCEPT !.op = "delete", !.pc = "delete_blocks", !.ids = {b},
                                   !.todo = RowOf({b} \intersect blocks)]
      <4>1. Begin(c, t)
        BY <3>2 DEF BeginDelete
      <4>2. Rests(t)
        BY DEF Rests, Idle
      <4> QED
        BY <4>1, <4>2
    <3>3. ASSUME NEW s \in Session, BeginPurge(c, s)
          PROVE  \E call : Begin(c, call) /\ Rests(call)
      <4> DEFINE t == [Idle EXCEPT !.op = "purge", !.pc = "collect", !.s = s,
                                   !.ids = BlocksOf(s)]
      <4>1. Begin(c, t)
        BY <3>3 DEF BeginPurge
      <4>2. Rests(t)
        BY DEF Rests, Idle
      <4> QED
        BY <4>1, <4>2
    <3> QED
      BY <1>2, <3>1, <3>2, <3>3 DEF Call
  <2> QED
    BY <1>1, <2>1 DEF Begin
<1>3. CASE Abort(c)
  BY <1>0, <1>1, <1>3 DEF Abort
<1>4. ASSUME NEW at, NEW next, NEW rows, next # "idle", Statement(c, at, next, rows) PROVE Keeps
  <2>1. tx' = [tx EXCEPT ![c] = [tx[c] EXCEPT !.pc = next, !.todo = rows]]
    BY <1>4 DEF Statement, CallersInv
  <2>2. next # "idle" \/ rows = {} => Rests([tx[c] EXCEPT !.pc = next, !.todo = rows])
    BY DEF CallersInv, Rests
  <2> QED
    BY <1>1, <1>4, <2>1, <2>2
<1>5. CASE LockRow(c) \/ Upsert(c) \/ InsertRef(c) \/ CollectOrphans(c)
  <2>1. Rests(tx[c])
    BY DEF CallersInv
  <2>2. ASSUME LockRow(c) PROVE Keeps
    <3>1. PICK row \in tx[c].todo :
            tx' = [tx EXCEPT
                     ![c].todo = @ \ {row},
                     ![c].held = @ \union {row},
                     ![c].del = IF tx[c].pc \in Deletes THEN @ \union {row} ELSE @]
      BY <2>2 DEF LockRow
    <3>2. tx[c].pc # "idle"
      BY <2>1 DEF Rests
    <3> DEFINE t == [tx[c] EXCEPT
                       !.todo = @ \ {row},
                       !.held = @ \union {row},
                       !.del = IF tx[c].pc \in Deletes THEN @ \union {row} ELSE @]
    <3>3. tx' = [tx EXCEPT ![c] = t]
      BY <3>1 DEF CallersInv
    <3>4. Rests(t)
      BY <2>1, <3>2 DEF Rests
    <3> HIDE DEF t
    <3> QED
      BY <1>1, <3>3, <3>4
  <2>3. ASSUME Upsert(c) PROVE Keeps
    <3> DEFINE same == {b \in blocks : HashOf[b] = tx[c].h}
    <3>1. PICK id \in BlockId :
            tx' = [tx EXCEPT ![c].pc = "upsert", ![c].ids = {id},
                             ![c].held = {Row(id)},
                             ![c].ins = IF same = {} THEN {Row(id)} ELSE {}]
      BY <2>3 DEF Upsert
    <3> DEFINE t == [tx[c] EXCEPT !.pc = "upsert", !.ids = {id}, !.held = {Row(id)},
                                  !.ins = IF same = {} THEN {Row(id)} ELSE {}]
    <3>2. tx' = [tx EXCEPT ![c] = t]
      BY <3>1 DEF CallersInv
    <3>3. Rests(t)
      BY <2>1 DEF Rests
    <3> HIDE DEF t
    <3> QED
      BY <1>1, <3>2, <3>3
  <2>4. ASSUME InsertRef(c) PROVE Keeps
    BY <2>1, <2>4 DEF InsertRef, CallersInv, Rests
  <2>5. ASSUME CollectOrphans(c) PROVE Keeps
    BY <2>1, <2>5 DEF CollectOrphans, CallersInv, Rests
  <2> QED
    BY <1>5, <2>2, <2>3, <2>4, <2>5
<1>6. CASE Commit(c)
  BY <1>0, <1>6 DEF Commit, CallersInv, Rests
<1> QED
  BY <1>2, <1>3, <1>4, <1>5, <1>6
  DEF Work, DeleteSessionRefs, DeleteEdges, LockBlocks, LockRefs, DropRefs, ScrubEdges, ScrubBlocks

(* One caller goes on, and no transaction but that of its call begins.     *)
LEMMA CallerStep ==
  ASSUME CallersInv, NEW u \in Caller, NEW q \in CallerState,
         caller' = [caller EXCEPT ![u] = q],
         IF q.pc \in {"holding", "calling"}
           THEN /\ q.conn \in PoolOf[StoreOf[u]]
                /\ \A v \in Caller \ {u} : caller[v].conn # q.conn
           ELSE q.conn = None,
         tx' = [d \in Conn |-> tx'[d]],
         \A d \in Conn : Rests(tx'[d]),
         \A d \in Conn : tx'[d].pc # "idle" =>
           (q.pc = "calling" /\ q.conn = d) \/ (tx[d].pc # "idle" /\ ~InCall(u, d))
  PROVE  CallersInv'
<1>1. caller' \in [Caller -> CallerState]
  BY DEF CallersInv
<1>2. \A v \in Caller : caller'[v] = IF v = u THEN q ELSE caller[v]
  BY DEF CallersInv
<1>3. ASSUME NEW v \in Caller PROVE HoldsOneOfItsPool(v)'
  BY <1>2 DEF HoldsOneOfItsPool, CallersInv
<1>4. ASSUME NEW d \in Conn, tx'[d].pc # "idle" PROVE \E v \in Caller : InCall(v, d)'
  BY <1>2, <1>4 DEF InCall, CallersInv
<1>5. ASSUME NEW v \in Caller, NEW w \in Caller, v # w, caller'[v].conn # None
      PROVE  caller'[v].conn # caller'[w].conn
  BY <1>2, <1>5 DEF CallersInv, CallerState
<1> QED
  BY <1>1, <1>3, <1>4, <1>5 DEF CallersInv

(* A store's callers and transactions end together: a connection of its    *)
(* pool is held by its callers only.                                       *)
LEMMA CloseFrees ==
  ASSUME CallersInv, NEW s \in Store, Close(s)
  PROVE  CallersInv'
<1>1. /\ tx' = [c \in Conn |-> IF c \in PoolOf[s] THEN Idle ELSE tx[c]]
      /\ caller' = [u \in Caller |-> IF StoreOf[u] = s THEN Resting ELSE caller[u]]
  BY DEF Close
<1>2. Idle.pc = "idle" /\ Rests(Idle)
  BY DEF Idle, Rests
<1>3. Resting \in CallerState /\ Resting.pc = "idle" /\ Resting.conn = None
  BY DEF Resting, CallerState
<1>4. caller' \in [Caller -> CallerState]
  BY <1>1, <1>3 DEF CallersInv
<1>5. tx' = [c \in Conn |-> tx'[c]] /\ \A c \in Conn : Rests(tx'[c])
  BY <1>1, <1>2 DEF CallersInv
<1>6. ASSUME NEW u \in Caller PROVE HoldsOneOfItsPool(u)'
  BY <1>1, <1>3 DEF HoldsOneOfItsPool, CallersInv
<1>7. ASSUME NEW c \in Conn, tx'[c].pc # "idle" PROVE \E u \in Caller : InCall(u, c)'
  <2>1. c \notin PoolOf[s] /\ tx[c].pc # "idle"
    BY <1>1, <1>2, <1>7
  <2>2. PICK u \in Caller : InCall(u, c)
    BY <2>1 DEF CallersInv
  <2>3. c \in PoolOf[StoreOf[u]]
    BY <2>2 DEF CallersInv, HoldsOneOfItsPool, InCall
  <2>4. caller'[u] = caller[u]
    BY <1>1, <2>1, <2>3
  <2> QED
    BY <2>2, <2>4 DEF InCall
<1>8. ASSUME NEW u \in Caller, NEW v \in Caller, u # v, caller'[u].conn # None
      PROVE  caller'[u].conn # caller'[v].conn
  BY <1>1, <1>3, <1>8 DEF CallersInv
<1> QED
  BY <1>4, <1>5, <1>6, <1>7, <1>8 DEF CallersInv

LEMMA CallersNextInv ==
  ASSUME CallersInv, [ClientsNext]_allVars
  PROVE  CallersInv'
<1>0. ASSUME UNCHANGED <<tx, caller>> PROVE CallersInv'
  BY <1>0 DEF CallersInv, HoldsOneOfItsPool, InCall
<1>1. ASSUME NEW s \in Store, Connect(s) \/ TakeLock(s) \/ OpenStep(s) \/ BuildPool(s)
      PROVE  CallersInv'
  BY <1>0, <1>1
  DEF Connect, TakeLock, OpenStep, BuildPool, LookForTables, CreateTables, WriteVersion,
      Install, Refuse, Advance, vars
<1>2. ASSUME NEW s \in Store, Close(s) PROVE CallersInv'
  BY <1>2, CloseFrees
<1>3. ASSUME NEW u \in Caller, Ask(u) PROVE CallersInv'
  <2> DEFINE q == [caller[u] EXCEPT !.pc = "waiting"]
  <2>1. q \in CallerState /\ q.pc = "waiting" /\ q.conn = None
    BY <1>3 DEF Ask, CallersInv, CallerState, HoldsOneOfItsPool
  <2>2. caller' = [caller EXCEPT ![u] = q] /\ tx' = tx /\ ~(\E d \in Conn : InCall(u, d))
    BY <1>3 DEF Ask, vars, InCall
  <2> HIDE DEF q
  <2> QED
    BY <2>1, <2>2, CallerStep DEF CallersInv
<1>4. ASSUME NEW u \in Caller, CheckOut(u) PROVE CallersInv'
  <2>1. PICK c \in PoolOf[StoreOf[u]] :
          ~Lent(c) /\ caller' = [caller EXCEPT ![u] = [pc |-> "holding", conn |-> c]]
    BY <1>4 DEF CheckOut
  <2> DEFINE q == [pc |-> "holding", conn |-> c]
  <2>2. q \in CallerState /\ q.pc = "holding" /\ q.conn = c
    BY StoreAssumption, PoolAssumption DEF CallerState
  <2>3. \A v \in Caller \ {u} : caller[v].conn # c
    BY <2>1 DEF Lent
  <2>4. tx' = tx /\ ~(\E d \in Conn : InCall(u, d))
    BY <1>4 DEF CheckOut, vars, InCall
  <2>5. caller' = [caller EXCEPT ![u] = q]
    BY <2>1
  <2> HIDE DEF q
  <2> QED
    BY <2>2, <2>3, <2>4, <2>5, CallerStep DEF CallersInv
<1>5. ASSUME NEW u \in Caller, CheckOutTimesOut(u) \/ GiveBack(u) PROVE CallersInv'
  <2>1. Resting \in CallerState /\ Resting.pc = "idle" /\ Resting.conn = None
    BY DEF Resting, CallerState
  <2>2. caller' = [caller EXCEPT ![u] = Resting] /\ tx' = tx
    BY <1>5 DEF CheckOutTimesOut, GiveBack, vars
  <2>3. \A d \in Conn : tx[d].pc # "idle" => ~InCall(u, d)
    BY <1>5 DEF CheckOutTimesOut, GiveBack, InCall
  <2> QED
    BY <2>1, <2>2, <2>3, CallerStep DEF CallersInv
<1>6. ASSUME NEW u \in Caller, StartCall(u) PROVE CallersInv'
  <2> DEFINE q == [caller[u] EXCEPT !.pc = "calling"]
             k == caller[u].conn
  <2>1. q \in CallerState /\ q.pc = "calling" /\ q.conn = k
    BY <1>6 DEF CallersInv, CallerState
  <2>2. k \in PoolOf[StoreOf[u]] /\ caller[u].pc = "holding"
    BY <1>6 DEF StartCall, CallersInv, HoldsOneOfItsPool
  <2>3. k \in Conn /\ k # None
    BY <2>2, StoreAssumption, PoolAssumption, NobodyAssumption
  <2>4. \A v \in Caller \ {u} : caller[v].conn # k
    BY <2>3 DEF CallersInv
  <2>5. caller' = [caller EXCEPT ![u] = q] /\ \A d \in Conn : ~InCall(u, d)
    BY <1>6, <2>2 DEF StartCall, InCall
  <2>6. tx' = tx \/ Call(k)
    BY <1>6 DEF StartCall, vars, PutEdge
  <2>7. /\ tx' = [d \in Conn |-> tx'[d]]
        /\ \A d \in Conn : Rests(tx'[d])
        /\ \A d \in Conn : d # k /\ tx'[d].pc # "idle" => tx[d].pc # "idle"
    <3>1. CASE tx' = tx
      BY <3>1 DEF CallersInv
    <3>2. CASE Call(k)
      BY <2>3, <3>2, TransactionStep
    <3> QED
      BY <2>6, <3>1, <3>2
  <2> HIDE DEF q, k
  <2> QED
    BY <2>1, <2>2, <2>4, <2>5, <2>7, CallerStep
<1>7. ASSUME NEW c \in Conn, Proceed(c) \/ Fail(c) PROVE CallersInv'
  <2>1. (Work(c) \/ Abort(c)) /\ caller' = caller
    BY <1>7 DEF Proceed, Fail, DeadlockVictim
  <2>2. tx[c].pc # "idle"
    BY <2>1 DEF Work, Abort, LockRow, Upsert, InsertRef, DeleteSessionRefs, DeleteEdges,
                LockBlocks, LockRefs, DropRefs, CollectOrphans, ScrubEdges, ScrubBlocks,
                Statement, Commit, Finished, CallersInv, Rests
  <2> QED
    BY <2>1, <2>2, TransactionStep DEF CallersInv, HoldsOneOfItsPool, InCall
<1>8. CASE UNCHANGED allVars
  BY <1>0, <1>8 DEF allVars, vars
<1> QED
  BY <1>1, <1>2, <1>3, <1>4, <1>5, <1>6, <1>7, <1>8 DEF ClientsNext

(***************************************************************************)
(* However callers, timeouts, errors and ends of processes fall together:  *)
(* no connection is lent twice, and none returns with an open transaction. *)
(***************************************************************************)
THEOREM ConnectionsArePrivateAlways == ClientsSpec => []ConnectionsArePrivate
<1>1. CallersInv => ConnectionsArePrivate
  BY DEF CallersInv, ConnectionsArePrivate, InCall, Lent
<1> QED
  BY <1>1, CallersInitInv, CallersNextInv, PTL DEF ClientsSpec

-----------------------------------------------------------------------------
(* The transactions of all stores together.                                *)

LEMMA ClientsInitPgInv ==
  ASSUME Fresh, ClientsInit
  PROVE  PgInv
<1>1. CASE Init
  BY <1>1, PgInitInv
<1>2. CASE ~Init
  <2>1. /\ blocks = {} /\ refs = {} /\ edges = {} /\ used = {} /\ overlapped = {}
        /\ tx = [c \in Conn |-> Idle]
    BY <1>2 DEF ClientsInit
  <2>2. Idle.held = {}
    BY DEF Idle
  <2> QED
    BY <2>1, <2>2, IdleStands
    DEF PgInv, TypeOK, TablesConsistent, NoDanglingRef, OneBlockPerContent, OneHolder
<1> QED
  BY <1>1, <1>2

(* The end of a process rolls several transactions back at once.           *)
LEMMA ClosePgInv ==
  ASSUME PgInv, NEW s \in Store, Close(s)
  PROVE  PgInv'
<1>1. /\ tx' = [c \in Conn |-> IF c \in PoolOf[s] THEN Idle ELSE tx[c]]
      /\ UNCHANGED <<blocks, refs, edges, used, overlapped>>
  BY DEF Close, tables
<1>2. tx' \in [Conn -> CallState]
  BY <1>1, IdleStands DEF PgInv, TypeOK
<1>3. TypeOK'
  BY <1>1, <1>2 DEF PgInv, TypeOK, CallState, Rows
<1>4. TablesConsistent' /\ (blocks \subseteq used)'
  BY <1>1 DEF PgInv, TablesConsistent, NoDanglingRef, OneBlockPerContent
<1>5. ASSUME NEW d \in Conn PROVE Stands(tx[d])'
  <2>1. PICK u \in CallState : u = tx'[d] /\ Stands(u)
    BY <1>1, IdleStands DEF PgInv, TypeOK
  <2> QED
    BY <1>1, <2>1 DEF Stands, InStep, HoldsWhatIsThere, ChangesWhatItHolds,
      AsksForWhatIsThere, InsertsNew, PutStands, DeleteStands, PurgeStands, RefsTo
<1>6. OneHolder'
  <2>1. ASSUME NEW d \in Conn PROVE tx'[d].held \subseteq tx[d].held
    BY <1>1 DEF Idle
  <2> QED
    BY <2>1 DEF PgInv, OneHolder
<1> QED
  BY <1>3, <1>4, <1>5, <1>6 DEF PgInv

(* Every other step is one of PgStore or changes nothing of it.            *)
LEMMA ClientsNextPgInv ==
  ASSUME Fresh, PgInv, CallersInv, [ClientsNext]_allVars
  PROVE  PgInv'
<1>1. ASSUME NEW s \in Store, Close(s) PROVE PgInv'
  BY <1>1, ClosePgInv
<1>2. ASSUME NEW s \in Store, Connect(s) \/ TakeLock(s) \/ OpenStep(s) \/ BuildPool(s)
      PROVE  [Next]_vars
  BY <1>2
  DEF Connect, TakeLock, OpenStep, BuildPool, LookForTables, CreateTables, WriteVersion,
      Install, Refuse, Advance
<1>3. ASSUME NEW u \in Caller,
             Ask(u) \/ CheckOut(u) \/ CheckOutTimesOut(u) \/ GiveBack(u)
      PROVE  [Next]_vars
  BY <1>3 DEF Ask, CheckOut, CheckOutTimesOut, GiveBack
<1>4. ASSUME NEW u \in Caller, StartCall(u) PROVE [Next]_vars
  <2>1. caller[u].conn \in Conn
    BY <1>4, StoreAssumption, PoolAssumption DEF StartCall, CallersInv, HoldsOneOfItsPool
  <2>2. UNCHANGED vars \/ (\E e \in Edge : PutEdge(e)) \/ Call(caller[u].conn)
    BY <1>4 DEF StartCall
  <2>3. CASE UNCHANGED vars
    BY <2>3
  <2>4. CASE \E e \in Edge : PutEdge(e)
    BY <2>4 DEF Next
  <2>5. CASE Call(caller[u].conn)
    BY <2>1, <2>5 DEF Next
  <2> QED
    BY <2>2, <2>3, <2>4, <2>5
<1>5. ASSUME NEW c \in Conn, Proceed(c) \/ Fail(c) PROVE [Next]_vars
  BY <1>5 DEF Proceed, Fail, Next
<1>6. CASE UNCHANGED allVars
  BY <1>6, PgNextInv DEF allVars
<1> QED
  BY <1>1, <1>2, <1>3, <1>4, <1>5, <1>6, PgNextInv DEF ClientsNext

(***************************************************************************)
(* The tables agree at every commit however many processes open, use and   *)
(* leave the database: a process may end anywhere in any transaction.      *)
(***************************************************************************)
THEOREM TablesConsistentForClients ==
  ASSUME Fresh
  PROVE  ClientsSpec => []TablesConsistent
<1>1. ClientsInit => PgInv /\ CallersInv
  BY ClientsInitPgInv, CallersInitInv
<1>2. PgInv /\ CallersInv /\ [ClientsNext]_allVars => (PgInv /\ CallersInv)'
  BY ClientsNextPgInv, CallersNextInv
<1>3. PgInv => TablesConsistent
  BY DEF PgInv
<1> QED
  BY <1>1, <1>2, <1>3, PTL DEF ClientsSpec

=============================================================================
