----------------------------- MODULE PgClients ------------------------------
(***************************************************************************)
(* Stores on one database, in processes of their own: how each is opened   *)
(* (open and bootstrap_and_migrate of store.rs, open of async_store.rs) and*)
(* how its callers share the connections of its pool (with_conn, conn) for *)
(* the transactions of PgStore.                                            *)
(*                                                                         *)
(* Opening is one transaction under an advisory lock: create what is       *)
(* missing, write the version if there is none, read it back.  PgStore     *)
(* makes the pool afterwards, AsyncPgStore before.                         *)
(***************************************************************************)
EXTENDS PgStore, FiniteSets

CONSTANTS
  Store,      \* PgStore and AsyncPgStore values
  Sync,       \* those that are PgStore
  PoolOf,     \* their connections: max_pool_size of them
  Mode,       \* config.tls: "disable" or "require"
  Caller,     \* threads and tasks
  StoreOf,    \* the store each one calls
  Current,    \* CURRENT_SCHEMA
  Found       \* what the database holds at first: [version, catalog]

(* MIGRATION_SQL; the schema itself is one more name of the catalog. *)
Tables == {"llm386_blocks", "llm386_session_blocks", "llm386_edges", "llm386_meta"}

ASSUME StoreAssumption == Sync \subseteq Store /\ StoreOf \in [Caller -> Store]
(* A pool of size 0 never lends: r2d2 panics, deadpool waits forever.      *)
ASSUME PoolAssumption ==
  /\ PoolOf \in [Store -> (SUBSET Conn) \ {{}}]
  /\ \A s, t \in Store : s # t => PoolOf[s] \intersect PoolOf[t] = {}
ASSUME ModeAssumption == Mode \in [Store -> {"disable", "require"}]
ASSUME NobodyAssumption == None \notin Store \union Conn
ASSUME FoundAssumption == \A f \in Found : f.catalog \subseteq Tables

VARIABLES
  catalog,    \* committed tables
  version,    \* committed schema_version, or "none"
  lock,       \* the store whose bootstrap has the advisory lock
  opening,    \* how far each store's open is
  caller      \* how far each caller's call is

bootstrap == <<catalog, version, lock, opening>>
allVars == <<vars, bootstrap, caller>>

Closed == [pc |-> "closed", link |-> "none",
           missing |-> {},    \* tables IF NOT EXISTS did not find
           created |-> {},    \* created in the open transaction
           wrote |-> FALSE]   \* the version row inserted in it

Resting == [pc |-> "idle", conn |-> None]

ClientsInit ==
  /\ \E f \in Found :
       /\ version = f.version /\ catalog = f.catalog
       /\ IF f.version = Current
            THEN Init
            ELSE /\ blocks = {} /\ refs = {} /\ edges = {}
                 /\ used = {} /\ overlapped = {}
                 /\ tx = [c \in Conn |-> Idle]
  /\ lock = None
  /\ opening = [s \in Store |-> Closed]
  /\ caller = [u \in Caller |-> Resting]

-----------------------------------------------------------------------------
(* open *)

(* build_backend, then sslmode forced to match it. *)
Transport(mode, offered) ==
  CASE mode = "disable" -> "plain"
    [] mode = "require" /\ offered -> "tls"
    [] OTHER -> "refused"

Advance(s, at, next) ==
  /\ opening[s].pc = at
  /\ opening' = [opening EXCEPT ![s] = next]
  /\ UNCHANGED <<vars, caller>>

(* connect_client, or the first connection of the deadpool. *)
Connect(s) ==
  \E offered \in BOOLEAN :
    /\ Transport(Mode[s], offered) # "refused"
    /\ Advance(s, "closed",
               [Closed EXCEPT !.pc = "begun", !.link = Transport(Mode[s], offered)])
    /\ UNCHANGED <<catalog, version, lock>>

(* OpensDoNotCollide: open goes on without the advisory lock. *)
TakeLock_Skipped(s) ==
  /\ Advance(s, "begun", [opening[s] EXCEPT !.pc = "locked"])
  /\ UNCHANGED <<catalog, version, lock>>

TakeLock(s) ==
  /\ lock = None
  /\ lock' = s
  /\ Advance(s, "begun", [opening[s] EXCEPT !.pc = "locked"])
  /\ UNCHANGED <<catalog, version>>

(***************************************************************************)
(* CREATE ... IF NOT EXISTS looks first and inserts into the system        *)
(* catalog afterwards, where it waits for another transaction's row of the *)
(* same name and fails if that one commits.                                *)
(***************************************************************************)
LookForTables(s) ==
  /\ Advance(s, "locked",
             [opening[s] EXCEPT !.pc = "looked", !.missing = Tables \ catalog])
  /\ UNCHANGED <<catalog, version, lock>>

CreateTables(s) ==
  LET o == opening[s] IN
  /\ \A t \in Store \ {s} : opening[t].created \intersect o.missing = {}
  /\ Advance(s, "looked",
             IF o.missing \intersect catalog = {}
               THEN [o EXCEPT !.pc = "created", !.created = o.missing]
               ELSE [o EXCEPT !.pc = "collided"])
  /\ UNCHANGED <<catalog, version, lock>>

(* INSERT ... ON CONFLICT (key) DO NOTHING *)
WriteVersion(s) ==
  /\ \A t \in Store \ {s} : ~opening[t].wrote
  /\ Advance(s, "created",
             [opening[s] EXCEPT !.pc = "written", !.wrote = version = "none"])
  /\ UNCHANGED <<catalog, version, lock>>

VersionSeen(s) == IF opening[s].wrote THEN Current ELSE version

(* ReadyMeansInstalled: any version row is good enough. *)
Install_AnyVersion(s) ==
  /\ lock' = IF lock = s THEN None ELSE lock
  /\ catalog' = catalog \union opening[s].created
  /\ version' = VersionSeen(s)
  /\ Advance(s, "written",
             [Closed EXCEPT !.pc = IF s \in Sync THEN "installed" ELSE "ready",
                            !.link = opening[s].link])

(* The version is the expected one: commit, which frees the lock. *)
Install(s) ==
  /\ VersionSeen(s) = Current
  /\ lock' = IF lock = s THEN None ELSE lock
  /\ catalog' = catalog \union opening[s].created
  /\ version' = VersionSeen(s)
  /\ Advance(s, "written",
             [Closed EXCEPT !.pc = IF s \in Sync THEN "installed" ELSE "ready",
                            !.link = opening[s].link])

(* RefusedIsUntouched: the migration is committed before the version check. *)
Refuse_Commits(s) ==
  /\ VersionSeen(s) # Current
  /\ lock' = IF lock = s THEN None ELSE lock
  /\ catalog' = catalog \union opening[s].created
  /\ Advance(s, "written", [Closed EXCEPT !.pc = "refused"])
  /\ UNCHANGED version

(* NobodyWaitsForever: a session lock, which no rollback frees. *)
Refuse_KeepsLock(s) ==
  /\ VersionSeen(s) # Current
  /\ Advance(s, "written", [Closed EXCEPT !.pc = "refused"])
  /\ UNCHANGED <<catalog, version, lock>>

(* SchemaMismatch or CorruptMeta: the transaction is dropped. *)
Refuse(s) ==
  /\ VersionSeen(s) # Current
  /\ lock' = IF lock = s THEN None ELSE lock
  /\ Advance(s, "written", [Closed EXCEPT !.pc = "refused"])
  /\ UNCHANGED <<catalog, version>>

(* build_pool of PgStore: its connections are opened like the first one. *)
BuildPool(s) ==
  /\ \E offered \in BOOLEAN :
       /\ Transport(Mode[s], offered) # "refused"
       /\ Advance(s, "installed",
                  [Closed EXCEPT !.pc = "ready", !.link = Transport(Mode[s], offered)])
  /\ UNCHANGED <<catalog, version, lock>>

OpenStep(s) ==
  \/ LookForTables(s) \/ CreateTables(s) \/ WriteVersion(s)
  \/ Install(s) \/ Refuse(s)

(***************************************************************************)
(* The process ends, the connection is lost, or open fails and the store is*)
(* dropped: every transaction of the store is rolled back.  It may be      *)
(* opened again.                                                           *)
(***************************************************************************)
Close(s) ==
  /\ opening[s].pc # "closed"
  /\ opening' = [opening EXCEPT ![s] = Closed]
  /\ lock' = IF lock = s THEN None ELSE lock
  /\ tx' = [c \in Conn |-> IF c \in PoolOf[s] THEN Idle ELSE tx[c]]
  /\ caller' = [u \in Caller |-> IF StoreOf[u] = s THEN Resting ELSE caller[u]]
  /\ UNCHANGED <<tables, used, overlapped, catalog, version>>

-----------------------------------------------------------------------------
(* Calls: with_conn and conn take a connection and give it back.           *)

Lent(c) == \E u \in Caller : caller[u].conn = c

Ask(u) ==
  /\ opening[StoreOf[u]].pc = "ready"
  /\ caller[u].pc = "idle"
  /\ caller' = [caller EXCEPT ![u].pc = "waiting"]
  /\ UNCHANGED <<vars, bootstrap>>

CheckOut(u) ==
  /\ caller[u].pc = "waiting"
  /\ \E c \in PoolOf[StoreOf[u]] :
       /\ ~Lent(c)
       /\ caller' = [caller EXCEPT ![u] = [pc |-> "holding", conn |-> c]]
  /\ UNCHANGED <<vars, bootstrap>>

(* r2d2 gives up after its connection_timeout; deadpool has none. *)
CheckOutTimesOut(u) ==
  /\ StoreOf[u] \in Sync
  /\ caller[u].pc = "waiting"
  /\ caller' = [caller EXCEPT ![u] = Resting]
  /\ UNCHANGED <<vars, bootstrap>>

(* The body of a call starts: a transaction, put_edge, or a read. *)
StartCall(u) ==
  /\ caller[u].pc = "holding"
  /\ caller' = [caller EXCEPT ![u].pc = "calling"]
  /\ \/ UNCHANGED vars
     \/ \E e \in Edge : PutEdge(e)
     \/ Call(caller[u].conn)
  /\ UNCHANGED bootstrap

(* ConnectionsArePrivate: dropping a transaction does not roll it back. *)
GiveBack_Open(u) ==
  /\ caller[u].pc = "calling"
  /\ caller' = [caller EXCEPT ![u] = Resting]
  /\ UNCHANGED <<vars, bootstrap>>

GiveBack(u) ==
  /\ caller[u].pc = "calling"
  /\ tx[caller[u].conn].pc = "idle"
  /\ caller' = [caller EXCEPT ![u] = Resting]
  /\ UNCHANGED <<vars, bootstrap>>

(* A transaction gets on, or out of a deadlock. *)
Proceed(c) ==
  (Work(c) \/ DeadlockVictim(c)) /\ UNCHANGED <<bootstrap, caller>>

Fail(c) == Abort(c) /\ UNCHANGED <<bootstrap, caller>>

ClientsNext ==
  \/ \E s \in Store :
       Connect(s) \/ TakeLock(s) \/ OpenStep(s) \/ BuildPool(s) \/ Close(s)
  \/ \E u \in Caller :
       Ask(u) \/ CheckOut(u) \/ CheckOutTimesOut(u) \/ StartCall(u) \/ GiveBack(u)
  \/ \E c \in Conn : Proceed(c) \/ Fail(c)

(***************************************************************************)
(* Statements that can run do.  Postgres queues the waiters of a lock and  *)
(* deadpool those of a connection, so each gets its turn; r2d2 wakes any   *)
(* waiter, but its timer fires.  Nothing has to be opened, called, closed  *)
(* or lost.                                                                *)
(***************************************************************************)
ClientsFairness ==
  /\ \A s \in Store :
       SF_allVars(TakeLock(s)) /\ WF_allVars(OpenStep(s) \/ BuildPool(s))
  /\ \A u \in Caller :
       /\ IF StoreOf[u] \in Sync THEN WF_allVars(CheckOutTimesOut(u))
                                 ELSE SF_allVars(CheckOut(u))
       /\ WF_allVars(StartCall(u) \/ GiveBack(u))
  /\ \A c \in Conn : SF_allVars(Proceed(c))

ClientsSpec == ClientsInit /\ [][ClientsNext]_allVars
FairClientsSpec == ClientsSpec /\ ClientsFairness

-----------------------------------------------------------------------------
(* Properties *)

(***************************************************************************)
(* The comments in both opens: openers of any process that run the DDL at  *)
(* the same time do not fail on the catalog's unique indexes.              *)
(***************************************************************************)
OpensDoNotCollide == \A s \in Store : opening[s].pc # "collided"

(***************************************************************************)
(* "Older stores will refuse to open with the new code": a store that      *)
(* serves calls has every table and the expected version, whatever other   *)
(* openers committed, rolled back or lost in between.                      *)
(***************************************************************************)
ReadyMeansInstalled ==
  \A s \in Store : opening[s].pc \in {"installed", "ready"} =>
    catalog = Tables /\ version = Current

(***************************************************************************)
(* The migration runs before the version is looked at; a database of       *)
(* another version is nevertheless left exactly as it was.                 *)
(***************************************************************************)
RefusedIsUntouched ==
  [][version \notin {"none", Current} => UNCHANGED <<catalog, version>>]_allVars

(***************************************************************************)
(* A transaction belongs to the one caller that holds its connection: no   *)
(* connection is lent twice, and one in the pool has no transaction that   *)
(* the next caller's statements would join.                                *)
(***************************************************************************)
ConnectionsArePrivate ==
  /\ \A c \in Conn : tx[c].pc # "idle" => Lent(c)
  /\ \A u, v \in Caller : u # v /\ caller[u].conn # None => caller[u].conn # caller[v].conn

(* No open waits forever for the lock, however other openers fail.         *)
EveryOpenReturns ==
  \A s \in Store :
    opening[s].pc = "begun" ~> opening[s].pc \in {"closed", "refused", "installed", "ready"}

(***************************************************************************)
(* Nobody waits forever for a connection or a row: neither for callers of  *)
(* the own pool, nor for the other store's transactions.                   *)
(***************************************************************************)
EveryCallerReturns == \A u \in Caller : caller[u].pc # "idle" ~> caller[u].pc = "idle"

(* Whoever opens a store or calls one gets an answer, be it an error.      *)
NobodyWaitsForever == EveryOpenReturns /\ EveryCallerReturns

=============================================================================
