---------------------------- MODULE MCPgClients -----------------------------
(* Instances of PgClients for TLC. *)
EXTENDS PgClients, TLC

CONSTANTS h1, c1, c2, sync, async, u1, u2, u3

MCHashOf == 1 :> h1
(* Two deletes of a block that is gone can meet on its edges and deadlock. *)
Loops == {<<1, "parent", 1>>, <<1, "references", 1>>}
AnyOrder == {}
(* One session with one block. *)
One == {<<1, 1>>}

MCPoolOf == sync :> {c1} @@ async :> {c2}
MCMode == sync :> "disable" @@ async :> "require"
(* Two threads contend for the one connection of the PgStore. *)
MCStoreOf == u1 :> sync @@ u2 :> sync @@ u3 :> async

(* A new database, one in use, one of another version without edges, one  *)
(* whose version row cannot be read.                                       *)
MCFound ==
  {[version |-> "none", catalog |-> {}],
   [version |-> Current, catalog |-> Tables],
   [version |-> "other", catalog |-> Tables \ {"llm386_edges"}],
   [version |-> "corrupt", catalog |-> Tables]}
=============================================================================
