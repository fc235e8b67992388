---------------------------- MODULE MCPackCommand ----------------------------
(* Instances of PackCommand for TLC. *)
EXTENDS PackCommand

B(section, role, tokens) == [section |-> section, role |-> role, text |-> TRUE, tokens |-> tokens]

(* A system prompt, a question and its answer, a tool result, a fact, a    *)
(* long document, a state whose bytes are no text, and another fact.       *)
MCBlock ==
  <<B("system", "other", 1), B("recent", "user", 2), B("recent", "assistant", 1),
    B("tools", "other", 1), B("retrieved", "other", 1), B("background", "other", 9),
    [B("state", "other", 1) EXCEPT !.text = FALSE], B("retrieved", "other", 1)>>

MCCost == [header |-> 1, note |-> 1, stamp |-> 1]
S(b) == [id |-> b, note |-> None]
N(b) == [id |-> b, note |-> "stale"]

MCPlans ==
  {<<S(1), S(3), S(2)>>, <<S(8), S(2), N(2), S(5)>>, <<N(2), S(2)>>,
   <<N(6), S(5), S(1)>>, <<S(6), S(1), S(4)>>, <<S(1), S(7)>>}
MCRequests ==
  {[task |-> 1, budget |-> 6, system_role |-> TRUE],
   [task |-> 1, budget |-> 22, system_role |-> FALSE],
   [task |-> 0, budget |-> 30, system_role |-> TRUE]}
MCTracedRequests == {r \in MCRequests : r.budget = 22}
MCOptions ==
  {[stamps |-> TRUE, stable |-> {"system", "background"}],
   [stamps |-> FALSE, stable |-> {"retrieved", "recent"}]}
Interchangeable == Permutations(Agents)
MCStores == {BlockId}
MCVolatile == {2}
=============================================================================
