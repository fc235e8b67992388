---------------------------- MODULE MCGreedyPager ---------------------------
(* Instances of GreedyPager for TLC. *)
EXTENDS GreedyPager, TLC

B(section, tokens, rank) ==
  [section |-> section, tokens |-> tokens, rank |-> rank, parents |-> <<>>, summary |-> FALSE]

(***************************************************************************)
(* Messages 1 and 2, a tool result 3, a summary 4 of both messages, a      *)
(* system prompt 5.                                                        *)
(***************************************************************************)
MCBlock ==
  1 :> B("recent", 2, 3) @@ 2 :> B("recent", 2, 2) @@ 3 :> B("tools", 1, 4)
    @@ 4 :> [B("retrieved", 1, 1) EXCEPT !.summary = TRUE, !.parents = <<1, 2>>]
    @@ 5 :> B("system", 1, 5)

MCFraction == "recent" :> 40 @@ "retrieved" :> 40 @@ "tools" :> 20
(* More than the whole: scaled down. *)
MCFractionOver == "recent" :> 80 @@ "retrieved" :> 80 @@ "tools" :> 0

LmdbOrder == <<"parent", "derived_from", "supports", "contradicts", "tool_invocation">>

(* EdgePolicy::default and ScoringPolicy::default *)
DefaultPolicy ==
  [enabled |-> TRUE, max_depth |-> 1, max_fanout |-> 8,
   follow_provenance_parents |-> FALSE,
   parent |-> "container_only", derived_from |-> "co_retrieve_source",
   supports |-> "co_retrieve", contradicts |-> "flag", tool_invocation |-> "co_retrieve",
   summary_fallback |-> FALSE, redundancy |-> FALSE, fraction |-> MCFraction]
DeepPolicy ==
  [DefaultPolicy EXCEPT !.max_depth = 2, !.max_fanout = 1, !.parent = "bidirectional",
                        !.follow_provenance_parents = TRUE]
DropPolicy ==
  [DefaultPolicy EXCEPT !.derived_from = "suppress_source", !.contradicts = "prefer_newer"]
FillPolicy ==
  [DefaultPolicy EXCEPT !.enabled = FALSE, !.redundancy = TRUE,
                        !.fraction = MCFractionOver]
FallbackPolicy == [FillPolicy EXCEPT !.summary_fallback = TRUE]

Ask(required, retrieved, budget, p) ==
  [required |-> required, task |-> 1, budget |-> budget, retrieved |-> retrieved,
   policy |-> p, volatile |-> {}, late |-> {}]

Scenes(edgeSets, requests) ==
  {[stored |-> BlockId, edges |-> E, request |-> r] : E \in edgeSets, r \in requests}

All == BlockId \ {5}
EdgePool == {<<2, "contradicts", 1>>, <<1, "contradicts", 3>>, <<4, "contradicts", 2>>,
             <<4, "derived_from", 1>>, <<2, "derived_from", 4>>,
             <<1, "tool_invocation", 3>>, <<3, "parent", 2>>, <<1, "supports", 4>>}
MCEdges == SUBSET EdgePool
MCSimilar == {{1, 2}}

(* Expansion and reconciliation: everything, or the message alone. *)
EdgeRequests ==
  {Ask(req, ret, n, p) : req \in {<<>>, <<1>>}, ret \in {{1}, {2, 3}, {1, 2, 4}},
                         n \in {5, 20}, p \in {DefaultPolicy, DeepPolicy, DropPolicy}}

(* The fill: budgets from nothing to everything. *)
FillRequests ==
  {Ask(req, BlockId, n, p) : req \in {<<>>, <<2>>, <<2, 2>>}, n \in {0, 2, 4, 6, 8, 12},
                             p \in {FillPolicy, FallbackPolicy}}

(* A call while others put and delete blocks and link two of them. *)
Busy(r) == [r EXCEPT !.volatile = {1, 4, 5}, !.late = {<<4, "derived_from", 1>>}]
BusyRequests ==
  {Busy(Ask(req, {1, 2, 4, 5}, n, p)) :
     req \in {<<>>, <<1>>}, n \in {3, 8},
     p \in {[DefaultPolicy EXCEPT !.summary_fallback = TRUE], DropPolicy}}
BusyEdges == {<<2, "contradicts", 1>>, <<1, "supports", 3>>}

(* A second supports edge beyond the fan-out leads to a block reached later. *)
CutEdges == {<<1, "supports", 2>>, <<1, "supports", 3>>, <<3, "supports", 2>>, <<2, "supports", 4>>}
CutPolicy == [DeepPolicy EXCEPT !.parent = "container_only", !.follow_provenance_parents = FALSE]

MCScenarios ==
  Scenes(MCEdges, EdgeRequests)
    \union Scenes({CutEdges}, {Ask(<<1>>, {}, 20, CutPolicy)})
    \union Scenes({BusyEdges}, {Busy(r) : r \in FillRequests} \union BusyRequests)

DropScenarios == Scenes(MCEdges, {Ask(<<>>, All, 20, DropPolicy)})

(* Blocks 2 and 4, of two sections, each with a dependency, and room for one. *)
CompetingScenarios ==
  Scenes({{<<2, "parent", 1>>, <<4, "supports", 3>>}}, {Ask(<<>>, {2, 4}, 6, DefaultPolicy)})
=============================================================================
