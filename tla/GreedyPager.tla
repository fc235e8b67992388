----------------------------- MODULE GreedyPager ----------------------------
(***************************************************************************)
(* GreedyPager::page (llm386-pager/src/greedy.rs, edges.rs, budget.rs):    *)
(* which blocks of a session go into the next prompt.  One call, step by   *)
(* step, against a store that other callers of BlockStore change meanwhile:*)
(* the pager holds no lock and reads a block again whenever it needs it.   *)
(*                                                                         *)
(* Blocks are immutable, so a step reads only whether a block is there and *)
(* which edges touch it.  The reads made for one block of the expansion,   *)
(* and the scan that indexes the summaries, count as one step each.  Where *)
(* the code iterates over a HashMap any order is possible: by_section      *)
(* decides in which order the sections are filled.                         *)
(***************************************************************************)
EXTENDS Integers, FiniteSets, SequencesExt

CONSTANTS
  BlockId,     \* larger ids are newer (ids.rs: the high bits are the time)
  Block,       \* what a block is: [section, tokens, rank, parents, summary]
  Similar,     \* pairs whose word sets reach redundancy_threshold
  KindOrder,   \* the order in which the store lists the edges of a block
  Scenarios,   \* where a call may start: [stored, edges, request]
  None         \* no section, no note

Kinds == {"parent", "derived_from", "supports", "contradicts", "tool_invocation"}
PullModes == {"container_only", "bidirectional", "co_retrieve_source", "co_retrieve"}
MAX_DEPTH_CEILING == 5
VariableSections == {"state", "plan", "recent", "retrieved", "tools", "background", "slack"}

(* default_section has no kind of block in Task or Slack.                   *)
ASSUME BlockAssumption ==
  /\ BlockId \subseteq Nat /\ IsFiniteSet(BlockId) /\ None \notin BlockId
  /\ \A b \in BlockId :
       /\ Block[b].tokens \in Nat /\ Block[b].rank \in Nat
       /\ Block[b].parents \in Seq(BlockId)
       /\ Block[b].section \in (VariableSections \ {"slack"}) \union {"system"}
ASSUME RankAssumption ==   \* sort_candidates breaks every tie by id
  \A a, b \in BlockId : Block[a].rank = Block[b].rank => a = b
ASSUME KindAssumption ==
  KindOrder \in Seq(Kinds) /\ \A k \in Kinds : \E i \in DOMAIN KindOrder : KindOrder[i] = k
ASSUME StoreAssumption ==
  \A c \in Scenarios : c.stored \subseteq BlockId /\ c.edges \subseteq BlockId \X Kinds \X BlockId
ASSUME RequestAssumption ==
  \A r \in {c.request : c \in Scenarios} :
    /\ r.budget \in Nat /\ r.task \in Nat
    /\ r.required \in Seq(BlockId) /\ r.retrieved \subseteq BlockId
    /\ r.volatile \subseteq BlockId /\ r.late \subseteq BlockId \X Kinds \X BlockId
    /\ r.policy.max_depth \in Nat /\ r.policy.max_fanout \in Nat
    /\ r.policy.summary_fallback \in BOOLEAN
    /\ \A s \in DOMAIN r.policy.fraction : r.policy.fraction[s] \in Nat

VARIABLES
  stored,    \* blocks in the store
  edges,     \* edges in the store: <<from, kind, to>>
  request,   \* the PageRequest with the pager's ScoringPolicy, and the blocks
             \* (volatile) and edges (late) other callers touch during the call
  page       \* the call: its phase (pc), its locals, the plan so far

world == <<stored, edges>>
vars == <<world, request, page>>

policy == request.policy
Tokens(b) == Block[b].tokens
SetOf(seq) == {seq[i] : i \in DOMAIN seq}

(* Operators with a _ in their name are mistakes: no action uses them, and *)
(* each is one the named property must notice in place of the real one.    *)

Monus(a, b) == IF a > b THEN a - b ELSE 0
Incident(b) == {e \in edges : b \in {e[1], e[3]}}

Included == {sel.id : sel \in SetOf(page.selected)}
Pinned == {sel.id : sel \in {x \in SetOf(page.selected) : x.reason = "Pinned"}}

(* The call goes on with locals p. *)
Step(p) == page' = p /\ UNCHANGED <<world, request>>

(* A selection raises prompt_total and block_tokens alike. *)
Include(p, b, why) ==
  [p EXCEPT !.selected = Append(@, [id |-> b, reason |-> why, note |-> None]),
            !.total = @ + Tokens(b), !.estimated = @ + Tokens(b)]
Omit(p, b, why) == [p EXCEPT !.omitted = @ \union {[id |-> b, reason |-> why]}]

Fits(b) == page.total + Tokens(b) <= request.budget

Start ==
  [pc |-> "required",
   selected |-> <<>>, omitted |-> {}, total |-> 0, estimated |-> 0,
   todo |-> request.required,           \* required blocks to resolve
   listed |-> {},                       \* ids retrieved, not loaded yet
   loaded |-> {}, cands |-> {},         \* candidates: all, and the undecided
   variable |-> 0, section |-> None, used |-> 0, words |-> {},
   summary_for |-> {}, compressed |-> {},
   frontier |-> <<>>, deps |-> <<>>, depth |-> 0, visited |-> {},
   adjacent |-> <<>>, drops |-> {}, notes |-> {},
   pos |-> 0, rebuilt |-> <<>>]

(* An error returns no plan. *)
Failed == [Start EXCEPT !.pc = "failed"]

Init ==
  /\ \E c \in Scenarios :
       stored = c.stored /\ edges = c.edges /\ request = c.request
  /\ page = Start

-----------------------------------------------------------------------------
(* Steps 1 to 3: required blocks, the task, candidates.                    *)

ResolveRequired ==
  LET b == Head(page.todo) IN
  /\ page.pc = "required" /\ page.todo # <<>>
  /\ Step(IF b \in stored /\ Fits(b)
            THEN [Include(page, b, "Pinned") EXCEPT !.todo = Tail(@)]
            ELSE Failed)

(* The task is charged unconditionally.  What the retrievers return need   *)
(* not be stored (an index may be behind).                                 *)
Retrieve ==
  /\ page.pc = "required" /\ page.todo = <<>>
  /\ Step([page EXCEPT !.pc = "load", !.total = @ + request.task,
                       !.listed = request.retrieved \ SetOf(request.required)])

(* Terminates: wait for a missing block instead of ignoring it. *)
LoadCandidate_Wait ==
  \E b \in page.listed \intersect stored :
    /\ page.pc = "load"
    /\ Step([page EXCEPT !.listed = @ \ {b}, !.loaded = @ \union {b},
                         !.cands = @ \union {b}])

LoadCandidate ==
  \E b \in page.listed :
    /\ page.pc = "load"
    /\ Step([page EXCEPT !.listed = @ \ {b},
                         !.loaded = @ \union ({b} \intersect stored),
                         !.cands = @ \union ({b} \intersect stored)])

StartSystem ==
  /\ page.pc = "load" /\ page.listed = {}
  /\ Step([page EXCEPT !.pc = "system"])

-----------------------------------------------------------------------------
(* Steps 4 and 5: System, then each section within its allocation.         *)

CandidatesOf(s) == {b \in page.cands : Block[b].section = s}

IsBest(b, S) == b \in S /\ \A x \in S : Block[x].rank <= Block[b].rank
Decided(b) == [page EXCEPT !.cands = @ \ {b}]

FillSystem ==
  \E b \in CandidatesOf("system") :
    /\ page.pc = "system" /\ IsBest(b, CandidatesOf("system"))
    /\ Step(IF Fits(b) THEN Include(Decided(b), b, "HighRelevance")
                         ELSE Omit(Decided(b), b, "Budget"))

(* build_summary_index: the oldest summary that names a parent wins.       *)
Summarizes(s, b) == Block[s].summary /\ b \in SetOf(Block[s].parents)
SummaryIndex ==
  {e \in BlockId \X stored :
     /\ Summarizes(e[2], e[1])
     /\ \A x \in stored : Summarizes(x, e[1]) => e[2] <= x}

(* allocate_variable: fractions above one in sum are scaled down.          *)
Fraction(s) == IF s \in DOMAIN policy.fraction THEN policy.fraction[s] ELSE 0
FractionSum ==
  Fraction("state") + Fraction("plan") + Fraction("recent") + Fraction("retrieved")
    + Fraction("tools") + Fraction("background") + Fraction("slack")
Allocation(s) ==
  (page.variable * Fraction(s)) \div (IF FractionSum > 100 THEN FractionSum ELSE 100)

Allocate ==
  /\ page.pc = "system" /\ CandidatesOf("system") = {}
  /\ Step([page EXCEPT
             !.pc = "fill", !.variable = Monus(request.budget, page.total),
             !.summary_for = IF policy.summary_fallback THEN SummaryIndex ELSE {}])

NextSection ==
  \E s \in {Block[b].section : b \in page.cands} :
    /\ page.pc = "fill" /\ CandidatesOf(page.section) = {}
    /\ Step([page EXCEPT !.section = s, !.used = 0, !.words = {}])

Redundant(b) == policy.redundancy /\ \E w \in page.words : {b, w} \in Similar
FitsSection(b) == Fits(b) /\ page.used + Tokens(b) <= Allocation(page.section)

(* The candidate sort_candidates puts first among those still to decide.   *)
Considered(b) ==
  /\ page.pc = "fill"
  /\ IsBest(b, CandidatesOf(page.section))

SkipRedundant(b) ==
  /\ Considered(b) /\ Redundant(b)
  /\ Step(Omit(Decided(b), b, "Redundant"))

TakeCandidate(b) ==
  /\ Considered(b) /\ ~Redundant(b) /\ FitsSection(b)
  /\ Step([Include(Decided(b), b, "HighRelevance")
             EXCEPT !.used = @ + Tokens(b), !.words = @ \union {b}])

NoSummary(b) == \A s \in BlockId : <<b, s>> \notin page.summary_for

OmitCandidate(b) ==
  /\ Considered(b) /\ ~Redundant(b) /\ ~FitsSection(b) /\ NoSummary(b)
  /\ Step(Omit(Decided(b), b, "Budget"))

(* CandidatesOnce: a block whose summary is in already is forgotten. *)
Substitute_Silent(b, s) ==
  /\ Considered(b) /\ ~Redundant(b) /\ ~FitsSection(b) /\ <<b, s>> \in page.summary_for
  /\ Step(IF s \in page.compressed THEN Decided(b)
          ELSE IF s \in stored /\ FitsSection(s)
            THEN [Omit(Include(Decided(b), s, "HighRelevance"), b, "Compressed")
                    EXCEPT !.used = @ + Tokens(s), !.compressed = @ \union {s}]
            ELSE Omit(Decided(b), b, "Budget"))

(* CompressedIsCovered: the summary is not tried for size before it counts. *)
Substitute_Unchecked(b, s) ==
  /\ Considered(b) /\ ~Redundant(b) /\ ~FitsSection(b) /\ <<b, s>> \in page.summary_for
  /\ Step(IF s \in page.compressed THEN Omit(Decided(b), b, "Compressed")
          ELSE IF s \in stored /\ FitsSection(s)
            THEN [Omit(Include(Decided(b), s, "HighRelevance"), b, "Compressed")
                    EXCEPT !.used = @ + Tokens(s), !.compressed = @ \union {s}]
            ELSE Omit([Decided(b) EXCEPT !.compressed = @ \union {s}], b, "Budget"))

(* One summary stands in for every parent that does not fit; it is charged *)
(* once, to the section of the first.                                      *)
Substitute(b, s) ==
  /\ Considered(b) /\ ~Redundant(b) /\ ~FitsSection(b) /\ <<b, s>> \in page.summary_for
  /\ Step(IF s \in page.compressed THEN Omit(Decided(b), b, "Compressed")
          ELSE IF s \in stored /\ FitsSection(s)
            THEN [Omit(Include(Decided(b), s, "HighRelevance"), b, "Compressed")
                    EXCEPT !.used = @ + Tokens(s), !.compressed = @ \union {s}]
            ELSE Omit(Decided(b), b, "Budget"))

(* LeftOutOnlyForRoom: omitted candidates count as visited. *)
FinishFill_OmittedVisited ==
  /\ page.pc = "fill" /\ page.cands = {}
  /\ Step(IF policy.enabled
            THEN [page EXCEPT !.pc = "expand", !.visited = Included \union page.loaded,
                    !.frontier = [i \in DOMAIN page.selected |-> <<page.selected[i].id, 0>>]]
            ELSE [page EXCEPT !.pc = "done"])

FinishFill ==
  /\ page.pc = "fill" /\ page.cands = {}
  /\ Step(IF policy.enabled
            THEN [page EXCEPT !.pc = "expand", !.visited = Included,
                    !.frontier = [i \in DOMAIN page.selected |-> <<page.selected[i].id, 0>>]]
            ELSE [page EXCEPT !.pc = "done"])

-----------------------------------------------------------------------------
(* Step 6, expansion: breadth first from everything selected.              *)

EffectiveDepth ==
  IF policy.max_depth < MAX_DEPTH_CEILING THEN policy.max_depth ELSE MAX_DEPTH_CEILING
Pulls(k) == policy[k] \in PullModes

(* Newest first, cut to max_fanout. *)
Newest(S) ==
  [i \in {j \in 1..Cardinality(S) : j <= policy.max_fanout} |->
     CHOOSE b \in S : Cardinality({x \in S : x > b}) = i - 1]

Outgoing(b, k) == Newest({t \in BlockId : Pulls(k) /\ <<b, k, t>> \in edges})
Children(b) ==
  Newest({f \in BlockId : policy.parent = "bidirectional" /\ <<f, "parent", b>> \in edges})
Lineage(b) == IF policy.follow_provenance_parents THEN Block[b].parents ELSE <<>>

(* collect_outgoing groups by kind in a HashMap; no policy pulls contradicts. *)
PulledKinds == Kinds \ {"contradicts"}
KindSequences == SetToSeqs(PulledKinds)

PopFrontier ==
  LET b == Head(page.frontier)[1]
      depth == Head(page.frontier)[2]
      popped == [page EXCEPT !.frontier = Tail(@)]
  IN
  /\ page.pc = "expand" /\ page.deps = <<>> /\ page.frontier # <<>>
  /\ IF depth >= EffectiveDepth \/ b \notin stored THEN Step(popped)
     ELSE \E k \in KindSequences :
            Step([popped EXCEPT
                    !.depth = depth,
                    !.deps = Lineage(b) \o Outgoing(b, k[1]) \o Outgoing(b, k[2])
                               \o Outgoing(b, k[3]) \o Outgoing(b, k[4]) \o Children(b)])

(* BudgetsKept: what a selected block needs is pulled in whatever it costs. *)
PullDependency_OverBudget ==
  LET b == Head(page.deps)
      tried == [page EXCEPT !.deps = Tail(@), !.visited = @ \union {b}]
  IN
  /\ page.pc = "expand" /\ page.deps # <<>>
  /\ Step(IF b \notin page.visited /\ b \in stored
            THEN [Include(tried, b, "Dependency")
                    EXCEPT !.frontier = Append(@, <<b, page.depth + 1>>)]
            ELSE tried)

(* DependenciesInReach: a dependency is as deep as what pulled it. *)
PullDependency_SameDepth ==
  LET b == Head(page.deps)
      tried == [page EXCEPT !.deps = Tail(@), !.visited = @ \union {b}]
  IN
  /\ page.pc = "expand" /\ page.deps # <<>>
  /\ Step(IF b \notin page.visited /\ b \in stored /\ Fits(b)
            THEN [Include(tried, b, "Dependency")
                    EXCEPT !.frontier = Append(@, <<b, page.depth>>)]
            ELSE tried)

(* A dependency that does not fit is not tried again and not reported.     *)
PullDependency ==
  LET b == Head(page.deps)
      tried == [page EXCEPT !.deps = Tail(@), !.visited = @ \union {b}]
  IN
  /\ page.pc = "expand" /\ page.deps # <<>>
  /\ Step(IF b \notin page.visited /\ b \in stored /\ Fits(b)
            THEN [Include(tried, b, "Dependency")
                    EXCEPT !.frontier = Append(@, <<b, page.depth + 1>>)]
            ELSE tried)

Reconciles == policy.derived_from = "suppress_source" \/ policy.contradicts # "off"

FinishExpand ==
  /\ page.pc = "expand" /\ page.deps = <<>> /\ page.frontier = <<>>
  /\ Step([page EXCEPT !.pc = IF Reconciles THEN "reconcile" ELSE "done"])

-----------------------------------------------------------------------------
(* Step 6, reconciliation: selected blocks that should not stand together. *)

Before(e, f) ==
  LET rank(k) == CHOOSE i \in DOMAIN KindOrder : KindOrder[i] = k IN
  \/ rank(e[2]) < rank(f[2])
  \/ e[2] = f[2] /\ e[3] < f[3]
EdgesFrom(b) ==
  LET out == {e \in edges : e[1] = b} IN
  [i \in 1..Cardinality(out) |->
     CHOOSE e \in out : Cardinality({f \in out : Before(f, e)}) = i - 1]

ReadEdges ==
  /\ page.pc = "reconcile" /\ page.adjacent = <<>> /\ page.pos < Len(page.selected)
  /\ Step([page EXCEPT !.pos = @ + 1,
                       !.adjacent = EdgesFrom(page.selected[page.pos + 1].id)])

(* The first reason and the first note given to a block stay. *)
Keep(S, r) == IF \E x \in S : x.id = r.id THEN S ELSE S \union {r}

(* EdgesReconciled: the block that contradicts wins. *)
Resolved_ByDirection(a, b) == <<b, a>>

(* The newer of the two wins, a block that is gone loses, and <<loser, winner>>. *)
Resolved(a, b) ==
  IF b \notin stored \/ (a \in stored /\ a >= b) THEN <<b, a>> ELSE <<a, b>>

SuppressSource(e) ==
  /\ policy.derived_from = "suppress_source" /\ e[2] = "derived_from"
  /\ e[1] # e[3] /\ e[3] \in Included \ Pinned

Contradiction(e) ==
  /\ policy.contradicts # "off" /\ e[2] = "contradicts"
  /\ e[1] # e[3] /\ e[3] \in Included

ResolveEdge ==
  LET e == Head(page.adjacent)
      loser == Resolved(e[1], e[3])[1]
      winner == Resolved(e[1], e[3])[2]
      read == [page EXCEPT !.adjacent = Tail(@)]
      prefer == policy.contradicts = "prefer_newer" /\ loser \notin Pinned
  IN
  /\ page.pc = "reconcile" /\ page.adjacent # <<>>
  /\ \/ /\ SuppressSource(e)
        /\ Step([read EXCEPT !.drops =
                   Keep(@, [id |-> e[3], reason |-> "SupersededByDerived"])])
     \/ /\ Contradiction(e) /\ prefer
        /\ Step([read EXCEPT !.drops = Keep(@, [id |-> loser, reason |-> "Contradicted"])])
     \/ /\ Contradiction(e) /\ ~prefer
        /\ Step([read EXCEPT !.notes = Keep(@, [id |-> loser, winner |-> winner])])
     \/ /\ ~SuppressSource(e) /\ ~Contradiction(e)
        /\ Step(read)

FinishReconcile ==
  /\ page.pc = "reconcile" /\ page.adjacent = <<>> /\ page.pos = Len(page.selected)
  /\ Step(IF page.drops = {} /\ page.notes = {}
            THEN [page EXCEPT !.pc = "done"]
            ELSE [page EXCEPT !.pc = "rebuild", !.pos = 0])

(* EstimateKept: the tokens of a dropped block stay in the estimate. *)
Rebuild_KeepEstimate ==
  LET sel == page.selected[page.pos + 1]
      reasons == {d \in page.drops : d.id = sel.id}
      noted == {n.winner : n \in {m \in page.notes : m.id = sel.id}}
      on == [page EXCEPT !.pos = @ + 1]
  IN
  /\ page.pc = "rebuild" /\ page.pos < Len(page.selected)
  /\ \/ \E d \in reasons : Step(Omit(on, d.id, d.reason))
     \/ \E w \in IF noted = {} THEN {None} ELSE noted :
          reasons = {} /\ Step([on EXCEPT !.rebuilt = Append(@, [sel EXCEPT !.note = w])])

(* A dropped block is looked up once more to take its tokens off.          *)
Rebuild ==
  LET sel == page.selected[page.pos + 1]
      reasons == {d \in page.drops : d.id = sel.id}
      noted == {n.winner : n \in {m \in page.notes : m.id = sel.id}}
      on == [page EXCEPT !.pos = @ + 1]
  IN
  /\ page.pc = "rebuild" /\ page.pos < Len(page.selected)
  /\ \/ \E d \in reasons :
          Step([Omit(on, d.id, d.reason) EXCEPT
                  !.estimated = IF d.id \in stored THEN Monus(@, Tokens(d.id)) ELSE @])
     \/ /\ reasons = {} /\ noted = {}
        /\ Step([on EXCEPT !.rebuilt = Append(@, sel)])
     \/ \E w \in noted :
          /\ reasons = {}
          /\ Step([on EXCEPT !.rebuilt = Append(@, [sel EXCEPT !.note = w])])

FinishRebuild ==
  /\ page.pc = "rebuild" /\ page.pos = Len(page.selected)
  /\ Step([page EXCEPT !.pc = "done", !.selected = page.rebuilt])

-----------------------------------------------------------------------------

Running == page.pc \notin {"done", "failed"}

(* put, delete and put_edge of other callers, as BlockStore promises them. *)
OtherPut == \E b \in request.volatile \ stored :
  Running /\ stored' = stored \union {b} /\ UNCHANGED <<edges, request, page>>
OtherDelete == \E b \in request.volatile \intersect stored :
  /\ Running
  /\ stored' = stored \ {b} /\ edges' = edges \ Incident(b)
  /\ UNCHANGED <<request, page>>
OtherPutEdge == \E e \in request.late :
  Running /\ edges' = edges \union {e} /\ UNCHANGED <<stored, request, page>>

PageStep ==
  \/ ResolveRequired \/ Retrieve \/ LoadCandidate \/ StartSystem
  \/ FillSystem \/ Allocate \/ NextSection
  \/ \E b \in page.cands :
       \/ SkipRedundant(b) \/ TakeCandidate(b) \/ OmitCandidate(b)
       \/ \E s \in BlockId : Substitute(b, s)
  \/ FinishFill
  \/ PopFrontier \/ PullDependency \/ FinishExpand
  \/ ReadEdges \/ ResolveEdge \/ FinishReconcile
  \/ Rebuild \/ FinishRebuild

(* A tokenizer of another model, or an error of store, retriever, tokenizer. *)
Fail == Running /\ Step(Failed)

Next == PageStep \/ Fail \/ OtherPut \/ OtherDelete \/ OtherPutEdge

Spec == Init /\ [][Next]_vars

(* The call runs on its caller's thread, which is scheduled.               *)
FairSpec == Spec /\ WF_vars(PageStep)

-----------------------------------------------------------------------------
(* Properties *)

Phases == {"required", "load", "system", "fill", "expand", "reconcile",
           "rebuild", "done", "failed"}
Reasons == {"Pinned", "HighRelevance", "Dependency"}

(* The plan and the token counts are of their types; none wraps below zero. *)
TypeOK ==
  /\ stored \subseteq BlockId /\ edges \subseteq BlockId \X Kinds \X BlockId
  /\ page.pc \in Phases
  /\ {page.total, page.estimated, page.variable, page.used, page.pos} \subseteq Nat
  /\ \A sel \in SetOf(page.selected) :
       sel.id \in BlockId /\ sel.reason \in Reasons /\ sel.note \in BlockId \union {None}
  /\ \A S \in {page.listed, page.loaded, page.cands, page.visited} : S \subseteq BlockId

(* The tokens of the selections at the positions P. *)
TokensAt(seq, P) ==
  LET sum[n \in 0..Len(seq)] ==
        IF n = 0 THEN 0
        ELSE sum[n - 1] + (IF n \in P THEN Tokens(seq[n].id) ELSE 0)
  IN  sum[Len(seq)]
SumTokens(seq) == TokensAt(seq, DOMAIN seq)

(* The positions of what was ranked into one of the sections S. *)
Filled(S) ==
  {i \in DOMAIN page.selected :
     page.selected[i].reason = "HighRelevance" /\ Block[page.selected[i].id].section \in S}
Omitted(why) == {o.id : o \in {x \in page.omitted : x.reason = why}}
Dropped == Omitted("Contradicted") \union Omitted("SupersededByDerived")
Done == page.pc = "done"

(***************************************************************************)
(* The prompt's blocks and the task stay within input_budget, through fill,*)
(* substitution and expansion, whatever comes and goes in the store; only  *)
(* required blocks, checked before the task is counted, may exceed it.     *)
(***************************************************************************)
BudgetKept ==
  \/ \A sel \in SetOf(page.selected) : sel.reason = "Pinned"
  \/ SumTokens(page.selected) + request.task <= request.budget

(***************************************************************************)
(* The blocks ranked into a section stay within its allocation, and those  *)
(* of all variable sections within the variable budget, also when a summary*)
(* is charged to another section than its own.                             *)
(***************************************************************************)
SectionBudgetsKept ==
  page.pc \in {"fill", "expand"} =>
    /\ ~policy.summary_fallback =>
         \A s \in VariableSections : TokensAt(page.selected, Filled({s})) <= Allocation(s)
    /\ TokensAt(page.selected, Filled(VariableSections)) <= page.variable

(* No count wraps, a plan keeps to the input budget, and what is ranked to *)
(* the variable one and, unless summaries stand in, to that of its section.*)
(* No section is charged for required blocks and dependencies.             *)
BudgetsKept == TypeOK /\ BudgetKept /\ SectionBudgetsKept

(* Nobody else writes during the call. *)
Calm == request.volatile = {} /\ request.late = {}

(* estimated_tokens is what the selected blocks add up to, after drops too. *)
EstimateExact == Done /\ Calm => page.estimated = SumTokens(page.selected)

(* With deletes in between it may count a dropped block, never too little.  *)
EstimateNeverLow == Done => page.estimated >= SumTokens(page.selected)

(* What a caller is told to pay covers the prompt it gets, and is no more  *)
(* than that if nobody else wrote during the call.                         *)
EstimateKept == EstimateExact /\ EstimateNeverLow

(* Every candidate that was loaded is in the plan: selected or omitted.     *)
CandidatesAccounted ==
  Done => page.loaded \subseteq Included \union {o.id : o \in page.omitted}

(***************************************************************************)
(* A block omitted as Compressed is represented by a summary that names it *)
(* as a parent and was selected, unless reconciliation took that out.      *)
(***************************************************************************)
CompressedIsCovered ==
  Done => \A b \in Omitted("Compressed") :
            \E s \in Included \union Dropped : Summarizes(s, b)

(***************************************************************************)
(* No block is selected, charged and rendered twice, except one required   *)
(* twice and a summary that also stands in for another block.              *)
(***************************************************************************)
NoRepeat ==
  \A i, j \in DOMAIN page.selected :
    LET b == page.selected[i].id IN
    i # j /\ b = page.selected[j].id =>
      \/ b \in page.compressed
      \/ {page.selected[i].reason, page.selected[j].reason} = {"Pinned"}

(* The plan says what became of each candidate, and has none of them twice. *)
CandidatesOnce == CandidatesAccounted /\ NoRepeat

(* What expansion follows from b, the fan-out kept to. *)
Followed(b) ==
  SetOf(Lineage(b)) \union SetOf(Children(b)) \union UNION {SetOf(Outgoing(b, k)) : k \in PulledKinds}
Seeds == {sel.id : sel \in {x \in SetOf(page.selected) : x.reason # "Dependency"}}
Reach[n \in 0..MAX_DEPTH_CEILING] ==
  IF n = 0 THEN Seeds
  ELSE Reach[n - 1] \union UNION {Followed(b) : b \in Reach[n - 1] \intersect Included}

(***************************************************************************)
(* In a store nobody changes: a Dependency is at most max_depth (and never *)
(* more than five) followed edges away from a block that made the cut.     *)
(***************************************************************************)
DependenciesInReach ==
  Calm /\ page.pc \in {"expand", "reconcile", "rebuild"} => Included \subseteq Reach[EffectiveDepth]

(***************************************************************************)
(* In a store nobody changes: a stored neighbour within depth and fan-out  *)
(* is missing only if it does not fit, by whichever path it is reached.    *)
(***************************************************************************)
LeftOutOnlyForRoom ==
  Calm /\ page.pc \in {"reconcile", "rebuild"} /\ EffectiveDepth > 0 =>
    \A b \in Reach[EffectiveDepth - 1] \intersect Included :
      \A t \in Followed(b) : t \in Included \/ t \notin stored \/ ~Fits(t)

Opposed(a, b) == {<<a, "contradicts", b>>, <<b, "contradicts", a>>} \intersect edges # {}
Reconciled == Calm /\ Done /\ policy.enabled
NoteOn(b) == {sel.note : sel \in {x \in SetOf(page.selected) : x.id = b}} \ {None}

(***************************************************************************)
(* In a store nobody changes: of two selected blocks that contradict each  *)
(* other the older carries a note; under PreferNewer it is there only      *)
(* because it was required.                                                *)
(***************************************************************************)
ContradictionsSettled ==
  Reconciled /\ policy.contradicts # "off" =>
    \A a, b \in Included :
      Opposed(a, b) /\ a < b =>
        /\ NoteOn(a) # {}
        /\ policy.contradicts = "prefer_newer" => a \in Pinned

(***************************************************************************)
(* In a store nobody changes: a note names a newer block that contradicts  *)
(* the one it is on, and that is in the plan unless it was dropped itself. *)
(***************************************************************************)
NotesTrue ==
  Reconciled =>
    \A b \in Included : \A w \in NoteOn(b) :
      w > b /\ Opposed(b, w) /\ w \in Included \union Dropped

(* In a store nobody changes: under SuppressSource a source stands next to *)
(* its derivative only if it was required.                                 *)
SourcesSuppressed ==
  Reconciled /\ policy.derived_from = "suppress_source" =>
    \A a, b \in Included :
      a # b /\ <<a, "derived_from", b>> \in edges => b \in Pinned

(* The edges between selected blocks have had the effect the policy asks.  *)
EdgesReconciled == ContradictionsSettled /\ NotesTrue /\ SourcesSuppressed

(* page returns, however the store changes while it runs. *)
Terminates == <>~Running

-----------------------------------------------------------------------------
(* What comments in the source say of a plan. *)

(***************************************************************************)
(* page.rs on Contradicted: the pager kept the newer block instead.        *)
(* edges.rs on SuppressSource: the derivative already covers the source.   *)
(* So what a block was dropped for is in the plan.                         *)
(***************************************************************************)
DroppedForKept ==
  Done =>
    /\ \A b \in Omitted("Contradicted") : \E w \in Included : w > b /\ Opposed(b, w)
    /\ \A b \in Omitted("SupersededByDerived") :
         \E d \in Included : <<d, "derived_from", b>> \in edges

=============================================================================
