------------------------------ MODULE PromptDiff ------------------------------
(***************************************************************************)
(* How two recorded plans differ: what the trace diff command shows        *)
(* (llm386-diff/src/lib.rs, llm386-cli/src/commands.rs).  Either plan may  *)
(* be one without `selections`: those of old traces, and those             *)
(* pack_with_plan records.                                                 *)
(***************************************************************************)
EXTENDS Integers, SequencesExt

CONSTANTS
  Id,            \* blocks
  Reason,        \* reasons of the pager
  Estimate,      \* estimated_tokens of plans
  Missing,       \* no reason; no record
  MaxSelections  \* bound

ASSUME MissingAssumption == Missing \notin Reason /\ {"HighRelevance", "Pinned"} \subseteq Reason
ASSUME MaxSelectionsAssumption == MaxSelections \in Nat

VARIABLES
  prev, next, \* the plans: [selected, selections, tokens], Missing if not recorded
  shown       \* the PromptDiff, Missing before it is made or when a trace is not there

diffVars == <<prev, next, shown>>

(* What page has selected and why, required blocks first.  A block comes   *)
(* again when it was required twice, or as the summary of one that does    *)
(* not fit: with HighRelevance then, whatever it was selected for before.  *)
Selections ==
  {q \in SeqOf([id : Id, reason : Reason], MaxSelections) :
     \A i, j \in DOMAIN q : i < j /\ q[j].reason = "Pinned" => q[i].reason = "Pinned"}

(* The order of selected is ignored.  A block without a Selection among    *)
(* others that have one should not happen; plans without any do.           *)
Plan ==
  {plan \in [selected : SUBSET Id, selections : Selections, tokens : Estimate] :
     \A i \in DOMAIN plan.selections : plan.selections[i].id \in plan.selected}

(* DiffIsExact: blocks without a Selection are not seen. *)
ReasonsById_SelectionsOnly(plan) ==
  [b \in {plan.selections[i].id : i \in DOMAIN plan.selections} |->
     plan.selections[CHOOSE i \in DOMAIN plan.selections : plan.selections[i].id = b].reason]

(* The map the selections are inserted into one by one, a later one of a   *)
(* block in place of an earlier one, and then every other selected block.  *)
ReasonsById(plan) ==
  LET sel == plan.selections
      inserted[n \in 0..Len(sel)] ==
        IF n = 0 THEN [b \in {} |-> Missing]
        ELSE [b \in DOMAIN inserted[n - 1] \union {sel[n].id} |->
                IF b = sel[n].id THEN sel[n].reason ELSE inserted[n - 1][b]]
      given == inserted[Len(sel)]
  IN [b \in plan.selected \union DOMAIN given |->
        IF b \in DOMAIN given THEN given[b] ELSE "HighRelevance"]

ReasonIn(m, b) == IF b \in DOMAIN m THEN m[b] ELSE Missing

DiffEntries(B, p, n) == {[id |-> b, reason_prev |-> ReasonIn(p, b), reason_next |-> ReasonIn(n, b)] : b \in B}

DiffPlans(a, b) ==
  LET p == ReasonsById(a)
      n == ReasonsById(b)
  IN [added |-> DiffEntries(DOMAIN n \ DOMAIN p, p, n),
      removed |-> DiffEntries(DOMAIN p \ DOMAIN n, p, n),
      kept |-> DiffEntries(DOMAIN p \intersect DOMAIN n, p, n),
      token_delta |-> b.tokens - a.tokens]

ReasonChanged(e) == e.reason_prev # e.reason_next
IsNoop(d) == d.added = {} /\ d.removed = {} /\ \A e \in d.kept : ~ReasonChanged(e)

TraceDiff ==
  /\ shown = Missing /\ prev # Missing /\ next # Missing
  /\ shown' = DiffPlans(prev, next)
  /\ UNCHANGED <<prev, next>>

DiffInit == prev \in Plan \union {Missing} /\ next \in Plan \union {Missing} /\ shown = Missing
DiffSpec == DiffInit /\ [][TraceDiff]_diffVars

-----------------------------------------------------------------------------
Shown == shown # Missing
Ids(E) == {e.id : e \in E}
Entries == shown.added \union shown.removed \union shown.kept

(* The diff is a patch: the blocks of the previous plan without those      *)
(* removed and with those added are the blocks of the next plan, and no    *)
(* block is listed twice, however often a plan selects it.                 *)
DiffGivesNext ==
  Shown =>
    /\ (prev.selected \ Ids(shown.removed)) \union Ids(shown.added) = next.selected
    /\ Ids(shown.kept) = prev.selected \intersect next.selected
    /\ \A e, f \in Entries : e.id = f.id => e = f

(* The reason a plan was last given for a block is r; HighRelevance stands *)
(* in where it was given none.                                             *)
LastReason(plan, b, r) ==
  \/ /\ \A i \in DOMAIN plan.selections : plan.selections[i].id # b
     /\ r = "HighRelevance"
  \/ \E i \in DOMAIN plan.selections :
       /\ plan.selections[i].id = b /\ plan.selections[i].reason = r
       /\ \A j \in DOMAIN plan.selections : j > i => plan.selections[j].id # b

(* On the side of each plan an entry has the last reason of the block, and *)
(* no reason exactly if the plan does not hold it: what the command prints *)
(* is always there.                                                        *)
ReasonsAreLast ==
  Shown =>
    \A e \in Entries :
      /\ IF e.id \in prev.selected THEN LastReason(prev, e.id, e.reason_prev) ELSE e.reason_prev = Missing
      /\ IF e.id \in next.selected THEN LastReason(next, e.id, e.reason_next) ELSE e.reason_next = Missing

(* A diff counts as no change exactly when both plans hold the same blocks *)
(* and for each the same last reason.                                      *)
NoopMeansSame ==
  Shown =>
    (IsNoop(shown) <=>
       /\ prev.selected = next.selected
       /\ \A b \in prev.selected : \E r \in Reason : LastReason(prev, b, r) /\ LastReason(next, b, r))

(***************************************************************************)
(* The diff shows which blocks come and go, and a changed reason as far as *)
(* last reasons tell.  Two plans that differ in an earlier reason of a     *)
(* block are shown as equal (PromotionShows), and a plan without           *)
(* selections is shown as if all its blocks had HighRelevance.             *)
(***************************************************************************)
DiffIsExact == DiffGivesNext /\ ReasonsAreLast /\ NoopMeansSame

ReasonsOf(plan, b) == {plan.selections[i].reason : i \in {k \in DOMAIN plan.selections : plan.selections[k].id = b}}

(***************************************************************************)
(* What the crate's documentation says: a kept block that was promoted     *)
(* from HighRelevance to Pinned shows up with both reasons.  A block that  *)
(* is pinned and again selected as a summary does not.                     *)
(***************************************************************************)
PromotionShows ==
  Shown =>
    \A b \in prev.selected \intersect next.selected :
      ReasonsOf(prev, b) = {"HighRelevance"} /\ "Pinned" \in ReasonsOf(next, b) =>
        \E e \in shown.kept : e.id = b /\ e.reason_prev = "HighRelevance" /\ e.reason_next = "Pinned"
=============================================================================
