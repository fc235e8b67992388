-------------------------- MODULE GreedyPagerTwice --------------------------
(***************************************************************************)
(* The same request paged twice on a store nobody changes.  The packer     *)
(* renders the selected blocks section by section in id order, so what the *)
(* model sees is which blocks are selected, how often and with which note. *)
(***************************************************************************)
EXTENDS GreedyPager

VARIABLE first   \* the prompt of the first call, None before it returned

Prompt ==
  [b \in BlockId |->
     LET at == {i \in DOMAIN page.selected : page.selected[i].id = b} IN
     <<Cardinality(at), {page.selected[i].note : i \in at}>>]

TInit == Init /\ first = None

Again ==
  /\ Done /\ first = None
  /\ first' = Prompt
  /\ page' = Start
  /\ UNCHANGED <<world, request>>

TNext == Again \/ (PageStep /\ UNCHANGED first)

TSpec == TInit /\ [][TNext]_<<vars, first>>

(***************************************************************************)
(* "Stable tiebreakers so the same input always produces the same plan"    *)
(* (sort_candidates), whichever way its HashMaps iterate.                  *)
(***************************************************************************)
SamePromptTwice == Done /\ first # None => Prompt = first

=============================================================================
