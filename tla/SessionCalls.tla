----------------------------- MODULE SessionCalls -----------------------------
(***************************************************************************)
(* summarize of the command line and the Python store, next to retrievals  *)
(* of the same sessions: a session is listed, its last blocks are read one *)
(* by one, summarised, and the summary is put back with the listed blocks  *)
(* as its parents (llm386-cli/src/commands.rs, python/src/store.rs,        *)
(* llm386-compress).                                                       *)
(***************************************************************************)
EXTENDS AnnRetrievers

CONSTANTS Summarizer, LastN   \* the summarizers in use; the values of --last

ASSUME SummarizerAssumption == Summarizer \subseteq {"noop", "truncating", "anthropic"} /\ LastN \subseteq Nat

(* What the summarizers make of the texts read: how many there were, a     *)
(* line per text, or what the model answers for them all.                  *)
Empty == <<"empty", <<>>>>
NoopText(texts) == <<"noop", [i \in DOMAIN texts |-> <<>>]>>
TruncatingText(texts) == IF texts = <<>> THEN Empty ELSE <<"truncating", texts>>
AnthropicText(texts) == IF texts = <<>> THEN Empty ELSE <<"anthropic", texts>>
SummaryText(name, texts) ==
  CASE name = "noop" -> NoopText(texts)
    [] name = "truncating" -> TruncatingText(texts)
    [] name = "anthropic" -> AnthropicText(texts)

Summarize(t, s) ==
  /\ At(t, "idle") /\ calls < MaxCalls
  /\ task' = [task EXCEPT ![t] = [Resting EXCEPT !.op = "summarize", !.session = s, !.pc = "list_last"]]
  /\ calls' = calls + 1
  /\ UNCHANGED <<store, caches, settled>>

(* ParentsWereRead: cut what is read, not what is named as parent. *)
ListLast_ParentsUncut(t, n) ==
  /\ At(t, "list_last")
  /\ LET ids == ListSession(task[t].session)
         from == IF Len(ids) > n THEN Len(ids) - n ELSE 0
     IN task' = [task EXCEPT ![t].pc = "read", ![t].ids = ids, ![t].todo = SubSeq(ids, from + 1, Len(ids))]
  /\ UNCHANGED <<store, caches, calls, settled>>

ListLast(t, n) ==
  /\ At(t, "list_last")
  /\ LET ids == ListSession(task[t].session)
         from == IF Len(ids) > n THEN Len(ids) - n ELSE 0
         last == SubSeq(ids, from + 1, Len(ids))
     IN task' = [task EXCEPT ![t].pc = "read", ![t].ids = last, ![t].todo = last]
  /\ UNCHANGED <<store, caches, calls, settled>>

(* A block that is gone by now is left out of the text. *)
ReadBlock(t) ==
  /\ At(t, "read") /\ task[t].todo # <<>>
  /\ LET b == Head(task[t].todo)
     IN task' = [task EXCEPT ![t].todo = Tail(@),
                   ![t].batch = IF b \in DOMAIN blocks THEN Append(@, blocks[b].text) ELSE @]
  /\ UNCHANGED <<store, caches, calls, settled>>

(* All but the noop summarizer refuse texts that are not utf-8; the model  *)
(* behind one may fail; and a summary is stored only if the caller says so.*)
StoreSummary(t, name) ==
  /\ At(t, "read") /\ task[t].todo = <<>>
  /\ task' = [task EXCEPT ![t] = Resting]
  /\ \/ /\ name # "noop" => Range(task[t].batch) \intersect Unreadable = {}
        /\ Put(task[t].session, SummaryText(name, task[t].batch), Range(task[t].ids))
     \/ UNCHANGED store
  /\ UNCHANGED <<caches, calls, settled>>

Next ==
  \/ RetrieverNext
  \/ \E t \in Thread :
       \/ \E s \in Session : Summarize(t, s)
       \/ \E n \in LastN : ListLast(t, n)
       \/ ReadBlock(t)
       \/ \E name \in Summarizer : StoreSummary(t, name)

Spec == Init /\ [][Next]_vars

-----------------------------------------------------------------------------
Summaries == {b \in DOMAIN blocks : blocks[b].text \notin Text}
Lines(b) == Len(blocks[b].text[2])

(* A stored summary names as parents the blocks it was made of and no      *)
(* others than those deleted meanwhile: what the pager takes for covered   *)
(* by it was in its text.                                                  *)
ParentsWereRead ==
  \A b \in Summaries :
    LET parents == blocks[b].parents
        alive == parents \intersect DOMAIN blocks
    IN /\ Lines(b) <= Cardinality(parents)
       /\ Cardinality(alive) <= Lines(b)
       /\ blocks[b].text[1] # "noop" =>
            \A p \in alive : blocks[p].text \in Range(blocks[b].text[2])
=============================================================================
