----------------------------- MODULE PackCommand -----------------------------
(***************************************************************************)
(* The calls that end in a prompt: the command line's pack (string, or     *)
(* string and then messages), the Python store's page, pack and            *)
(* pack_with_plan (llm386-cli/src/commands.rs, python/src/store.rs), and a *)
(* Rust caller of SimplePacker with a plan of its own.  A call pages,      *)
(* packs, and records a trace, each reading the shared stores on its own;  *)
(* afterwards agents patch the model's output into the trace by            *)
(* fetching, changing and recording it again (llm386-core/src/trace.rs).   *)
(***************************************************************************)
EXTENDS SimplePacker

CONSTANTS
  TracedRequests,   \* bound: the requests whose commands may be traced
  Agents,        \* who patch outputs into traces, each its own
  MaxCommands,   \* bound: commands of one behaviour
  MaxPatches     \* bound: patches of one behaviour

VARIABLES
  command,    \* the command under way
  held,       \* the PagePlan a Python caller holds on to
  traces,     \* trace_by_call: call id -> record
  patch,      \* agent -> its update_output under way
  count       \* [commands, patches] begun

cvars == <<command, held, traces, patch, count>>
allVars == <<vars, cvars>>

Forms == {"library", "library_chat", "page", "cli", "cli_chat", "py", "py_chat", "replan", "replan_chat"}
ChatForms == {"library_chat", "py_chat", "replan_chat"}
Resting == [pc |-> "idle", form |-> None, request |-> None, plan |-> <<>>, tokens |-> 0, traced |-> FALSE]
NoPatch == [pc |-> "idle", call |-> 0, record |-> None]

CInit ==
  /\ Init
  /\ command = Resting
  /\ held = <<>>
  /\ traces = <<>>
  /\ patch = [a \in Agents |-> NoPatch]
  /\ count = [commands |-> 0, patches |-> 0]

Ids(plan) == [i \in DOMAIN plan |-> plan[i].id]
ASSUME PlansAssumption == \A plan \in Plans : Ids(plan) \in Seq(BlockId)

Working(pc) == command' = [command EXCEPT !.pc = pc]

-----------------------------------------------------------------------------
(* Commands.                                                               *)

(* A model whose tokenizer has no adapter ends the command here. *)
Start(form, request, traced) ==
  /\ command.pc = "idle" /\ count.commands < MaxCommands
  /\ form \in {"replan", "replan_chat"} => held # <<>>
  /\ traced => request \in TracedRequests /\ form \notin {"page", "library", "library_chat"}
  /\ command' = [Resting EXCEPT !.pc = "page", !.form = form, !.request = request, !.traced = traced]
  /\ count' = [count EXCEPT !.commands = @ + 1]
  /\ UNCHANGED <<vars, held, traces, patch>>

(* The pager selects blocks it has just read; pack_with_plan keeps the ids *)
(* of the plan it is given and leaves `selections`, with the notes, empty. *)
Planned(plan) ==
  CASE command.form \in {"library", "library_chat"} -> plan \in Plans
    [] command.form \in {"replan", "replan_chat"} ->
         plan = [i \in DOMAIN held |-> [id |-> held[i].id, note |-> None]]
    [] OTHER -> plan \in Plans /\ IsInjective(Ids(plan)) /\ Range(Ids(plan)) \subseteq stored

Page ==
  /\ command.pc = "page"
  /\ \/ Working("failed") /\ UNCHANGED held
     \/ \E plan \in Plans \union {[i \in DOMAIN held |-> [id |-> held[i].id, note |-> None]]} :
          /\ Planned(plan)
          /\ command' = [command EXCEPT !.pc = IF command.form = "page" THEN "done" ELSE "pack",
                                        !.plan = plan]
          /\ held' = IF command.form = "page" THEN plan ELSE held
  /\ UNCHANGED <<vars, traces, patch, count>>

Pack ==
  /\ command.pc = "pack"
  /\ Call(command.plan, command.request, IF command.form \in ChatForms THEN "chat" ELSE "pack")
  /\ Working("packing")
  /\ UNCHANGED <<held, traces, patch, count>>

(* --chat packs the plan a second time, with its own reads. *)
PackChat ==
  /\ command.pc = "chat"
  /\ Call(command.plan, command.request, "chat")
  /\ Working("packing")
  /\ UNCHANGED <<held, traces, patch, count>>

PackerStep == (Fetch \/ Render) /\ UNCHANGED cvars

(* TraceOfWholeCommand: record as soon as the string prompt is there. *)
Packed_Early ==
  /\ command.pc = "packing" /\ Return
  /\ command' =
       IF call.pc # "packed" THEN [command EXCEPT !.pc = "failed"]
       ELSE [command EXCEPT !.tokens = IF @ = 0 THEN Charge(call, call.text) ELSE @,
               !.pc = IF command.form = "cli_chat" /\ call.mode = "pack" THEN "chat" ELSE "done"]
  /\ traces' = IF call.pc = "packed" /\ command.traced /\ call.mode = "pack"
                 THEN Append(traces, [form |-> command.form, plan |-> command.plan, request |-> command.request,
                                      tokens |-> Charge(call, call.text), output |-> None, counted |-> None])
                 ELSE traces
  /\ UNCHANGED <<held, patch, count>>

(* The tokens a trace records are those of the first prompt packed. *)
PackerReturns ==
  /\ command.pc = "packing" /\ Return
  /\ command' =
       IF call.pc # "packed" THEN [command EXCEPT !.pc = "failed"]
       ELSE [command EXCEPT !.tokens = IF call.mode = "chat" /\ command.form = "cli_chat"
                                         THEN @ ELSE Charge(call, call.text),
               !.pc = IF command.form = "cli_chat" /\ call.mode = "pack" THEN "chat"
                      ELSE IF command.traced THEN "trace" ELSE "done"]
  /\ UNCHANGED <<held, traces, patch, count>>

TraceRecord ==
  [form |-> command.form, plan |-> command.plan, request |-> command.request,
   tokens |-> command.tokens, output |-> None, counted |-> None]

(* Opening the trace store or writing to it may fail; the prompt is lost. *)
Trace ==
  /\ command.pc = "trace"
  /\ \/ /\ Working("failed")
        /\ UNCHANGED traces
     \/ /\ Working("done")
        /\ traces' = Append(traces, TraceRecord)
  /\ UNCHANGED <<vars, held, patch, count>>

End ==
  /\ command.pc \in {"done", "failed"}
  /\ command' = Resting
  /\ UNCHANGED <<vars, held, traces, patch, count>>

-----------------------------------------------------------------------------
(* update_output.                                                          *)

(* A call that is not recorded is an error: nothing is left to do. *)
FetchTrace(a, c) ==
  /\ patch[a].pc = "idle" /\ count.patches < MaxPatches /\ c \in DOMAIN traces
  /\ patch' = [patch EXCEPT ![a] = [pc |-> "fetched", call |-> c, record |-> traces[c]]]
  /\ count' = [count EXCEPT !.patches = @ + 1]
  /\ UNCHANGED <<vars, command, held, traces>>

(* PatchKeepsCall: the output goes to the newest record. *)
RecordTrace_Newest(a) ==
  /\ patch[a].pc = "fetched"
  /\ traces' = [traces EXCEPT ![Len(traces)] =
                 [patch[a].record EXCEPT !.output = a, !.counted = a]]
  /\ patch' = [patch EXCEPT ![a] = NoPatch]
  /\ UNCHANGED <<vars, command, held, count>>

RecordTrace(a) ==
  /\ patch[a].pc = "fetched"
  /\ \/ traces' = [traces EXCEPT ![patch[a].call] =
                    [patch[a].record EXCEPT !.output = a, !.counted = a]]
     \/ UNCHANGED traces
  /\ patch' = [patch EXCEPT ![a] = NoPatch]
  /\ UNCHANGED <<vars, command, held, count>>

CNext ==
  \/ \E form \in Forms, request \in Requests, traced \in BOOLEAN : Start(form, request, traced)
  \/ Page \/ Pack \/ PackChat \/ PackerStep \/ PackerReturns \/ Trace \/ End
  \/ \E a \in Agents : \/ \E c \in DOMAIN traces : FetchTrace(a, c)
                       \/ RecordTrace(a)
  \/ (\E b \in Volatile : OtherPut(b) \/ OtherDelete(b)) /\ UNCHANGED cvars

CSpec == CInit /\ [][CNext]_allVars

-----------------------------------------------------------------------------
(* The call of a packer that renders what a trace stands for. *)
Stood(opts, t) ==
  [Idle EXCEPT !.options = opts, !.plan = t.plan, !.request = t.request,
               !.fetched = Ids(t.plan),
               !.mode = IF t.form \in ChatForms THEN "chat" ELSE "pack"]

(* A trace is recorded only when every prompt of its command was rendered, *)
(* and its tokens are what its plan takes as the string the trace stands   *)
(* for (the messages for a Python chat), although blocks were deleted and  *)
(* put back between the page, the first and the second packing.  Its       *)
(* output and the count of that belong together, whichever of two racing   *)
(* patches wrote last.                                                     *)
TraceOfWholeCommand ==
  /\ \A c \in DOMAIN traces : traces[c].output = traces[c].counted
  /\ \A c \in DOMAIN traces :
       LET t == traces[c]
       IN t.tokens = Charge(Stood(options, t), Text(Stood(options, t)))
  /\ command.pc \in {"chat", "packing", "failed"} /\ command.traced =>
       Len(traces) < count.commands

(* A patch changes the output of the record it was called for and nothing  *)
(* else, and traces are never lost: a record that outlives races with      *)
(* later calls still tells their plan.                                     *)
PatchKeepsCall ==
  [][/\ Len(traces) <= Len(traces')
     /\ \A c \in DOMAIN traces :
          /\ [traces[c] EXCEPT !.output = None, !.counted = None]
               = [traces'[c] EXCEPT !.output = None, !.counted = None]
          /\ traces[c] # traces'[c] => \E a \in Agents : patch[a].call = c]_traces

(* What pack_with_plan says of the plan it rebuilds: the packer does not   *)
(* read what was left out of it, so its prompt is that of the plan held.   *)
ReplanRendersThePlan ==
  Packed /\ command.form \in {"replan", "replan_chat"} =>
    call.text = Text([call EXCEPT !.plan = held])
=============================================================================
