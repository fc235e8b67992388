---------------------------- MODULE SimplePacker ----------------------------
(***************************************************************************)
(* SimplePacker (llm386-packer/src/simple.rs): a page plan becomes one     *)
(* prompt string (pack) or a list of chat messages (pack_chat).  A packer  *)
(* is called turn after turn; the plan names blocks by id, and each is     *)
(* read from the store one by one while other callers put and delete.      *)
(*                                                                         *)
(* Text is a sequence of pieces: a header, a note, a time stamp, a block's *)
(* body, the task.  A tokenizer is a cost per piece.                       *)
(***************************************************************************)
EXTENDS Integers, SequencesExt

CONSTANTS
  BlockId,       \* larger ids are newer
  Block,         \* id -> [section, role, text, tokens]; text: its bytes are utf-8
  Cost,          \* [header, note, stamp]: tokens these pieces take
  Plans,         \* sequences of [id, note]
  Requests,      \* [task, budget, system_role]; a task of 0 tokens is empty
  Options,       \* [stamps, stable]
  InitialStores, Volatile,    \* Volatile: blocks other callers put and delete
  None

VARIABLES
  stored,     \* blocks in the store
  options,    \* PackerOptions of the packer
  call,       \* the call under way, its plan and its result
  prior       \* the last chat prompt returned, with its call

vars == <<stored, options, call, prior>>

SECTION_ORDER ==
  <<"system", "task", "state", "plan", "retrieved", "tools", "recent", "background", "slack">>
SYSTEM_SIDE == <<"system", "state", "plan", "retrieved", "background">>

ASSUME BlockAssumption ==   \* default_section sends no block to "task" or "slack"
  /\ BlockId \subseteq Nat
  /\ \A b \in BlockId : Block[b].section \in Range(SYSTEM_SIDE) \union {"tools", "recent"}

Idle == [pc |-> "idle", options |-> None, mode |-> None, plan |-> <<>>, request |-> None,
         todo |-> <<>>, fetched |-> <<>>, text |-> <<>>, messages |-> <<>>, boundary |-> 0]

Init ==
  /\ stored \in InitialStores
  /\ options \in Options
  /\ call = Idle
  /\ prior = Idle

(* Operators with a _ in their name are mistakes: no action uses them, and *)
(* each is one the named property must notice in place of the real one.    *)

-----------------------------------------------------------------------------
(* Pieces of text.                                                         *)

(* The blocks of a section, sorted by id. *)
InSection(c, s) ==
  LET at == {i \in DOMAIN c.fetched : Block[c.fetched[i]].section = s}
      upTo(i) == {j \in at : c.fetched[j] < c.fetched[i] \/ (c.fetched[j] = c.fetched[i] /\ j <= i)}
  IN [k \in 1..Cardinality(at) |-> c.fetched[CHOOSE i \in at : Cardinality(upTo(i)) = k]]

(* NotedBlocksWarn: look the note up in the block's first selection. *)
NoteOf_First(plan, b) ==
  plan[CHOOSE i \in DOMAIN plan :
         plan[i].id = b /\ \A j \in DOMAIN plan : plan[j].id = b => i <= j].note

(* collect_notes: of several notes of one block the last is kept. *)
NoteOf(plan, b) ==
  LET noted == {i \in DOMAIN plan : plan[i].id = b /\ plan[i].note # None}
  IN IF noted = {} THEN None
     ELSE plan[CHOOSE i \in noted : \A j \in noted : j <= i].note

Header(s) == <<"header", s>>
Note(c, b) == IF NoteOf(c.plan, b) = None THEN <<>> ELSE << <<"note", NoteOf(c.plan, b)>> >>
Stamp(c) == IF c.options.stamps THEN << <<"stamp", None>> >> ELSE <<>>
BlockPieces(c, b) == Note(c, b) \o Stamp(c) \o << <<"body", b>> >>
Each(seq, Op(_)) == FlattenSeq([i \in DOMAIN seq |-> Op(seq[i])])
TaskPieces(c) == Stamp(c) \o << <<"task", None>> >>

TokensOf(piece, request) ==
  CASE piece[1] = "body" -> Block[piece[2]].tokens
    [] piece[1] = "task" -> request.task
    [] OTHER -> Cost[piece[1]]
Count(text, request) == FoldSeq(LAMBDA p, n : n + TokensOf(p, request), 0, text)

-----------------------------------------------------------------------------
(* pack                                                                    *)

SectionText(c, s) ==
  IF s = "task"
    THEN IF c.request.task = 0 THEN <<>> ELSE <<Header(s)>> \o TaskPieces(c)
    ELSE IF s = "slack" \/ InSection(c, s) = <<>> THEN <<>>
    ELSE <<Header(s)>> \o Each(InSection(c, s), LAMBDA b : BlockPieces(c, b))

Rendered(c) == Each(SECTION_ORDER, LAMBDA s : SectionText(c, s))

-----------------------------------------------------------------------------
(* pack_chat                                                               *)

Message(role, s, content) == [role |-> role, section |-> s, content |-> content]

(* HoldsThePlan: one message per section, of its newest block. *)
SideMessages_Newest(c, S) ==
  Each(SYSTEM_SIDE, LAMBDA s :
    IF s \notin S \/ InSection(c, s) = <<>> THEN <<>>
    ELSE <<Message("system", s, <<Header(s)>> \o BlockPieces(c, Last(InSection(c, s))))>>)

(* One message for each section of S that has blocks. *)
SideMessages(c, S) ==
  Each(SYSTEM_SIDE, LAMBDA s :
    IF s \notin S \/ InSection(c, s) = <<>> THEN <<>>
    ELSE <<Message(IF c.request.system_role THEN "system" ELSE "user", s,
                   <<Header(s)>> \o Each(InSection(c, s), LAMBDA b : BlockPieces(c, b)))>>)

(* The stable sections first. *)
SystemMessages(c) ==
  SideMessages(c, c.options.stable) \o SideMessages(c, Range(SYSTEM_SIDE) \ c.options.stable)

(* The model's own words carry no stamp. *)
RecentMessages(c) ==
  Each(InSection(c, "recent"), LAMBDA b :
    IF Block[b].role = "assistant"
      THEN <<Message("assistant", "recent", Note(c, b) \o << <<"body", b>> >>)>>
      ELSE <<Message("user", "recent", BlockPieces(c, b))>>)

ToolMessages(c) ==
  Each(InSection(c, "tools"), LAMBDA b : <<Message("tool", "tools", BlockPieces(c, b))>>)

TaskMessage(c) ==
  IF c.request.task = 0 THEN <<>> ELSE <<Message("user", "task", TaskPieces(c))>>

Messages(c) == SystemMessages(c) \o RecentMessages(c) \o ToolMessages(c) \o TaskMessage(c)

(* CachedPrefixKept: the messages of this call's blocks, not of stable sections. *)
Boundary_All(c) == Len(SystemMessages(c))

(* cache_boundary + 1; 0 for None: the stable messages at the front. *)
Boundary(c) ==
  LET messages == SystemMessages(c)
  IN Cardinality({i \in DOMAIN messages : \A j \in 1..i : messages[j].section \in c.options.stable})

-----------------------------------------------------------------------------
(* One call.                                                               *)

Call(plan, request, mode) ==
  /\ call.pc = "idle"
  /\ call' = [Idle EXCEPT !.pc = "fetch", !.options = options, !.mode = mode,
                          !.plan = plan, !.request = request,
                          !.todo = [i \in DOMAIN plan |-> plan[i].id]]
  /\ UNCHANGED <<stored, options, prior>>

(* A block that is gone fails the whole prompt. *)
Fetch ==
  /\ call.pc = "fetch" /\ call.todo # <<>>
  /\ call' = IF Head(call.todo) \in stored
               THEN [call EXCEPT !.todo = Tail(@), !.fetched = Append(@, Head(call.todo))]
               ELSE [call EXCEPT !.pc = "storage"]
  /\ UNCHANGED <<stored, options, prior>>

Charge(c, text) == Count(text, c.request)

(* A prompt is made of nothing but these parts of the call. *)
Input(c) == [options |-> c.options, mode |-> c.mode, plan |-> c.plan,
             request |-> c.request, fetched |-> c.fetched]
Prompt(c) == IF c.mode = "pack" THEN Rendered(c)
             ELSE Each(Messages(c), LAMBDA m : m.content)
Text(c) == Prompt(Input(c))

(* Bytes that are not utf-8 end the call; so may the tokenizer. *)
Render ==
  /\ call.pc = "fetch" /\ call.todo = <<>>
  /\ \/ /\ \E b \in Range(call.fetched) : ~Block[b].text
        /\ call' = [call EXCEPT !.pc = "storage"]
     \/ call' = [call EXCEPT !.pc = "tokenizer"]
     \/ /\ \A b \in Range(call.fetched) : Block[b].text
        /\ call' = IF Charge(call, Text(call)) > call.request.budget
                     THEN [call EXCEPT !.pc = "budget"]
                     ELSE [call EXCEPT !.pc = "packed", !.text = Text(call),
                             !.messages = IF call.mode = "pack" THEN <<>> ELSE Messages(Input(call)),
                             !.boundary = IF call.mode = "pack" THEN 0 ELSE Boundary(Input(call))]
  /\ UNCHANGED <<stored, options, prior>>

Return ==
  /\ call.pc \in {"storage", "tokenizer", "budget", "packed"}
  /\ prior' = IF call.pc = "packed" /\ call.mode = "chat" THEN call ELSE prior
  /\ call' = Idle
  /\ UNCHANGED <<stored, options>>

OtherPut(b) == /\ b \notin stored /\ stored' = stored \union {b}
               /\ UNCHANGED <<options, call, prior>>
OtherDelete(b) == /\ b \in stored /\ stored' = stored \ {b}
                  /\ UNCHANGED <<options, call, prior>>

Next ==
  \/ \E plan \in Plans, request \in Requests, mode \in {"pack", "chat"} :
       Call(plan, request, mode)
  \/ Fetch \/ Render \/ Return
  \/ \E b \in Volatile : OtherPut(b) \/ OtherDelete(b)

Spec == Init /\ [][Next]_vars

-----------------------------------------------------------------------------
(* What makes it correct.                                                  *)

Packed == call.pc = "packed"
Copies(plan, b) == Cardinality({i \in DOMAIN plan : plan[i].id = b})
BodiesOf(b, text) == {i \in DOMAIN text : text[i] = <<"body", b>>}
IsBody(piece) == piece[1] = "body"

(***************************************************************************)
(* A prompt, of either form, holds each block as often as the plan selects *)
(* it: no section is rendered twice and none is forgotten, whatever stable *)
(* sections the options name, and no block deleted before its read is      *)
(* silently missing.  Within a section blocks stand in the order they were *)
(* created, although the plan is sorted by score.                          *)
(***************************************************************************)
HoldsThePlan ==
  Packed =>
    /\ \A b \in BlockId : Cardinality(BodiesOf(b, call.text)) = Copies(call.plan, b)
    /\ \A i, j \in {k \in DOMAIN call.text : IsBody(call.text[k])} :
         i < j /\ Block[call.text[i][2]].section = Block[call.text[j][2]].section
           => call.text[i][2] <= call.text[j][2]

Warnings(b) == {<<"note", x.note>> : x \in {y \in Range(call.plan) : y.id = b /\ y.note # None}}
(* Each copy of a block whose selection carries a note has one of its own  *)
(* right before it, though it was selected twice and only one selection    *)
(* has a note.                                                             *)
NotedBlocksWarn ==
  Packed => \A i \in DOMAIN call.text :
    IsBody(call.text[i]) /\ Warnings(call.text[i][2]) # {}
      => \E j \in {i - 1, i - 2} \intersect DOMAIN call.text :
           /\ call.text[j] \in Warnings(call.text[i][2])
           /\ \A k \in j..(i - 1) : ~IsBody(call.text[k])

StablePart(c) ==
  {x \in BlockId \X Range(SYSTEM_SIDE) :
     Block[x[1]].section = x[2] /\ x[2] \in c.options.stable}
SameStablePart(c, d) ==
  /\ c.request.system_role = d.request.system_role
  /\ \A x \in StablePart(c) :
       /\ NoteOf(c.plan, x[1]) = NoteOf(d.plan, x[1])
       /\ Copies(c.plan, x[1]) = Copies(d.plan, x[1])

(***************************************************************************)
(* The messages up to cache_boundary are those of the stable sections; and *)
(* two chat prompts whose plans select the same stable blocks with the     *)
(* same notes have the same messages up to it, whatever else changed       *)
(* between the turns: the provider's prompt cache still matches.           *)
(***************************************************************************)
CachedPrefixKept ==
  Packed /\ call.mode = "chat" =>
    /\ \A i \in DOMAIN call.messages :
         i <= call.boundary
           <=> call.messages[i].section \in call.options.stable \intersect Range(SYSTEM_SIDE)
    /\ prior.pc = "packed" /\ SameStablePart(prior, call) =>
         /\ prior.boundary = call.boundary
         /\ SubSeq(prior.messages, 1, prior.boundary) = SubSeq(call.messages, 1, call.boundary)
=============================================================================
