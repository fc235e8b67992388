-------------------------- MODULE PackCommandProofs --------------------------
(***************************************************************************)
(* A trace tells of a whole command, a patch keeps the trace it was called *)
(* for, and a prompt holds the plan it was made of (PackCommand,           *)
(* SimplePacker), for every store, plan, request and number of agents.     *)
(*                                                                         *)
(* The first half leaves the rendering unexpanded: a prompt is whatever    *)
(* the packer makes of its options, the mode, the plan, the request and    *)
(* the blocks it fetched, and between a page and its trace none of the     *)
(* five can change.  The second half opens it.  A text shows the blocks of *)
(* a section (Shown) when their bodies stand in it in that order, each     *)
(* noted one behind its note; this is so of each piece of a prompt and     *)
(* stays so when pieces are joined, hence of the prompt.                   *)
(***************************************************************************)
EXTENDS PackCommand, RecursionTheorems, SequenceTheorems, TLAPS

-----------------------------------------------------------------------------
(* The inductive invariant, one definition per party.                      *)

(* What a trace, or a command that is to be one, says of its tokens.       *)
Charged(opts, t) == t.tokens = Charge(Stood(opts, t), Text(Stood(opts, t)))

IsRecord(t) ==
  t = [form |-> t.form, plan |-> t.plan, request |-> t.request,
       tokens |-> t.tokens, output |-> t.output, counted |-> t.counted]

(* A trace without what agents patch into it. *)
Unpatched(t) == [t EXCEPT !.output = None, !.counted = None]

TracesSound ==
  /\ traces \in Seq(Range(traces))
  /\ \A c \in DOMAIN traces :
       /\ IsRecord(traces[c])
       /\ traces[c].output = traces[c].counted
       /\ Charged(options, traces[c])

(* The record an agent holds is still the one of its call, patches apart.  *)
PatchesSound ==
  \A a \in Agents :
    /\ patch[a] = [pc |-> patch[a].pc, call |-> patch[a].call, record |-> patch[a].record]
    /\ patch[a].pc = "fetched" =>
         /\ patch[a].call \in DOMAIN traces
         /\ IsRecord(patch[a].record)
         /\ Unpatched(patch[a].record) = Unpatched(traces[patch[a].call])

(* A command records at most one trace, and only as its last step.         *)
TracesCounted ==
  /\ count.commands \in Nat
  /\ count = [commands |-> count.commands, patches |-> count.patches]
  /\ Len(traces) <= count.commands
  /\ command.pc \notin {"idle", "done"} => Len(traces) < count.commands

CommandSound ==
  /\ command = [pc |-> command.pc, form |-> command.form, request |-> command.request,
                plan |-> command.plan, tokens |-> command.tokens, traced |-> command.traced]
  /\ Ids(held) \in Seq(BlockId)
  /\ command.pc \in {"pack", "packing", "chat"} => Ids(command.plan) \in Seq(BlockId)
  /\ command.pc = "chat" => command.form = "cli_chat"
  /\ command.pc = "trace" => Charged(options, command)
  /\ command.pc = "chat" \/ (command.pc = "packing" /\ command.form = "cli_chat" /\ call.mode = "chat")
       => Charged(options, command)

(* The packer works on what the command asked for, and has read a prefix   *)
(* of the plan; a prompt that came out is made of all of it.               *)
CallSound ==
  command.pc = "packing" =>
    /\ call = [pc |-> call.pc, options |-> call.options, mode |-> call.mode, plan |-> call.plan,
               request |-> call.request, todo |-> call.todo, fetched |-> call.fetched,
               text |-> call.text, messages |-> call.messages, boundary |-> call.boundary]
    /\ call.options = options /\ call.plan = command.plan /\ call.request = command.request
    /\ \/ call.mode = IF command.form \in ChatForms THEN "chat" ELSE "pack"
       \/ call.mode = "chat" /\ command.form = "cli_chat"
    /\ call.pc = "fetch" =>
         /\ call.fetched \in Seq(BlockId) /\ call.todo \in Seq(BlockId)
         /\ call.fetched \o call.todo = Ids(command.plan)
    /\ call.pc = "packed" => call.fetched = Ids(command.plan) /\ call.text = Text(call)

PackInv == TracesSound /\ PatchesSound /\ TracesCounted /\ CommandSound /\ CallSound

-----------------------------------------------------------------------------
(* Sequences.                                                              *)

LEMMA AppendTo ==
  ASSUME NEW s, s \in Seq(Range(s)), NEW x
  PROVE  /\ Append(s, x) \in Seq(Range(Append(s, x)))
         /\ Len(s) \in Nat /\ Len(Append(s, x)) = Len(s) + 1
         /\ DOMAIN s = 1..Len(s) /\ DOMAIN Append(s, x) = 1..(Len(s) + 1)
         /\ \A i \in 1..Len(s) : Append(s, x)[i] = s[i]
         /\ Append(s, x)[Len(s) + 1] = x
<1> DEFINE T == Range(s) \union {x}
           u == Append(s, x)
<1>1. s \in Seq(T) /\ x \in T
  <2>1. Len(s) \in Nat /\ s = [i \in 1..Len(s) |-> s[i]] /\ \A i \in 1..Len(s) : s[i] \in Range(s)
    OBVIOUS
  <2> QED
    BY <2>1
<1>2. /\ u \in Seq(T) /\ Len(s) \in Nat /\ Len(u) = Len(s) + 1
      /\ DOMAIN s = 1..Len(s) /\ DOMAIN u = 1..(Len(s) + 1)
      /\ \A i \in 1..Len(s) : u[i] = s[i]
      /\ u[Len(s) + 1] = x
  <2> HIDE DEF T
  <2> QED
    BY <1>1
<1> HIDE DEF u, T
<1>3. u = [i \in 1..Len(u) |-> u[i]] /\ Len(u) \in Nat /\ \A i \in 1..Len(u) : u[i] \in Range(u)
  BY <1>2 DEF Range
<1>4. u \in Seq(Range(u))
  BY <1>3
<1> QED
  BY <1>2, <1>4 DEF u

(* Replacing an element of a sequence.                                     *)
LEMMA ReplaceIn ==
  ASSUME NEW s, s \in Seq(Range(s)), NEW k \in DOMAIN s, NEW x
  PROVE  /\ [s EXCEPT ![k] = x] \in Seq(Range([s EXCEPT ![k] = x]))
         /\ DOMAIN [s EXCEPT ![k] = x] = DOMAIN s
         /\ Len([s EXCEPT ![k] = x]) = Len(s)
         /\ [s EXCEPT ![k] = x][k] = x
         /\ \A i \in DOMAIN s \ {k} : [s EXCEPT ![k] = x][i] = s[i]
<1> DEFINE u == [s EXCEPT ![k] = x]
<1>1. Len(s) \in Nat /\ DOMAIN s = 1..Len(s)
  OBVIOUS
<1>2. DOMAIN u = 1..Len(s) /\ u = [i \in 1..Len(s) |-> u[i]]
      /\ u[k] = x /\ \A i \in DOMAIN s \ {k} : u[i] = s[i]
  BY <1>1
<1> HIDE DEF u
<1>3. \A i \in 1..Len(s) : u[i] \in Range(u)
  BY <1>2 DEF Range
<1>4. u \in Seq(Range(u)) /\ Len(u) = Len(s)
  BY <1>1, <1>2, <1>3
<1> QED
  BY <1>1, <1>2, <1>4 DEF u

(* Reading the next id moves it from what is to be read to what was.       *)
LEMMA MoveOne ==
  ASSUME NEW f \in Seq(BlockId), NEW t \in Seq(BlockId), t # <<>>
  PROVE  /\ Append(f, Head(t)) \in Seq(BlockId) /\ Tail(t) \in Seq(BlockId)
         /\ Append(f, Head(t)) \o Tail(t) = f \o t
<1>1. Head(t) \in BlockId /\ Tail(t) \in Seq(BlockId) /\ Len(t) \in Nat \ {0} /\ Len(f) \in Nat
      /\ t[1] = Head(t) /\ Len(Tail(t)) = Len(t) - 1
      /\ \A i \in 1..(Len(t) - 1) : Tail(t)[i] = t[i + 1]
  OBVIOUS
<1> DEFINE h == Head(t)  u == Tail(t)  g == Append(f, h)
<1>2. g \in Seq(BlockId) /\ Len(g) = Len(f) + 1 /\ g[Len(f) + 1] = h
      /\ \A i \in 1..Len(f) : g[i] = f[i]
  <2> HIDE DEF h
  <2> QED
    BY <1>1 DEF h
<1> HIDE DEF h, u, g
<1>3. g \o u \in Seq(BlockId) /\ f \o t \in Seq(BlockId)
      /\ Len(g \o u) = Len(f) + Len(t) /\ Len(f \o t) = Len(f) + Len(t)
  BY <1>1, <1>2 DEF u
<1>4. ASSUME NEW i \in 1..(Len(f) + Len(t))
      PROVE  (g \o u)[i] = (f \o t)[i]
  <2>1. CASE i <= Len(f)
    BY <2>1, <1>1, <1>2 DEF u
  <2>2. CASE i = Len(f) + 1
    BY <2>2, <1>1, <1>2 DEF u, h
  <2>3. CASE i > Len(f) + 1
    <3>1. i - Len(f) - 1 \in 1..(Len(t) - 1) /\ (i - Len(f) - 1) + 1 = i - Len(f)
      BY <2>3, <1>1
    <3>2. (g \o u)[i] = u[i - Len(f) - 1]
      <4>1. g \in Seq(BlockId) /\ u \in Seq(BlockId) /\ Len(u) = Len(t) - 1
        BY <1>1, <1>2 DEF u
      <4>2. i \in Nat /\ i > Len(g) /\ i <= Len(g) + Len(u) /\ i - Len(g) = i - Len(f) - 1
        BY <2>3, <1>1, <1>2, <4>1
      <4>3. (g \o u)[i] = u[i - Len(g)]
        BY <4>1, <4>2
      <4> QED
        BY <4>2, <4>3
    <3>3. (f \o t)[i] = t[i - Len(f)]
      BY <2>3, <1>1
    <3>4. u[i - Len(f) - 1] = t[(i - Len(f) - 1) + 1]
      BY <3>1, <1>1 DEF u
    <3> QED
      BY <3>1, <3>2, <3>3, <3>4
  <2>4. i \in Int /\ Len(f) \in Int
    BY <1>1
  <2>5. i <= Len(f) \/ i = Len(f) + 1 \/ i > Len(f) + 1
    <3> DEFINE n == Len(f)
    <3> HIDE DEF n
    <3>1. i \in Int /\ n \in Int
      BY <2>4 DEF n
    <3>2. i <= n \/ i = n + 1 \/ i > n + 1
      BY <3>1
    <3> QED
      BY <3>2 DEF n
  <2> QED
    BY <2>1, <2>2, <2>3, <2>5
<1>5. g \o u = f \o t
  BY <1>3, <1>4
<1> QED
  BY <1>1, <1>2, <1>5 DEF g, h, u

(* When nothing is left to read, all of the plan was. *)
LEMMA AllRead ==
  ASSUME NEW f \in Seq(BlockId), NEW t, t = <<>>
  PROVE  f \o t = f
OBVIOUS

-----------------------------------------------------------------------------
(* Prompts.                                                                *)

(* Equal input, equal prompt: what a finished call holds is what a trace   *)
(* of its command stands for.                                              *)
LEMMA StandsForCall ==
  ASSUME NEW opts, NEW t, NEW c,
         c.options = opts, c.plan = t.plan, c.request = t.request, c.fetched = Ids(t.plan),
         c.mode = IF t.form \in ChatForms THEN "chat" ELSE "pack"
  PROVE  /\ Text(Stood(opts, t)) = Text(c)
         /\ Charge(Stood(opts, t), Text(Stood(opts, t))) = Charge(c, Text(c))
<1> DEFINE d == Stood(opts, t)
<1>1. /\ d.options = c.options /\ d.plan = c.plan /\ d.request = c.request
      /\ d.fetched = c.fetched /\ d.mode = c.mode
  BY DEF Stood, Idle
<1> HIDE DEF d
<1>2. Input(d) = Input(c)
  BY <1>1 DEF Input
<1>3. Text(d) = Text(c)
  BY <1>2 DEF Text
<1> QED
  BY <1>1, <1>3 DEF d, Charge

(* Only form, plan and request say what a trace stands for.                *)
LEMMA ChargedAlike ==
  ASSUME NEW opts, NEW t, NEW u, u.form = t.form, u.plan = t.plan, u.request = t.request,
         u.tokens = t.tokens, Charged(opts, t)
  PROVE  Charged(opts, u)
<1>1. Stood(opts, u) = Stood(opts, t)
  BY DEF Stood
<1> QED
  BY <1>1 DEF Charged

(* A patch changes the output and its count.                               *)
LEMMA PatchOf ==
  ASSUME NEW t, NEW x, IsRecord(t)
  PROVE  [t EXCEPT !.output = x, !.counted = x]
           = [form |-> t.form, plan |-> t.plan, request |-> t.request,
              tokens |-> t.tokens, output |-> x, counted |-> x]
<1> DEFINE r == [form |-> t.form, plan |-> t.plan, request |-> t.request,
                 tokens |-> t.tokens, output |-> t.output, counted |-> t.counted]
<1>1. [t EXCEPT !.output = x, !.counted = x] = [r EXCEPT !.output = x, !.counted = x]
  <2>1. t = r
    BY DEF IsRecord
  <2> HIDE DEF r
  <2> QED
    BY <2>1
<1>2. [r EXCEPT !.output = x, !.counted = x]
        = [form |-> t.form, plan |-> t.plan, request |-> t.request,
           tokens |-> t.tokens, output |-> x, counted |-> x]
  <2> DEFINE a == t.form  b == t.plan  c == t.request  d == t.tokens  e == t.output  f == t.counted
             q == [form |-> a, plan |-> b, request |-> c, tokens |-> d, output |-> e, counted |-> f]
             p == [form |-> a, plan |-> b, request |-> c, tokens |-> d, output |-> x, counted |-> f]
             o == [form |-> a, plan |-> b, request |-> c, tokens |-> d, output |-> x, counted |-> x]
  <2> HIDE DEF a, b, c, d, e, f
  <2>1. [q EXCEPT !.output = x] = p
    OBVIOUS
  <2>2. [p EXCEPT !.counted = x] = o
    OBVIOUS
  <2>3. [q EXCEPT !.output = x, !.counted = x] = [[q EXCEPT !.output = x] EXCEPT !.counted = x]
    OBVIOUS
  <2>4. [q EXCEPT !.output = x, !.counted = x] = o
    BY <2>1, <2>2, <2>3
  <2> QED
    BY <2>4 DEF a, b, c, d, e, f
<1> QED
  BY <1>1, <1>2

LEMMA UnpatchedFields ==
  ASSUME NEW t, NEW u, IsRecord(t), IsRecord(u)
  PROVE  Unpatched(t) = Unpatched(u) <=>
           u.form = t.form /\ u.plan = t.plan /\ u.request = t.request /\ u.tokens = t.tokens
<1>1. Unpatched(t) = [form |-> t.form, plan |-> t.plan, request |-> t.request,
                      tokens |-> t.tokens, output |-> None, counted |-> None]
  BY PatchOf DEF Unpatched
<1>2. Unpatched(u) = [form |-> u.form, plan |-> u.plan, request |-> u.request,
                      tokens |-> u.tokens, output |-> None, counted |-> None]
  BY PatchOf DEF Unpatched
<1> QED
  BY <1>1, <1>2

-----------------------------------------------------------------------------
(* The initial state, and what a step leaves alone.                        *)

LEMMA PackInit == CInit => PackInv
<1> SUFFICES ASSUME CInit
             PROVE  PackInv
  OBVIOUS
<1>1. <<>> \in Seq(Range(<<>>)) /\ Len(<<>>) = 0 /\ DOMAIN <<>> = {}
  OBVIOUS
<1>2. Ids(<<>>) \in Seq(BlockId)
  <2>1. Ids(<<>>) = <<>>
    BY DEF Ids
  <2>2. <<>> \in Seq(BlockId)
    OBVIOUS
  <2> QED
    BY <2>1, <2>2
<1>3. TracesSound
  BY <1>1 DEF CInit, TracesSound
<1>4. PatchesSound
  BY DEF CInit, PatchesSound, NoPatch
<1>5. TracesCounted
  BY <1>1 DEF CInit, TracesCounted, Resting
<1>6. CommandSound
  BY <1>2 DEF CInit, CommandSound, Resting
<1>7. CallSound
  BY DEF CInit, CallSound, Resting
<1> QED
  BY <1>3, <1>4, <1>5, <1>6, <1>7 DEF PackInv

LEMMA TracesStay == ASSUME TracesSound, UNCHANGED <<traces, options>> PROVE TracesSound'
BY DEF TracesSound, IsRecord, Charged, Stood, Idle, Charge

LEMMA PatchesStay == ASSUME PatchesSound, UNCHANGED <<traces, patch>> PROVE PatchesSound'
BY DEF PatchesSound, IsRecord, Unpatched

LEMMA CountsStay ==
  ASSUME TracesCounted, UNCHANGED <<traces, count>>,
         command'.pc \in {"idle", "done"} \/ command.pc \notin {"idle", "done"}
  PROVE  TracesCounted'
BY DEF TracesCounted

LEMMA CommandStays == ASSUME CommandSound, UNCHANGED <<command, held, call, options>> PROVE CommandSound'
BY DEF CommandSound, Charged, Stood, Idle, Charge

-----------------------------------------------------------------------------
(* A step of the command, one field at a time.                             *)

IsCommand(c) ==
  c = [pc |-> c.pc, form |-> c.form, request |-> c.request,
       plan |-> c.plan, tokens |-> c.tokens, traced |-> c.traced]

LEMMA CommandWorks ==
  ASSUME NEW c, IsCommand(c), NEW p
  PROVE  [c EXCEPT !.pc = p] = [pc |-> p, form |-> c.form, request |-> c.request,
                                plan |-> c.plan, tokens |-> c.tokens, traced |-> c.traced]
<1> DEFINE r == [pc |-> c.pc, form |-> c.form, request |-> c.request,
                 plan |-> c.plan, tokens |-> c.tokens, traced |-> c.traced]
<1>1. [c EXCEPT !.pc = p] = [r EXCEPT !.pc = p]
  <2>1. c = r
    BY DEF IsCommand
  <2> HIDE DEF r
  <2> QED
    BY <2>1
<1>2. [r EXCEPT !.pc = p] = [pc |-> p, form |-> c.form, request |-> c.request,
                             plan |-> c.plan, tokens |-> c.tokens, traced |-> c.traced]
  <2> DEFINE a == c.pc  b == c.form  d == c.request  e == c.plan  f == c.tokens  g == c.traced
  <2> HIDE DEF a, b, d, e, f, g
  <2>1. [[pc |-> a, form |-> b, request |-> d, plan |-> e, tokens |-> f, traced |-> g]
           EXCEPT !.pc = p]
          = [pc |-> p, form |-> b, request |-> d, plan |-> e, tokens |-> f, traced |-> g]
    OBVIOUS
  <2> QED
    BY <2>1 DEF a, b, d, e, f, g
<1> QED
  BY <1>1, <1>2

LEMMA CommandPlans ==
  ASSUME NEW c, IsCommand(c), NEW p, NEW x
  PROVE  [c EXCEPT !.pc = p, !.plan = x]
           = [pc |-> p, form |-> c.form, request |-> c.request,
              plan |-> x, tokens |-> c.tokens, traced |-> c.traced]
<1> DEFINE r == [pc |-> c.pc, form |-> c.form, request |-> c.request,
                 plan |-> c.plan, tokens |-> c.tokens, traced |-> c.traced]
<1>1. [c EXCEPT !.pc = p, !.plan = x] = [r EXCEPT !.pc = p, !.plan = x]
  <2>1. c = r
    BY DEF IsCommand
  <2> HIDE DEF r
  <2> QED
    BY <2>1
<1>2. [r EXCEPT !.pc = p, !.plan = x]
        = [pc |-> p, form |-> c.form, request |-> c.request,
           plan |-> x, tokens |-> c.tokens, traced |-> c.traced]
  <2> DEFINE a == c.pc  b == c.form  d == c.request  e == c.plan  f == c.tokens  g == c.traced
             q == [pc |-> a, form |-> b, request |-> d, plan |-> e, tokens |-> f, traced |-> g]
             o == [pc |-> p, form |-> b, request |-> d, plan |-> e, tokens |-> f, traced |-> g]
  <2> HIDE DEF a, b, d, e, f, g
  <2>1. [q EXCEPT !.pc = p] = o
    OBVIOUS
  <2>2. [o EXCEPT !.plan = x] = [pc |-> p, form |-> b, request |-> d, plan |-> x, tokens |-> f, traced |-> g]
    OBVIOUS
  <2>3. [q EXCEPT !.pc = p, !.plan = x] = [[q EXCEPT !.pc = p] EXCEPT !.plan = x]
    OBVIOUS
  <2>4. [q EXCEPT !.pc = p, !.plan = x]
          = [pc |-> p, form |-> b, request |-> d, plan |-> x, tokens |-> f, traced |-> g]
    BY <2>1, <2>2, <2>3
  <2> QED
    BY <2>4 DEF a, b, d, e, f, g
<1> QED
  BY <1>1, <1>2

LEMMA CommandReturns ==
  ASSUME NEW c, IsCommand(c), NEW p, NEW x
  PROVE  [c EXCEPT !.tokens = x, !.pc = p]
           = [pc |-> p, form |-> c.form, request |-> c.request,
              plan |-> c.plan, tokens |-> x, traced |-> c.traced]
<1> DEFINE r == [pc |-> c.pc, form |-> c.form, request |-> c.request,
                 plan |-> c.plan, tokens |-> c.tokens, traced |-> c.traced]
<1>1. [c EXCEPT !.tokens = x, !.pc = p] = [r EXCEPT !.tokens = x, !.pc = p]
  <2>1. c = r
    BY DEF IsCommand
  <2> HIDE DEF r
  <2> QED
    BY <2>1
<1>2. [r EXCEPT !.tokens = x, !.pc = p]
        = [pc |-> p, form |-> c.form, request |-> c.request,
           plan |-> c.plan, tokens |-> x, traced |-> c.traced]
  <2> DEFINE a == c.pc  b == c.form  d == c.request  e == c.plan  f == c.tokens  g == c.traced
             q == [pc |-> a, form |-> b, request |-> d, plan |-> e, tokens |-> f, traced |-> g]
             o == [pc |-> a, form |-> b, request |-> d, plan |-> e, tokens |-> x, traced |-> g]
  <2> HIDE DEF a, b, d, e, f, g
  <2>1. [q EXCEPT !.tokens = x] = o
    OBVIOUS
  <2>2. [o EXCEPT !.pc = p] = [pc |-> p, form |-> b, request |-> d, plan |-> e, tokens |-> x, traced |-> g]
    OBVIOUS
  <2>3. [q EXCEPT !.tokens = x, !.pc = p] = [[q EXCEPT !.tokens = x] EXCEPT !.pc = p]
    OBVIOUS
  <2>4. [q EXCEPT !.tokens = x, !.pc = p]
          = [pc |-> p, form |-> b, request |-> d, plan |-> e, tokens |-> x, traced |-> g]
    BY <2>1, <2>2, <2>3
  <2> QED
    BY <2>4 DEF a, b, d, e, f, g
<1> QED
  BY <1>1, <1>2

-----------------------------------------------------------------------------
(* The steps that leave the traces alone.                                  *)

LEMMA StartKeeps ==
  ASSUME PackInv, NEW form \in Forms, NEW request \in Requests, NEW traced \in BOOLEAN,
         Start(form, request, traced)
  PROVE  PackInv'
<1>1. /\ command' = [pc |-> "page", form |-> form, request |-> request, plan |-> <<>>,
                     tokens |-> 0, traced |-> traced]
      /\ command.pc = "idle"
      /\ UNCHANGED <<stored, options, call, prior, held, traces, patch>>
  BY DEF Start, Resting, vars
<1>2. count' = [commands |-> count.commands + 1, patches |-> count.patches] /\ count.commands \in Nat
  BY DEF Start, PackInv, TracesCounted
<1>3. TracesSound'
  BY <1>1, TracesStay DEF PackInv
<1>4. PatchesSound'
  BY <1>1, PatchesStay DEF PackInv
<1>5. TracesCounted'
  <2>1. Len(traces) \in Nat
    BY AppendTo DEF PackInv, TracesSound
  <2>2. Len(traces) <= count.commands
    BY DEF PackInv, TracesCounted
  <2> QED
    BY <1>1, <1>2, <2>1, <2>2 DEF TracesCounted
<1>6. CommandSound'
  BY <1>1 DEF PackInv, CommandSound
<1>7. CallSound'
  BY <1>1 DEF CallSound
<1> QED
  BY <1>3, <1>4, <1>5, <1>6, <1>7 DEF PackInv

(* Whatever plan a command goes on with, its ids are blocks. *)
LEMMA PlannedIds ==
  ASSUME PackInv, NEW plan, Planned(plan)
  PROVE  Ids(plan) \in Seq(BlockId)
<1>1. CASE plan \in Plans
  BY <1>1, PlansAssumption
<1>2. CASE plan = [i \in DOMAIN held |-> [id |-> held[i].id, note |-> None]]
  <2>1. Ids(plan) = Ids(held)
    BY <1>2 DEF Ids
  <2> QED
    BY <2>1 DEF PackInv, CommandSound
<1> QED
  BY <1>1, <1>2 DEF Planned

LEMMA PageKeeps == ASSUME PackInv, Page PROVE PackInv'
<1>1. /\ UNCHANGED <<stored, options, call, prior, traces, patch, count>>
      /\ command.pc = "page" /\ IsCommand(command)
  BY DEF Page, vars, PackInv, CommandSound, IsCommand
<1>2. TracesSound'
  BY <1>1, TracesStay DEF PackInv
<1>3. PatchesSound'
  BY <1>1, PatchesStay DEF PackInv
<1>4. TracesCounted'
  BY <1>1, CountsStay DEF PackInv
<1>5. CASE Working("failed") /\ UNCHANGED held
  <2>1. command' = [pc |-> "failed", form |-> command.form, request |-> command.request,
                    plan |-> command.plan, tokens |-> command.tokens, traced |-> command.traced]
    BY <1>1, <1>5, CommandWorks DEF Working
  <2>2. CommandSound'
    BY <2>1, <1>1, <1>5 DEF PackInv, CommandSound
  <2>3. CallSound'
    BY <2>1 DEF CallSound
  <2> QED
    BY <1>2, <1>3, <1>4, <2>2, <2>3 DEF PackInv
<1>6. ASSUME NEW plan, Planned(plan),
             command' = [command EXCEPT !.pc = IF command.form = "page" THEN "done" ELSE "pack",
                                        !.plan = plan],
             held' = IF command.form = "page" THEN plan ELSE held
      PROVE  PackInv'
  <2> DEFINE p == IF command.form = "page" THEN "done" ELSE "pack"
  <2>1. command' = [pc |-> p, form |-> command.form, request |-> command.request,
                    plan |-> plan, tokens |-> command.tokens, traced |-> command.traced]
    BY <1>1, <1>6, CommandPlans
  <2>2. p \in {"done", "pack"}
    OBVIOUS
  <2> HIDE DEF p
  <2>3. Ids(plan) \in Seq(BlockId) /\ Ids(held) \in Seq(BlockId)
    BY <1>6, PlannedIds DEF PackInv, CommandSound
  <2>4. Ids(held') \in Seq(BlockId)
    BY <2>3, <1>6
  <2>5. CommandSound'
    BY <2>1, <2>2, <2>3, <2>4 DEF CommandSound, Ids
  <2>6. CallSound'
    BY <2>1, <2>2 DEF CallSound
  <2> QED
    BY <1>2, <1>3, <1>4, <2>5, <2>6 DEF PackInv
<1> QED
  BY <1>5, <1>6 DEF Page

(* The packer is called for what the command asks, the second time for     *)
(* messages.                                                               *)
LEMMA CallKeeps ==
  ASSUME PackInv, NEW mode, Call(command.plan, command.request, mode), Working("packing"),
         UNCHANGED <<held, traces, patch, count>>,
         command.pc \in {"pack", "chat"},
         command.pc = "pack" => mode = (IF command.form \in ChatForms THEN "chat" ELSE "pack"),
         command.pc = "chat" => mode = "chat",
         command.pc = "pack" /\ command.form = "cli_chat" => mode = "pack"
  PROVE  PackInv'
<1> DEFINE todo == Ids(command.plan)
<1>1. call' = [pc |-> "fetch", options |-> options, mode |-> mode, plan |-> command.plan,
               request |-> command.request, todo |-> todo, fetched |-> <<>>,
               text |-> <<>>, messages |-> <<>>, boundary |-> 0]
  BY DEF Call, Idle, Ids
<1>2. command' = [pc |-> "packing", form |-> command.form, request |-> command.request,
                  plan |-> command.plan, tokens |-> command.tokens, traced |-> command.traced]
  BY CommandWorks DEF Working, PackInv, CommandSound, IsCommand
<1>3. UNCHANGED <<stored, options, prior>>
  BY DEF Call
<1>4. TracesSound'
  BY <1>3, TracesStay DEF PackInv
<1>5. PatchesSound'
  BY PatchesStay DEF PackInv
<1>6. TracesCounted'
  BY CountsStay DEF PackInv
<1>7. todo \in Seq(BlockId)
  BY DEF PackInv, CommandSound
<1>8. CommandSound'
  <2>1. Ids(command.plan)' = Ids(command'.plan) /\ Ids(held') = Ids(held)
    OBVIOUS
  <2>2. mode = "chat" /\ command.form = "cli_chat" => Charged(options, command)
    BY DEF PackInv, CommandSound
  <2>3. Charged(options, command) => Charged(options', command')
    BY <1>2, <1>3, ChargedAlike
  <2>4. /\ command' = [pc |-> command'.pc, form |-> command'.form, request |-> command'.request,
                       plan |-> command'.plan, tokens |-> command'.tokens, traced |-> command'.traced]
        /\ command'.pc = "packing" /\ command'.form = command.form /\ call'.mode = mode
        /\ Ids(held') \in Seq(BlockId) /\ Ids(command'.plan) \in Seq(BlockId)
    BY <1>1, <1>2, <1>7 DEF PackInv, CommandSound
  <2> QED
    BY <2>2, <2>3, <2>4 DEF CommandSound
<1>9. CallSound'
  <2>1. <<>> \in Seq(BlockId)
    OBVIOUS
  <2>2. <<>> \o todo = todo
    BY <1>7
  <2>3. \/ mode = IF command.form \in ChatForms THEN "chat" ELSE "pack"
        \/ mode = "chat" /\ command.form = "cli_chat"
    BY DEF PackInv, CommandSound
  <2> HIDE DEF todo
  <2>4. todo = Ids(command'.plan)
    BY <1>2 DEF todo
  <2> QED
    BY <1>1, <1>2, <1>3, <1>7, <2>1, <2>2, <2>3, <2>4 DEF CallSound
<1> QED
  BY <1>4, <1>5, <1>6, <1>8, <1>9 DEF PackInv

LEMMA PackKeeps == ASSUME PackInv, Pack PROVE PackInv'
<1>1. "cli_chat" \notin ChatForms
  BY DEF ChatForms
<1> QED
  BY <1>1, CallKeeps DEF Pack

LEMMA PackChatKeeps == ASSUME PackInv, PackChat PROVE PackInv'
BY CallKeeps DEF PackChat

(* A call, one field at a time.                                            *)
IsCall(c) ==
  c = [pc |-> c.pc, options |-> c.options, mode |-> c.mode, plan |-> c.plan,
       request |-> c.request, todo |-> c.todo, fetched |-> c.fetched,
       text |-> c.text, messages |-> c.messages, boundary |-> c.boundary]

(* A call with a field changed keeps the others. *)
SameCall(c, d) ==
  /\ IsCall(d)
  /\ d.options = c.options /\ d.mode = c.mode /\ d.plan = c.plan /\ d.request = c.request

HasRead(c, d, t, f) ==
  SameCall(c, d) /\ d.pc = c.pc /\ d.todo = t /\ d.fetched = f

HasPacked(c, d, p, x, m, b) ==
  /\ SameCall(c, d) /\ d.pc = p /\ d.text = x /\ d.fetched = c.fetched
  /\ d.messages = m /\ d.boundary = b

LEMMA CallEnds ==
  ASSUME NEW c, IsCall(c), NEW p
  PROVE  SameCall(c, [c EXCEPT !.pc = p]) /\ [c EXCEPT !.pc = p].pc = p
<1> DEFINE names == {"pc", "options", "mode", "plan", "request", "todo", "fetched",
                     "text", "messages", "boundary"}
           d == [c EXCEPT !.pc = p]
<1>1. DOMAIN c = names
  BY DEF IsCall
<1>2. DOMAIN d = names /\ d = [n \in names |-> d[n]]
  BY <1>1
<1>3. IsCall(d)
  <2> HIDE DEF d
  <2> QED
    BY <1>2 DEF IsCall
<1> QED
  BY <1>1, <1>3 DEF SameCall

LEMMA CallReads ==
  ASSUME NEW c, IsCall(c), NEW t, NEW f
  PROVE  HasRead(c, [c EXCEPT !.todo = t, !.fetched = f], t, f)
<1> DEFINE names == {"pc", "options", "mode", "plan", "request", "todo", "fetched",
                     "text", "messages", "boundary"}
           d == [c EXCEPT !.todo = t, !.fetched = f]
<1>1. DOMAIN c = names
  BY DEF IsCall
<1>2. DOMAIN d = names /\ d = [n \in names |-> d[n]]
  BY <1>1
<1>3. IsCall(d)
  <2> HIDE DEF d
  <2> QED
    BY <1>2 DEF IsCall
<1> QED
  BY <1>1, <1>3 DEF SameCall, HasRead

LEMMA CallPacks ==
  ASSUME NEW c, IsCall(c), NEW p, NEW x, NEW m, NEW b
  PROVE  HasPacked(c, [c EXCEPT !.pc = p, !.text = x, !.messages = m, !.boundary = b], p, x, m, b)
<1> DEFINE names == {"pc", "options", "mode", "plan", "request", "todo", "fetched",
                     "text", "messages", "boundary"}
           d == [c EXCEPT !.pc = p, !.text = x, !.messages = m, !.boundary = b]
<1>1. DOMAIN c = names
  BY DEF IsCall
<1>2. DOMAIN d = names /\ d = [n \in names |-> d[n]]
  BY <1>1
<1>3. IsCall(d)
  <2> HIDE DEF d
  <2> QED
    BY <1>2 DEF IsCall
<1> QED
  BY <1>1, <1>3 DEF SameCall, HasPacked

(* Whatever the packer does within a call, the command only sees its call. *)
LEMMA PackerKeeps ==
  ASSUME PackInv, UNCHANGED cvars, UNCHANGED options, CallSound',
         command.pc = "packing" => call'.mode = call.mode
  PROVE  PackInv'
<1>1. UNCHANGED <<command, held, traces, patch, count>>
  BY DEF cvars
<1>2. TracesSound' /\ PatchesSound' /\ TracesCounted'
  BY <1>1, TracesStay, PatchesStay, CountsStay DEF PackInv
<1>3. CommandSound'
  <2>1. command.pc = "trace" => Charged(options', command')
    BY <1>1 DEF PackInv, CommandSound
  <2>2. command.pc = "chat" \/ (command.pc = "packing" /\ command.form = "cli_chat" /\ call'.mode = "chat")
          => Charged(options', command')
    BY <1>1 DEF PackInv, CommandSound
  <2> QED
    BY <1>1, <2>1, <2>2 DEF PackInv, CommandSound
<1> QED
  BY <1>2, <1>3 DEF PackInv

LEMMA FetchKeeps == ASSUME PackInv, Fetch, UNCHANGED cvars PROVE PackInv'
<1>1. UNCHANGED options /\ command' = command
  BY DEF Fetch, cvars
<1>2. CASE command.pc # "packing"
  <2>1. CallSound'
    BY <1>1, <1>2 DEF CallSound
  <2> QED
    BY <1>1, <1>2, <2>1, PackerKeeps
<1>3. CASE command.pc = "packing"
  <2>1. /\ IsCall(call) /\ call.pc = "fetch" /\ call.todo # <<>>
        /\ call.options = options /\ call.plan = command.plan /\ call.request = command.request
        /\ call.fetched \in Seq(BlockId) /\ call.todo \in Seq(BlockId)
        /\ call.fetched \o call.todo = Ids(command.plan)
        /\ \/ call.mode = IF command.form \in ChatForms THEN "chat" ELSE "pack"
           \/ call.mode = "chat" /\ command.form = "cli_chat"
    BY <1>3 DEF PackInv, CallSound, IsCall, Fetch
  <2>2. CASE call' = [call EXCEPT !.todo = Tail(@), !.fetched = Append(@, Head(call.todo))]
    <3> DEFINE t == Tail(call.todo)  f == Append(call.fetched, Head(call.todo))
    <3>1. f \in Seq(BlockId) /\ t \in Seq(BlockId) /\ f \o t = Ids(command.plan)
      BY <2>1, MoveOne
    <3>2. call' = [call EXCEPT !.todo = t, !.fetched = f]
      BY <2>2
    <3> HIDE DEF t, f
    <3>3. /\ IsCall(call') /\ call'.pc = "fetch" /\ call'.todo = t /\ call'.fetched = f
          /\ call'.options = call.options /\ call'.mode = call.mode
          /\ call'.plan = call.plan /\ call'.request = call.request
      <4>1. HasRead(call, [call EXCEPT !.todo = t, !.fetched = f], t, f)
        BY <2>1, CallReads
      <4>2. HasRead(call, call', t, f)
        BY <4>1, <3>2
      <4> QED
        BY <2>1, <4>2 DEF HasRead, SameCall
    <3>4. CallSound'
      BY <1>1, <2>1, <3>1, <3>3 DEF CallSound, IsCall, Ids
    <3> QED
      BY <1>1, <3>3, <3>4, PackerKeeps
  <2>3. CASE call' = [call EXCEPT !.pc = "storage"]
    <3>1. /\ IsCall(call') /\ call'.pc = "storage"
          /\ call'.options = call.options /\ call'.mode = call.mode
          /\ call'.plan = call.plan /\ call'.request = call.request
      <4>1. SameCall(call, [call EXCEPT !.pc = "storage"]) /\ [call EXCEPT !.pc = "storage"].pc = "storage"
        BY <2>1, CallEnds
      <4>2. SameCall(call, call') /\ call'.pc = "storage"
        BY <2>3, <4>1
      <4> QED
        BY <4>2 DEF SameCall
    <3>2. CallSound'
      BY <1>1, <2>1, <3>1 DEF CallSound, IsCall
    <3> QED
      BY <1>1, <3>1, <3>2, PackerKeeps
  <2> QED
    BY <2>2, <2>3 DEF Fetch
<1> QED
  BY <1>2, <1>3

LEMMA RenderKeeps == ASSUME PackInv, Render, UNCHANGED cvars PROVE PackInv'
<1>1. UNCHANGED options /\ command' = command
  BY DEF Render, cvars
<1>2. CASE command.pc # "packing"
  <2>1. CallSound'
    BY <1>1, <1>2 DEF CallSound
  <2> QED
    BY <1>1, <1>2, <2>1, PackerKeeps
<1>3. CASE command.pc = "packing"
  <2>1. /\ IsCall(call) /\ call.pc = "fetch" /\ call.todo = <<>>
        /\ call.options = options /\ call.plan = command.plan /\ call.request = command.request
        /\ call.fetched \in Seq(BlockId)
        /\ call.fetched \o call.todo = Ids(command.plan)
        /\ \/ call.mode = IF command.form \in ChatForms THEN "chat" ELSE "pack"
           \/ call.mode = "chat" /\ command.form = "cli_chat"
    BY <1>3 DEF PackInv, CallSound, IsCall, Render
  <2>2. call.fetched = Ids(command.plan)
    BY <2>1, AllRead
  <2>3. ASSUME NEW p \in {"storage", "tokenizer", "budget"}, call' = [call EXCEPT !.pc = p]
        PROVE  PackInv'
    <3>1. /\ IsCall(call') /\ call'.pc = p
          /\ call'.options = call.options /\ call'.mode = call.mode
          /\ call'.plan = call.plan /\ call'.request = call.request
      <4>1. SameCall(call, [call EXCEPT !.pc = p]) /\ [call EXCEPT !.pc = p].pc = p
        BY <2>1, CallEnds
      <4>2. SameCall(call, call') /\ call'.pc = p
        BY <2>3, <4>1
      <4> QED
        BY <4>2 DEF SameCall
    <3>2. CallSound'
      BY <1>1, <2>1, <2>3, <3>1 DEF CallSound, IsCall
    <3> QED
      BY <1>1, <3>1, <3>2, PackerKeeps
  <2>4. ASSUME NEW m, NEW b,
               call' = [call EXCEPT !.pc = "packed", !.text = Text(call), !.messages = m, !.boundary = b]
        PROVE  PackInv'
    <3>1. /\ IsCall(call') /\ call'.pc = "packed" /\ call'.text = Text(call)
          /\ call'.fetched = call.fetched
          /\ call'.options = call.options /\ call'.mode = call.mode
          /\ call'.plan = call.plan /\ call'.request = call.request
      <4> DEFINE x == Text(call)
      <4> HIDE DEF x
      <4>1. HasPacked(call, [call EXCEPT !.pc = "packed", !.text = x, !.messages = m, !.boundary = b],
                      "packed", x, m, b)
        BY <2>1, CallPacks
      <4>2. HasPacked(call, call', "packed", x, m, b)
        BY <4>1, <2>4 DEF x
      <4> QED
        BY <4>2 DEF HasPacked, SameCall, x
    <3>2. Input(call') = Input(call)
      BY <3>1 DEF Input
    <3>3. Text(call') = Text(call)
      BY <3>2 DEF Text
    <3>4. CallSound'
      BY <1>1, <2>1, <2>2, <3>1, <3>3 DEF CallSound, IsCall, Ids
    <3> QED
      BY <1>1, <3>1, <3>4, PackerKeeps
  <2> DEFINE M == IF call.mode = "pack" THEN <<>> ELSE Messages(Input(call))
             B == IF call.mode = "pack" THEN 0 ELSE Boundary(Input(call))
  <2>5. \/ \E p \in {"storage", "tokenizer", "budget"} : call' = [call EXCEPT !.pc = p]
        \/ call' = [call EXCEPT !.pc = "packed", !.text = Text(call), !.messages = M, !.boundary = B]
    BY <1>3 DEF Render
  <2> HIDE DEF M, B
  <2> QED
    BY <2>3, <2>4, <2>5
<1> QED
  BY <1>2, <1>3

(* A prompt that came out of the packing has the tokens its trace will     *)
(* give; the messages of a second packing leave those of the first.        *)
LEMMA ReturnKeeps == ASSUME PackInv, PackerReturns PROVE PackInv'
<1>1. /\ command.pc = "packing" /\ IsCommand(command)
      /\ UNCHANGED <<stored, options, held, traces, patch, count>>
      /\ call' = Idle
  BY DEF PackerReturns, Return, PackInv, CommandSound, IsCommand
<1>2. TracesSound' /\ PatchesSound'
  BY <1>1, TracesStay, PatchesStay DEF PackInv
<1>3. TracesCounted'
  BY <1>1, CountsStay DEF PackInv
<1>4. CASE call.pc # "packed"
  <2>1. command' = [pc |-> "failed", form |-> command.form, request |-> command.request,
                    plan |-> command.plan, tokens |-> command.tokens, traced |-> command.traced]
    BY <1>1, <1>4, CommandWorks DEF PackerReturns
  <2>2. CommandSound' /\ CallSound'
    BY <1>1, <2>1 DEF PackInv, CommandSound, CallSound
  <2> QED
    BY <1>2, <1>3, <2>2 DEF PackInv
<1>5. CASE call.pc = "packed"
  <2> DEFINE kept == call.mode = "chat" /\ command.form = "cli_chat"
             n == IF kept THEN command.tokens ELSE Charge(call, call.text)
             p == IF command.form = "cli_chat" /\ call.mode = "pack" THEN "chat"
                  ELSE IF command.traced THEN "trace" ELSE "done"
  <2>1. command' = [pc |-> p, form |-> command.form, request |-> command.request,
                    plan |-> command.plan, tokens |-> n, traced |-> command.traced]
    <3>1. command' = [command EXCEPT !.tokens = n, !.pc = p]
      BY <1>5 DEF PackerReturns
    <3> HIDE DEF n, p
    <3> QED
      BY <1>1, <3>1, CommandReturns
  <2>2. Charged(options, command')
    <3>1. CASE kept
      <4>1. Charged(options, command)
        BY <1>1, <3>1 DEF PackInv, CommandSound
      <4> QED
        BY <2>1, <3>1, <4>1, ChargedAlike
    <3>2. CASE ~kept
      <4>1. /\ call.options = options /\ call.plan = command.plan /\ call.request = command.request
            /\ call.fetched = Ids(command.plan) /\ call.text = Text(call)
            /\ call.mode = IF command.form \in ChatForms THEN "chat" ELSE "pack"
        BY <1>1, <1>5, <3>2 DEF PackInv, CallSound
      <4>2. /\ call.plan = command'.plan /\ call.request = command'.request
            /\ call.fetched = Ids(command'.plan)
            /\ call.mode = IF command'.form \in ChatForms THEN "chat" ELSE "pack"
        BY <2>1, <4>1
      <4>3. Charge(Stood(options, command'), Text(Stood(options, command'))) = Charge(call, Text(call))
        BY <4>1, <4>2, StandsForCall
      <4> QED
        BY <2>1, <3>2, <4>1, <4>3 DEF Charged
    <3> QED
      BY <3>1, <3>2
  <2>3. p = "chat" => command.form = "cli_chat"
    OBVIOUS
  <2>4. p \in {"chat", "trace", "done"}
    OBVIOUS
  <2> HIDE DEF n, p
  <2>5. Ids(command'.plan) \in Seq(BlockId)
    BY <1>1, <2>1 DEF PackInv, CommandSound
  <2>6. CommandSound'
    BY <1>1, <2>1, <2>2, <2>3, <2>4, <2>5 DEF PackInv, CommandSound
  <2>7. CallSound'
    BY <2>1, <2>4 DEF CallSound
  <2> QED
    BY <1>2, <1>3, <2>6, <2>7 DEF PackInv
<1> QED
  BY <1>4, <1>5

(* Blocks other callers put or delete are no part of a command. *)
LEMMA OthersKeep ==
  ASSUME PackInv, NEW b, OtherPut(b) \/ OtherDelete(b), UNCHANGED cvars
  PROVE  PackInv'
<1>1. UNCHANGED <<options, call, command>>
  BY DEF OtherPut, OtherDelete, cvars
<1>2. CallSound'
  BY <1>1 DEF PackInv, CallSound
<1> QED
  BY <1>1, <1>2, PackerKeeps

LEMMA EndKeeps == ASSUME PackInv, End PROVE PackInv'
<1>1. /\ command' = [pc |-> "idle", form |-> None, request |-> None, plan |-> <<>>,
                     tokens |-> 0, traced |-> FALSE]
      /\ UNCHANGED <<stored, options, call, prior, held, traces, patch, count>>
  BY DEF End, Resting, vars
<1>2. TracesSound' /\ PatchesSound' /\ TracesCounted'
  BY <1>1, TracesStay, PatchesStay, CountsStay DEF PackInv
<1>3. CommandSound' /\ CallSound'
  BY <1>1 DEF PackInv, CommandSound, CallSound
<1> QED
  BY <1>2, <1>3 DEF PackInv

-----------------------------------------------------------------------------
(* The steps that change traces or patches.                                *)

(* A new trace stands behind the ones there are.                           *)
LEMMA TraceKeeps == ASSUME PackInv, Trace PROVE PackInv'
<1>1. /\ command.pc = "trace" /\ IsCommand(command)
      /\ UNCHANGED <<stored, options, call, prior, held, patch, count>>
  BY DEF Trace, vars, PackInv, CommandSound, IsCommand
<1>2. ASSUME NEW p \in {"failed", "done"}, Working(p)
      PROVE  command'.pc = p /\ CommandSound' /\ CallSound'
  <2>1. command' = [pc |-> p, form |-> command.form, request |-> command.request,
                    plan |-> command.plan, tokens |-> command.tokens, traced |-> command.traced]
    BY <1>1, <1>2, CommandWorks DEF Working
  <2>2. CommandSound'
    BY <1>1, <1>2, <2>1 DEF PackInv, CommandSound
  <2>3. CallSound'
    BY <1>2, <2>1 DEF CallSound
  <2> QED
    BY <2>1, <2>2, <2>3
<1>3. CASE Working("failed") /\ UNCHANGED traces
  <2>1. TracesSound' /\ PatchesSound'
    BY <1>1, <1>3, TracesStay, PatchesStay DEF PackInv
  <2>2. TracesCounted'
    BY <1>1, <1>3, CountsStay DEF PackInv
  <2> QED
    BY <1>2, <1>3, <2>1, <2>2 DEF PackInv
<1>4. CASE Working("done") /\ traces' = Append(traces, TraceRecord)
  <2> DEFINE r == TraceRecord
  <2>1. /\ traces' \in Seq(Range(traces'))
        /\ Len(traces) \in Nat /\ Len(traces') = Len(traces) + 1
        /\ DOMAIN traces = 1..Len(traces) /\ DOMAIN traces' = 1..(Len(traces) + 1)
        /\ \A i \in 1..Len(traces) : traces'[i] = traces[i]
        /\ traces'[Len(traces) + 1] = r
    <3> HIDE DEF r
    <3> QED
      BY <1>4, AppendTo DEF PackInv, TracesSound, r
  <2>2. IsRecord(r) /\ r.output = r.counted
    BY DEF TraceRecord, IsRecord
  <2>3. Charged(options', r)
    <3>1. Charged(options, command)
      BY <1>1 DEF PackInv, CommandSound
    <3>2. /\ r.form = command.form /\ r.plan = command.plan /\ r.request = command.request
          /\ r.tokens = command.tokens
      BY DEF TraceRecord
    <3> QED
      BY <1>1, <3>1, <3>2, ChargedAlike
  <2> HIDE DEF r
  <2>4. \A c \in DOMAIN traces' : c \in DOMAIN traces \/ c = Len(traces) + 1
    BY <2>1
  <2>5. \A c \in DOMAIN traces : traces'[c] = traces[c] /\ c \in DOMAIN traces'
    BY <2>1
  <2>6. TracesSound'
    <3>1. ASSUME NEW c \in DOMAIN traces'
          PROVE  IsRecord(traces'[c]) /\ traces'[c].output = traces'[c].counted /\ Charged(options', traces'[c])
      <4>1. CASE c \in DOMAIN traces
        BY <1>1, <2>5, <4>1 DEF PackInv, TracesSound
      <4>2. CASE c = Len(traces) + 1
        BY <2>1, <2>2, <2>3, <4>2
      <4> QED
        BY <2>4, <4>1, <4>2
    <3> QED
      BY <2>1, <3>1 DEF TracesSound
  <2>7. PatchesSound'
    BY <1>1, <2>5 DEF PackInv, PatchesSound
  <2>8. TracesCounted'
    <3>1. command'.pc = "done"
      BY <1>2, <1>4
    <3>2. Len(traces) < count.commands /\ count.commands \in Nat
      BY <1>1 DEF PackInv, TracesCounted
    <3>3. Len(traces') <= count.commands
      BY <2>1, <3>2
    <3> QED
      BY <1>1, <3>1, <3>2, <3>3 DEF PackInv, TracesCounted
  <2> QED
    BY <1>2, <1>4, <2>6, <2>7, <2>8 DEF PackInv
<1> QED
  BY <1>3, <1>4 DEF Trace

LEMMA FetchTraceKeeps ==
  ASSUME PackInv, NEW a \in Agents, NEW c \in DOMAIN traces, FetchTrace(a, c)
  PROVE  PackInv'
<1>1. /\ patch' = [patch EXCEPT ![a] = [pc |-> "fetched", call |-> c, record |-> traces[c]]]
      /\ UNCHANGED <<stored, options, call, prior, command, held, traces>>
      /\ count' = [count EXCEPT !.patches = @ + 1]
  BY DEF FetchTrace, vars
<1>2. count' = [commands |-> count.commands, patches |-> count.patches + 1]
  BY <1>1 DEF PackInv, TracesCounted
<1>3. TracesSound'
  BY <1>1, TracesStay DEF PackInv
<1>4. PatchesSound'
  <2>1. ASSUME NEW b \in Agents
        PROVE  /\ patch'[b] = [pc |-> patch'[b].pc, call |-> patch'[b].call, record |-> patch'[b].record]
               /\ patch'[b].pc = "fetched" =>
                    /\ patch'[b].call \in DOMAIN traces
                    /\ IsRecord(patch'[b].record)
                    /\ Unpatched(patch'[b].record) = Unpatched(traces[patch'[b].call])
    <3>1. CASE patch'[b] = [pc |-> "fetched", call |-> c, record |-> traces[c]]
      BY <3>1 DEF PackInv, TracesSound
    <3>2. CASE patch'[b] = patch[b]
      BY <3>2 DEF PackInv, PatchesSound
    <3> QED
      BY <1>1, <3>1, <3>2
  <2> QED
    BY <1>1, <2>1 DEF PatchesSound
<1>5. TracesCounted'
  BY <1>1, <1>2 DEF PackInv, TracesCounted
<1>6. CommandSound' /\ CallSound'
  BY <1>1 DEF PackInv, CommandSound, CallSound
<1> QED
  BY <1>3, <1>4, <1>5, <1>6 DEF PackInv

(* What an agent writes differs from the trace of its call in the output   *)
(* and the count of that only.                                             *)
Patched(a) == [patch[a].record EXCEPT !.output = a, !.counted = a]

LEMMA PatchedSound ==
  ASSUME PackInv, NEW a \in Agents, patch[a].pc = "fetched"
  PROVE  /\ patch[a].call \in DOMAIN traces
         /\ IsRecord(Patched(a)) /\ Patched(a).output = Patched(a).counted
         /\ Charged(options, Patched(a))
         /\ Unpatched(Patched(a)) = Unpatched(traces[patch[a].call])
<1> DEFINE t == patch[a].record  u == traces[patch[a].call]  v == Patched(a)
<1>1. /\ patch[a].call \in DOMAIN traces
      /\ IsRecord(t) /\ IsRecord(u) /\ Unpatched(t) = Unpatched(u) /\ Charged(options, u)
  BY DEF PackInv, PatchesSound, TracesSound
<1>2. v = [form |-> t.form, plan |-> t.plan, request |-> t.request,
           tokens |-> t.tokens, output |-> a, counted |-> a]
  BY <1>1, PatchOf DEF Patched
<1> HIDE DEF t, u, v
<1>3. /\ IsRecord(v) /\ v.output = v.counted
      /\ v.form = t.form /\ v.plan = t.plan /\ v.request = t.request /\ v.tokens = t.tokens
  BY <1>2 DEF IsRecord
<1>4. u.form = t.form /\ u.plan = t.plan /\ u.request = t.request /\ u.tokens = t.tokens
  BY <1>1, UnpatchedFields
<1>5. Charged(options, v)
  BY <1>1, <1>3, <1>4, ChargedAlike
<1>6. Unpatched(v) = Unpatched(u)
  BY <1>1, <1>3, <1>4, UnpatchedFields
<1> QED
  BY <1>1, <1>3, <1>5, <1>6 DEF t, u, v

LEMMA RecordTraceKeeps ==
  ASSUME PackInv, NEW a \in Agents, RecordTrace(a)
  PROVE  PackInv'
<1>1. /\ patch[a].pc = "fetched"
      /\ UNCHANGED <<stored, options, call, prior, command, held, count>>
      /\ patch' = [patch EXCEPT ![a] = NoPatch]
  BY DEF RecordTrace, vars
<1>2. CommandSound' /\ CallSound'
  BY <1>1 DEF PackInv, CommandSound, CallSound
<1>3. ASSUME NEW b \in Agents
      PROVE  patch'[b] = NoPatch \/ patch'[b] = patch[b]
  BY <1>1
<1>4. CASE UNCHANGED traces
  <2>1. TracesSound' /\ TracesCounted'
    BY <1>1, <1>4, TracesStay, CountsStay DEF PackInv
  <2>2. PatchesSound'
    BY <1>3, <1>4 DEF PackInv, PatchesSound, NoPatch
  <2> QED
    BY <1>2, <2>1, <2>2 DEF PackInv
<1>5. CASE traces' = [traces EXCEPT ![patch[a].call] =
                        [patch[a].record EXCEPT !.output = a, !.counted = a]]
  <2> DEFINE k == patch[a].call  x == Patched(a)
  <2>1. traces' = [traces EXCEPT ![k] = x]
    BY <1>5 DEF Patched
  <2>2. /\ k \in DOMAIN traces /\ IsRecord(x) /\ x.output = x.counted /\ Charged(options, x)
        /\ Unpatched(x) = Unpatched(traces[k])
    BY <1>1, PatchedSound
  <2> HIDE DEF k, x
  <2>3. traces \in Seq(Range(traces))
    BY DEF PackInv, TracesSound
  <2>4. /\ traces' \in Seq(Range(traces')) /\ DOMAIN traces' = DOMAIN traces
        /\ Len(traces') = Len(traces) /\ traces'[k] = x
        /\ \A i \in DOMAIN traces \ {k} : traces'[i] = traces[i]
    BY <2>1, <2>2, <2>3, ReplaceIn
  <2>5. TracesSound'
    <3>1. ASSUME NEW c \in DOMAIN traces'
          PROVE  IsRecord(traces'[c]) /\ traces'[c].output = traces'[c].counted /\ Charged(options', traces'[c])
      <4>1. CASE c = k
        BY <1>1, <2>2, <2>4, <4>1
      <4>2. CASE c # k
        BY <1>1, <2>4, <4>2 DEF PackInv, TracesSound
      <4> QED
        BY <4>1, <4>2
    <3> QED
      BY <2>4, <3>1 DEF TracesSound
  <2>6. \A c \in DOMAIN traces : Unpatched(traces'[c]) = Unpatched(traces[c])
    BY <2>2, <2>4
  <2>7. PatchesSound'
    <3>1. ASSUME NEW b \in Agents
          PROVE  /\ patch'[b] = [pc |-> patch'[b].pc, call |-> patch'[b].call, record |-> patch'[b].record]
                 /\ patch'[b].pc = "fetched" =>
                      /\ patch'[b].call \in DOMAIN traces'
                      /\ IsRecord(patch'[b].record)
                      /\ Unpatched(patch'[b].record) = Unpatched(traces'[patch'[b].call])
      <4>1. CASE patch'[b] = NoPatch
        BY <4>1 DEF NoPatch
      <4>2. CASE patch'[b] = patch[b]
        BY <2>4, <2>6, <4>2 DEF PackInv, PatchesSound
      <4> QED
        BY <1>3, <4>1, <4>2
    <3> QED
      BY <3>1 DEF PatchesSound
  <2>8. TracesCounted'
    BY <1>1, <2>4 DEF PackInv, TracesCounted
  <2> QED
    BY <1>2, <2>5, <2>7, <2>8 DEF PackInv
<1> QED
  BY <1>4, <1>5 DEF RecordTrace

-----------------------------------------------------------------------------
(* Traces.                                                                 *)

LEMMA PackStep == PackInv /\ [CNext]_allVars => PackInv'
<1> SUFFICES ASSUME PackInv, [CNext]_allVars
             PROVE  PackInv'
  OBVIOUS
<1>1. CASE UNCHANGED allVars
  <2>1. UNCHANGED cvars /\ UNCHANGED <<options, call, command>>
    BY <1>1 DEF allVars, vars, cvars
  <2>2. CallSound'
    BY <2>1 DEF PackInv, CallSound
  <2> QED
    BY <2>1, <2>2, PackerKeeps
<1>2. CASE \E form \in Forms, request \in Requests, traced \in BOOLEAN : Start(form, request, traced)
  BY <1>2, StartKeeps
<1>3. CASE Page \/ Pack \/ PackChat \/ PackerStep \/ PackerReturns \/ Trace \/ End
  BY <1>3, PageKeeps, PackKeeps, PackChatKeeps, FetchKeeps, RenderKeeps, ReturnKeeps, TraceKeeps, EndKeeps
     DEF PackerStep
<1>4. CASE \E a \in Agents : (\E c \in DOMAIN traces : FetchTrace(a, c)) \/ RecordTrace(a)
  BY <1>4, FetchTraceKeeps, RecordTraceKeeps
<1>5. CASE (\E b \in Volatile : OtherPut(b) \/ OtherDelete(b)) /\ UNCHANGED cvars
  BY <1>5, OthersKeep
<1> QED
  BY <1>1, <1>2, <1>3, <1>4, <1>5 DEF CNext

(* Whatever other callers do to the store between a page, the first and    *)
(* the second packing and the trace, and however patches of traces race    *)
(* with it, the command goes on with the plan and request it started with. *)
THEOREM PackInvariant == CSpec => []PackInv
<1> QED
  BY PackInit, PackStep, PTL DEF CSpec

(* TraceOfWholeCommand of the prompt run: a trace is there only for a      *)
(* command all of whose prompts were rendered, its tokens are those of its *)
(* plan as the string it stands for, and output and count belong together  *)
(* whichever of two racing patches wrote last.                             *)
THEOREM TraceOfWholeCommandAlways == CSpec => []TraceOfWholeCommand
<1>1. PackInv => TraceOfWholeCommand
  BY DEF PackInv, TracesSound, TracesCounted, Charged, TraceOfWholeCommand
<1> QED
  BY <1>1, PackInvariant, PTL

(* PatchKeepsCall of the prompt run: recording, fetching and patching      *)
(* never lose a trace, and change no trace but the output of the one that  *)
(* was called for.                                                         *)
THEOREM PatchKeepsCallAlways == CSpec => PatchKeepsCall
<1> DEFINE Kept == /\ Len(traces) <= Len(traces')
                   /\ \A c \in DOMAIN traces :
                        /\ [traces[c] EXCEPT !.output = None, !.counted = None]
                             = [traces'[c] EXCEPT !.output = None, !.counted = None]
                        /\ traces[c] # traces'[c] => \E a \in Agents : patch[a].call = c
<1>1. PackInv /\ [CNext]_allVars => [Kept]_traces
  <2> SUFFICES ASSUME PackInv, [CNext]_allVars, traces' # traces
               PROVE  Kept
    OBVIOUS
  <2>1. Trace \/ \E a \in Agents : RecordTrace(a)
    BY DEF CNext, allVars, cvars, vars, Start, Page, Pack, PackChat, PackerStep, PackerReturns, End, FetchTrace
  <2>2. traces \in Seq(Range(traces)) /\ Len(traces) \in Nat
    BY AppendTo DEF PackInv, TracesSound
  <2>3. CASE Trace
    <3>1. traces' = Append(traces, TraceRecord)
      BY <2>3 DEF Trace
    <3>2. /\ Len(traces') = Len(traces) + 1 /\ DOMAIN traces = 1..Len(traces)
          /\ \A i \in 1..Len(traces) : traces'[i] = traces[i]
      BY <2>2, <3>1, AppendTo
    <3>3. Len(traces) <= Len(traces')
      BY <2>2, <3>2
    <3>4. ASSUME NEW c \in DOMAIN traces
          PROVE  traces[c] = traces'[c]
      BY <3>2
    <3> QED
      BY <3>3, <3>4
  <2>4. ASSUME NEW a \in Agents, RecordTrace(a)
        PROVE  Kept
    <3> DEFINE k == patch[a].call  x == Patched(a)
    <3>1. traces' = [traces EXCEPT ![k] = x] /\ patch[a].pc = "fetched"
      BY <2>4 DEF RecordTrace, Patched
    <3>2. k \in DOMAIN traces /\ Unpatched(x) = Unpatched(traces[k])
      BY <3>1, PatchedSound
    <3>3. \E b \in Agents : patch[b].call = k
      OBVIOUS
    <3> HIDE DEF k, x
    <3>4. /\ Len(traces') = Len(traces) /\ traces'[k] = x
          /\ \A i \in DOMAIN traces \ {k} : traces'[i] = traces[i]
      BY <2>2, <3>1, <3>2, ReplaceIn
    <3>5. ASSUME NEW c \in DOMAIN traces
          PROVE  /\ Unpatched(traces[c]) = Unpatched(traces'[c])
                 /\ traces[c] # traces'[c] => \E b \in Agents : patch[b].call = c
      <4>1. CASE c = k
        BY <3>2, <3>3, <3>4, <4>1
      <4>2. CASE c # k
        BY <3>4, <4>2
      <4> QED
        BY <4>1, <4>2
    <3>6. Len(traces) <= Len(traces')
      BY <2>2, <3>4
    <3>7. ASSUME NEW c \in DOMAIN traces
          PROVE  [traces[c] EXCEPT !.output = None, !.counted = None]
                   = [traces'[c] EXCEPT !.output = None, !.counted = None]
      BY <3>5, Zenon DEF Unpatched
    <3>8. ASSUME NEW c \in DOMAIN traces, traces[c] # traces'[c]
          PROVE  \E b \in Agents : patch[b].call = c
      BY <3>5, <3>8
    <3> QED
      BY <3>6, <3>7, <3>8, Zenon
  <2> QED
    BY <2>1, <2>3, <2>4
<1> QED
  BY <1>1, PackInvariant, PTL DEF CSpec, PatchKeepsCall

-----------------------------------------------------------------------------
(* Joining sequences.                                                      *)

(* FlattenSeq joins the parts one after the other.                         *)
Joins(f, parts) == f[0] = <<>> /\ \A n \in 1..Len(parts) : f[n] = f[n - 1] \o parts[n]

LEMMA FlatSteps ==
  ASSUME NEW S, NEW parts \in Seq(Seq(S))
  PROVE  \E f \in [0..Len(parts) -> Seq(S)] : Joins(f, parts) /\ FlattenSeq(parts) = f[Len(parts)]
<1> DEFINE m == Len(parts)
           step == [n \in 1..m |-> [v \in Seq(S) |-> v \o parts[n]]]
<1>1. m \in Nat /\ DOMAIN parts = 1..m /\ \A n \in 1..m : parts[n] \in Seq(S)
  OBVIOUS
<1> HIDE DEF m
<1>2. step \in [1..m -> [Seq(S) -> Seq(S)]] /\ <<>> \in Seq(S)
  <2>1. \A n \in 1..m : [v \in Seq(S) |-> v \o parts[n]] \in [Seq(S) -> Seq(S)]
    BY <1>1
  <2> QED
    BY <2>1
<1>3. PICK f \in [0..m -> Seq(S)] : Recursive(f, m, <<>>, step)
  <2> HIDE DEF step
  <2> QED
    BY <1>1, <1>2, RecursionExists
<1>4. \A n \in 1..m : n - 1 \in 0..m /\ n \in 0..m
  BY <1>1
<1>5. f[0] = <<>> /\ \A n \in 1..m : f[n] = f[n - 1] \o parts[n] /\ f[n] \in Seq(S) /\ f[n - 1] \in Seq(S)
  <2>1. f[0] = <<>> /\ \A n \in 1..m : f[n] = step[n][f[n - 1]] /\ f[n] \in Seq(S) /\ f[n - 1] \in Seq(S)
    <3> HIDE DEF step
    <3> QED
      BY <1>3, <1>4 DEF Recursive
  <2> QED
    BY <2>1
<1> HIDE DEF step
<1>6. FlattenSeq(parts) = f[m]
  <2>1. CASE m = 0
    <3>1. parts = <<>>
      BY <1>1, <2>1 DEF m
    <3> QED
      BY <1>5, <2>1, <3>1 DEF FlattenSeq, m
  <2>2. CASE m # 0
    <3> DEFINE Is(h) == h = [i \in 1..m |-> IF i = 1 THEN parts[i] ELSE h[i - 1] \o parts[i]]
               h0 == [i \in 1..m |-> f[i]]
    <3>1. PICK g : g = (CHOOSE h : Is(h)) /\ FlattenSeq(parts) = g[m]
      BY <2>2 DEF FlattenSeq, m
    <3>2. f[1] = parts[1]
      <4>1. 1 \in 1..m /\ 1 - 1 = 0
        BY <1>1, <2>2
      <4>2. f[1] = <<>> \o parts[1] /\ parts[1] \in Seq(S)
        BY <1>1, <1>5, <4>1
      <4> QED
        BY <4>2
    <3>3. \A i \in 1..m : i # 1 => i - 1 \in 1..m
      BY <1>1
    <3>4. Is(h0)
      <4>1. \A i \in 1..m : h0[i] = IF i = 1 THEN parts[i] ELSE h0[i - 1] \o parts[i]
        BY <1>5, <3>2, <3>3
      <4> QED
        BY <4>1
    <3>5. Is(g)
      <4> HIDE DEF Is, h0
      <4> QED
        BY <3>1, <3>4
    <3>6. \A i \in 1..m : g[i] = IF i = 1 THEN parts[i] ELSE g[i - 1] \o parts[i]
      BY <3>5
    <3> DEFINE T == {i \in 0..m : i # 0 => g[i] = f[i]}
    <3>7. 0 \in T
      BY <1>1
    <3>8. \A i \in 1..m : i - 1 \in T => i \in T
      <4> SUFFICES ASSUME NEW i \in 1..m, i - 1 \in T PROVE i \in T
        OBVIOUS
      <4>1. CASE i = 1
        BY <1>4, <3>2, <3>6, <4>1
      <4>2. CASE i # 1
        <5>1. i - 1 \in 1..m /\ i - 1 # 0
          BY <1>1, <3>3, <4>2
        <5>2. g[i - 1] = f[i - 1]
          BY <5>1
        <5>3. g[i] = g[i - 1] \o parts[i] /\ f[i] = f[i - 1] \o parts[i] /\ i \in 0..m
          BY <1>4, <1>5, <3>6, <4>2
        <5> QED
          BY <5>2, <5>3
      <4> QED
        BY <4>1, <4>2
    <3> HIDE DEF T
    <3>9. \A i \in 0..m : i \in T
      BY <1>1, <3>7, <3>8, InductionUpTo
    <3>10. m \in T /\ m # 0
      BY <1>1, <2>2, <3>9
    <3> QED
      BY <3>1, <3>10 DEF T
  <2> QED
    BY <2>1, <2>2
<1>7. Joins(f, parts)
  BY <1>5 DEF Joins, m
<1> QED
  BY <1>3, <1>6, <1>7 DEF m

(* Parts that are related one by one are related when they are joined.     *)
LEMMA FlatRelated ==
  ASSUME NEW S, NEW T, NEW R, <<<<>>, <<>>>> \in R,
         \A t, u \in Seq(S), s, r \in Seq(T) : <<t, s>> \in R /\ <<u, r>> \in R => <<t \o u, s \o r>> \in R,
         NEW a \in Seq(Seq(S)), NEW b \in Seq(Seq(T)), Len(a) = Len(b),
         \A n \in 1..Len(a) : <<a[n], b[n]>> \in R
  PROVE  /\ <<FlattenSeq(a), FlattenSeq(b)>> \in R
         /\ FlattenSeq(a) \in Seq(S) /\ FlattenSeq(b) \in Seq(T)
<1> DEFINE m == Len(a)
<1>1. /\ m \in Nat /\ m = Len(b)
      /\ \A n \in 1..m : a[n] \in Seq(S) /\ b[n] \in Seq(T)
  OBVIOUS
<1>2. PICK f \in [0..m -> Seq(S)] : Joins(f, a) /\ FlattenSeq(a) = f[m]
  BY FlatSteps
<1>3. PICK g \in [0..m -> Seq(T)] : Joins(g, b) /\ FlattenSeq(b) = g[m]
  BY <1>1, FlatSteps
<1> DEFINE Q == {n \in 0..m : <<f[n], g[n]>> \in R}
<1>4. 0 \in Q
  <2>1. f[0] = <<>> /\ g[0] = <<>>
    BY <1>2, <1>3 DEF Joins
  <2> QED
    BY <1>1, <2>1
<1>5. \A n \in 1..m : n - 1 \in Q => n \in Q
  <2> SUFFICES ASSUME NEW n \in 1..m, n - 1 \in Q PROVE n \in Q
    OBVIOUS
  <2>1. f[n] = f[n - 1] \o a[n] /\ g[n] = g[n - 1] \o b[n]
    BY <1>1, <1>2, <1>3 DEF Joins
  <2>2. n - 1 \in 0..m /\ n \in 0..m
    BY <1>1
  <2>3. f[n - 1] \in Seq(S) /\ g[n - 1] \in Seq(T) /\ a[n] \in Seq(S) /\ b[n] \in Seq(T)
    BY <1>1, <2>2
  <2>4. <<f[n - 1] \o a[n], g[n - 1] \o b[n]>> \in R
    BY <2>3
  <2> QED
    BY <2>1, <2>2, <2>4
<1> HIDE DEF Q, m
<1>6. m \in Q
  <2>1. \A n \in 0..m : n \in Q
    BY <1>1, <1>4, <1>5, InductionUpTo
  <2> QED
    BY <1>1, <2>1
<1>7. m \in 0..m
  BY <1>1
<1> QED
  BY <1>2, <1>3, <1>6, <1>7 DEF Q

LEMMA FlatTyped ==
  ASSUME NEW S, NEW a \in Seq(Seq(S))
  PROVE  FlattenSeq(a) \in Seq(S)
<1>1. Len(a) \in 0..Len(a)
  OBVIOUS
<1> QED
  BY <1>1, FlatSteps

(* One part more is joined at the end.                                     *)
LEMMA FlatAppend ==
  ASSUME NEW S, NEW a \in Seq(Seq(S)), NEW x \in Seq(S)
  PROVE  FlattenSeq(Append(a, x)) = FlattenSeq(a) \o x
<1> DEFINE m == Len(a)  b == Append(a, x)
<1>1. m \in Nat /\ b \in Seq(Seq(S)) /\ Len(b) = m + 1 /\ b[m + 1] = x /\ \A n \in 1..m : b[n] = a[n]
  OBVIOUS
<1> HIDE DEF b
<1>2. PICK f \in [0..m -> Seq(S)] : Joins(f, a) /\ FlattenSeq(a) = f[m]
  BY FlatSteps
<1>3. PICK g \in [0..Len(b) -> Seq(S)] : Joins(g, b) /\ FlattenSeq(b) = g[Len(b)]
  BY <1>1, FlatSteps
<1> HIDE DEF m
<1> DEFINE Q == {n \in 0..m : f[n] = g[n]}
<1>4. 0 \in Q
  BY <1>1, <1>2, <1>3 DEF Joins
<1>5. \A n \in 1..m : n - 1 \in Q => n \in Q
  <2> SUFFICES ASSUME NEW n \in 1..m, n - 1 \in Q PROVE n \in Q
    OBVIOUS
  <2>1. n \in 1..Len(b) /\ n \in 1..Len(a) /\ n \in 0..m
    BY <1>1 DEF m
  <2>2. f[n] = f[n - 1] \o a[n] /\ g[n] = g[n - 1] \o b[n]
    BY <1>2, <1>3, <2>1 DEF Joins
  <2> QED
    BY <1>1, <2>1, <2>2
<1> HIDE DEF Q
<1>6. \A n \in 0..m : n \in Q
  BY <1>1, <1>4, <1>5, InductionUpTo
<1>7. f[m] = g[m]
  <2>1. m \in 0..m
    BY <1>1
  <2> QED
    BY <1>6, <2>1 DEF Q
<1>8. m + 1 \in 1..Len(b) /\ (m + 1) - 1 = m
  <2>1. m \in Nat /\ Len(b) = m + 1
    BY <1>1
  <2> QED
    BY <2>1
<1>9. g[m + 1] = g[m] \o x
  BY <1>1, <1>3, <1>8 DEF Joins
<1> QED
  BY <1>1, <1>2, <1>3, <1>7, <1>9 DEF b

(* Joining two lists of parts joins what they join.                        *)
LEMMA FlatJoin ==
  ASSUME NEW S, NEW a \in Seq(Seq(S)), NEW b \in Seq(Seq(S))
  PROVE  FlattenSeq(a \o b) = FlattenSeq(a) \o FlattenSeq(b)
<1>0. \A x, y, z \in Seq(S) : (x \o y) \o z = x \o (y \o z)
  BY ConcatAssociative
<1> DEFINE m == Len(a)  k == Len(b)  c == a \o b
<1>1. /\ m \in Nat /\ k \in Nat /\ c \in Seq(Seq(S)) /\ Len(c) = m + k
      /\ \A n \in 1..m : c[n] = a[n]
      /\ \A n \in 1..k : c[m + n] = b[n] /\ m + n \in 1..Len(c) /\ (m + n) - 1 = m + (n - 1)
      /\ \A n \in 1..k : b[n] \in Seq(S)
  OBVIOUS
<1> HIDE DEF c
<1>2. PICK f \in [0..m -> Seq(S)] : Joins(f, a) /\ FlattenSeq(a) = f[m]
  BY FlatSteps
<1>3. PICK h \in [0..k -> Seq(S)] : Joins(h, b) /\ FlattenSeq(b) = h[k]
  BY FlatSteps
<1>4. PICK g \in [0..Len(c) -> Seq(S)] : Joins(g, c) /\ FlattenSeq(c) = g[Len(c)]
  BY <1>1, FlatSteps
<1>5. f[m] = g[m] /\ f[m] \in Seq(S)
  <2> HIDE DEF m
  <2> DEFINE Q == {n \in 0..m : f[n] = g[n]}
  <2>1. 0 \in Q
    BY <1>1, <1>2, <1>4 DEF Joins
  <2>2. \A n \in 1..m : n - 1 \in Q => n \in Q
    <3> SUFFICES ASSUME NEW n \in 1..m, n - 1 \in Q PROVE n \in Q
      OBVIOUS
    <3>1. n \in 1..Len(c) /\ n \in 1..Len(a) /\ n \in 0..m
      BY <1>1 DEF m
    <3>2. f[n] = f[n - 1] \o a[n] /\ g[n] = g[n - 1] \o c[n]
      BY <1>2, <1>4, <3>1 DEF Joins
    <3> QED
      BY <1>1, <3>1, <3>2
  <2> HIDE DEF Q
  <2>3. \A n \in 0..m : n \in Q
    BY <1>1, <2>1, <2>2, InductionUpTo
  <2>4. m \in 0..m
    BY <1>1
  <2> QED
    BY <2>3, <2>4 DEF Q
<1> HIDE DEF m, k
<1> DEFINE P == {n \in 0..k : g[m + n] = f[m] \o h[n]}
<1>6. 0 \in P
  <2>1. h[0] = <<>> /\ m + 0 = m /\ 0 \in 0..k
    BY <1>1, <1>3 DEF Joins
  <2>2. f[m] \o <<>> = f[m]
    BY <1>5
  <2> QED
    BY <1>5, <2>1, <2>2
<1>7. \A n \in 1..k : n - 1 \in P => n \in P
  <2> SUFFICES ASSUME NEW n \in 1..k, n - 1 \in P PROVE n \in P
    OBVIOUS
  <2>1. n \in 1..Len(b) /\ n \in 0..k /\ n - 1 \in 0..k
    BY <1>1 DEF k
  <2>2. h[n] = h[n - 1] \o b[n]
    BY <1>3, <2>1 DEF Joins
  <2>3. g[m + n] = g[m + (n - 1)] \o b[n]
    BY <1>1, <1>4 DEF Joins
  <2>4. g[m + (n - 1)] = f[m] \o h[n - 1]
    OBVIOUS
  <2>5. h[n - 1] \in Seq(S) /\ b[n] \in Seq(S)
    BY <1>1, <2>1
  <2>6. (f[m] \o h[n - 1]) \o b[n] = f[m] \o (h[n - 1] \o b[n])
    <3>1. f[m] \in Seq(S) /\ h[n - 1] \in Seq(S) /\ b[n] \in Seq(S)
      BY <1>5, <2>5
    <3> QED
      BY <1>0, <3>1, Zenon
  <2> QED
    BY <2>1, <2>2, <2>3, <2>4, <2>6
<1> HIDE DEF P
<1>8. k \in P
  <2>1. \A n \in 0..k : n \in P
    BY <1>1, <1>6, <1>7, InductionUpTo
  <2> QED
    BY <1>1, <2>1
<1> QED
  BY <1>1, <1>2, <1>3, <1>4, <1>8 DEF P, c

(* Parts of one element each.                                              *)
LEMMA FlatSingletons ==
  ASSUME NEW S, NEW s \in Seq(S)
  PROVE  /\ [i \in DOMAIN s |-> <<s[i]>>] \in Seq(Seq(S))
         /\ FlattenSeq([i \in DOMAIN s |-> <<s[i]>>]) = s
<1> DEFINE a == [i \in DOMAIN s |-> <<s[i]>>]
           m == Len(s)
<1>1. m \in Nat /\ DOMAIN s = 1..m /\ \A i \in 1..m : s[i] \in S /\ <<s[i]>> \in Seq(S)
  OBVIOUS
<1>2. a \in Seq(Seq(S)) /\ Len(a) = m /\ \A i \in 1..m : a[i] = <<s[i]>>
  BY <1>1
<1> HIDE DEF a
<1>3. PICK f \in [0..m -> Seq(S)] : Joins(f, a) /\ FlattenSeq(a) = f[m]
  BY <1>2, FlatSteps
<1> HIDE DEF m
<1> DEFINE Q == {n \in 0..m : Len(f[n]) = n /\ \A i \in 1..n : f[n][i] = s[i]}
<1>4. 0 \in Q
  BY <1>1, <1>3 DEF Joins
<1>5. \A n \in 1..m : n - 1 \in Q => n \in Q
  <2> SUFFICES ASSUME NEW n \in 1..m, n - 1 \in Q PROVE n \in Q
    OBVIOUS
  <2>1. n \in 0..m /\ n - 1 \in 0..m /\ n \in Nat
    BY <1>1
  <2>2. f[n] = f[n - 1] \o <<s[n]>> /\ f[n - 1] \in Seq(S) /\ s[n] \in S
    BY <1>1, <1>2, <1>3, <2>1 DEF Joins
  <2>3. Len(f[n - 1]) = n - 1 /\ \A i \in 1..(n - 1) : f[n - 1][i] = s[i]
    OBVIOUS
  <2> DEFINE u == f[n - 1]
  <2>4. Len(u \o <<s[n]>>) = n /\ \A i \in 1..n : (u \o <<s[n]>>)[i] = s[i]
    <3>1. u \in Seq(S) /\ Len(u) = n - 1 /\ \A i \in 1..(n - 1) : u[i] = s[i]
      BY <2>2, <2>3
    <3> HIDE DEF u
    <3> QED
      BY <2>1, <2>2, <3>1
  <2> QED
    BY <2>1, <2>2, <2>4
<1> HIDE DEF Q
<1>6. m \in Q
  <2>1. \A n \in 0..m : n \in Q
    BY <1>1, <1>4, <1>5, InductionUpTo
  <2> QED
    BY <1>1, <2>1
<1>7. f[m] \in Seq(S) /\ Len(f[m]) = m /\ \A i \in 1..m : f[m][i] = s[i]
  BY <1>1, <1>6 DEF Q
<1>8. f[m] = s
  BY <1>1, <1>7 DEF m
<1> QED
  BY <1>2, <1>3, <1>8 DEF a

-----------------------------------------------------------------------------
(* What a text shows of the plan.                                          *)

PieceSet(c) ==
  ({"header"} \X Range(SECTION_ORDER)) \union ({"stamp", "task"} \X {None})
    \union ({"body"} \X BlockId) \union ({"note"} \X {NoteOf(c.plan, b) : b \in BlockId})

(* Each noted block has its note right before it.                          *)
WarnedAt(c, t, i, j) ==
  /\ j \in {i - 1, i - 2} /\ j \in 1..Len(t)
  /\ t[j] = <<"note", NoteOf(c.plan, t[i][2])>>
  /\ \A k \in j..(i - 1) : ~IsBody(t[k])
Warned(c, t) ==
  \A i \in 1..Len(t) : IsBody(t[i]) /\ NoteOf(c.plan, t[i][2]) # None => \E j \in 1..Len(t) : WarnedAt(c, t, i, j)

BodyOf(t, i, s) == IsBody(t[i]) /\ Block[t[i][2]].section = s
(* f: where the text t has the blocks of section s, which are ids.         *)
At(t, s, ids, f) ==
  /\ f \in [1..Len(ids) -> 1..Len(t)]
  /\ \A k, l \in 1..Len(ids) : k < l => f[k] < f[l]
  /\ \A k \in 1..Len(ids) : t[f[k]] = <<"body", ids[k]>>
  /\ \A i \in 1..Len(t) : BodyOf(t, i, s) => \E k \in 1..Len(ids) : f[k] = i
  /\ \A k \in 1..Len(ids) : Block[ids[k]].section = s

Shown(c, s) ==
  {x \in Seq(PieceSet(c)) \X Seq(BlockId) :
     Warned(c, x[1]) /\ \E f \in [1..Len(x[2]) -> 1..Len(x[1])] : At(x[1], s, x[2], f)}

LEMMA WarnedJoin ==
  ASSUME NEW c, NEW P, NEW t \in Seq(P), NEW u \in Seq(P), Warned(c, t), Warned(c, u)
  PROVE  Warned(c, t \o u)
<1> DEFINE v == t \o u  m == Len(t)  n == Len(u)
<1>1. /\ m \in Nat /\ n \in Nat /\ Len(v) = m + n
      /\ \A i \in 1..m : v[i] = t[i]
      /\ \A i \in 1..n : v[m + i] = u[i]
  OBVIOUS
<1> HIDE DEF v, m, n
<1> SUFFICES ASSUME NEW i \in 1..(m + n), IsBody(v[i]), NoteOf(c.plan, v[i][2]) # None
             PROVE  \E j \in 1..(m + n) : WarnedAt(c, v, i, j)
  BY <1>1 DEF Warned, v
<1>2. CASE i <= m
  <2>1. i \in 1..m /\ v[i] = t[i]
    BY <1>1, <1>2
  <2>2. PICK j \in 1..m : WarnedAt(c, t, i, j)
    BY <2>1 DEF Warned, m
  <2>3. j \in 1..(m + n) /\ v[j] = t[j]
    BY <1>1
  <2>4. \A k \in j..(i - 1) : ~IsBody(v[k])
    <3> SUFFICES ASSUME NEW k \in j..(i - 1) PROVE ~IsBody(v[k])
      OBVIOUS
    <3>1. k \in 1..m
      BY <1>1, <2>1
    <3>2. ~IsBody(t[k])
      BY <2>2 DEF WarnedAt
    <3> QED
      BY <1>1, <3>1, <3>2
  <2>5. j \in {i - 1, i - 2} /\ t[j] = <<"note", NoteOf(c.plan, t[i][2])>>
    BY <2>2 DEF WarnedAt
  <2>6. WarnedAt(c, v, i, j)
    <3>1. j \in 1..Len(v) /\ v[j] = <<"note", NoteOf(c.plan, v[i][2])>>
      BY <1>1, <2>1, <2>3, <2>5
    <3> QED
      BY <2>4, <2>5, <3>1 DEF WarnedAt
  <2> QED
    BY <2>3, <2>6
<1>3. CASE ~(i <= m)
  <2> DEFINE h == i - m
  <2>1. h \in 1..n /\ i = m + h /\ v[i] = u[h]
    <3>1. h \in 1..n /\ i = m + h
      BY <1>1, <1>3
    <3> QED
      BY <1>1, <3>1
  <2> HIDE DEF h
  <2>2. PICK j \in 1..n : WarnedAt(c, u, h, j)
    BY <2>1 DEF Warned, n
  <2>3. m + j \in 1..(m + n) /\ v[m + j] = u[j]
    BY <1>1
  <2>4. j \in {h - 1, h - 2} /\ u[j] = <<"note", NoteOf(c.plan, u[h][2])>>
        /\ \A k \in j..(h - 1) : ~IsBody(u[k])
    BY <2>2 DEF WarnedAt
  <2>5. \A k \in (m + j)..(i - 1) : ~IsBody(v[k])
    <3> SUFFICES ASSUME NEW k \in (m + j)..(i - 1) PROVE ~IsBody(v[k])
      OBVIOUS
    <3> DEFINE l == k - m
    <3>1. l \in j..(h - 1) /\ l \in 1..n /\ k = m + l
      BY <1>1, <2>1
    <3> HIDE DEF l
    <3>2. ~IsBody(u[l]) /\ v[m + l] = u[l]
      BY <1>1, <2>4, <3>1
    <3> QED
      BY <3>1, <3>2
  <2>6. m + j \in {i - 1, i - 2}
    <3>1. m \in Int /\ h \in Int /\ i = m + h
      BY <1>1, <2>1
    <3>2. j = h - 1 \/ j = h - 2
      BY <2>4
    <3> QED
      BY <3>1, <3>2
  <2>7. WarnedAt(c, v, i, m + j)
    <3>1. m + j \in 1..Len(v) /\ v[m + j] = <<"note", NoteOf(c.plan, v[i][2])>>
      BY <1>1, <2>1, <2>3, <2>4
    <3> QED
      BY <2>5, <2>6, <3>1 DEF WarnedAt
  <2> QED
    BY <2>3, <2>7
<1> QED
  BY <1>2, <1>3

LEMMA AtJoin ==
  ASSUME NEW P, NEW t \in Seq(P), NEW u \in Seq(P), NEW a \in Seq(BlockId), NEW b \in Seq(BlockId),
         NEW s, NEW f, NEW g, At(t, s, a, f), At(u, s, b, g)
  PROVE  \E h \in [1..Len(a \o b) -> 1..Len(t \o u)] : At(t \o u, s, a \o b, h)
<1> DEFINE v == t \o u  m == Len(t)  n == Len(u)
           e == a \o b  p == Len(a)  q == Len(b)
           h == [k \in 1..(p + q) |-> IF k <= p THEN f[k] ELSE m + g[k - p]]
<1>1. /\ m \in Nat /\ n \in Nat /\ Len(v) = m + n
      /\ \A i \in 1..m : v[i] = t[i]
      /\ \A i \in 1..n : v[m + i] = u[i]
      /\ p \in Nat /\ q \in Nat /\ Len(e) = p + q
      /\ \A i \in 1..p : e[i] = a[i]
      /\ \A i \in 1..q : e[p + i] = b[i]
  OBVIOUS
<1>2. /\ f \in [1..p -> 1..m] /\ g \in [1..q -> 1..n]
      /\ \A k, l \in 1..p : k < l => f[k] < f[l]
      /\ \A k, l \in 1..q : k < l => g[k] < g[l]
      /\ \A k \in 1..p : t[f[k]] = <<"body", a[k]>>
      /\ \A k \in 1..q : u[g[k]] = <<"body", b[k]>>
      /\ \A i \in 1..m : BodyOf(t, i, s) => \E k \in 1..p : f[k] = i
      /\ \A i \in 1..n : BodyOf(u, i, s) => \E k \in 1..q : g[k] = i
      /\ \A k \in 1..p : Block[a[k]].section = s
      /\ \A k \in 1..q : Block[b[k]].section = s
  BY DEF At
<1> HIDE DEF v, m, n, e, p, q
<1>3. ASSUME NEW k \in 1..(p + q)
      PROVE  \/ k \in 1..p /\ e[k] = a[k] /\ h[k] = f[k] /\ f[k] \in 1..m /\ v[f[k]] = t[f[k]]
             \/ /\ k - p \in 1..q /\ k > p /\ e[k] = b[k - p] /\ h[k] = m + g[k - p]
                /\ g[k - p] \in 1..n /\ v[m + g[k - p]] = u[g[k - p]]
  <2>1. CASE k <= p
    <3>1. k \in 1..p
      BY <1>1, <2>1
    <3>2. f[k] \in 1..m /\ h[k] = f[k]
      BY <1>2, <2>1, <3>1
    <3> QED
      BY <1>1, <3>1, <3>2
  <2>2. CASE ~(k <= p)
    <3>1. k - p \in 1..q /\ k > p /\ p + (k - p) = k
      BY <1>1, <2>2
    <3>2. g[k - p] \in 1..n /\ h[k] = m + g[k - p]
      BY <1>2, <2>2, <3>1
    <3>3. e[p + (k - p)] = b[k - p]
      BY <1>1, <3>1
    <3>4. v[m + g[k - p]] = u[g[k - p]]
      BY <1>1, <3>2
    <3> QED
      BY <3>1, <3>2, <3>3, <3>4
  <2> QED
    BY <2>1, <2>2
<1>h. h = [k \in 1..(p + q) |-> h[k]]
  OBVIOUS
<1>p. /\ \A k \in 1..p : k \in 1..(p + q) /\ h[k] = f[k]
      /\ \A k \in 1..q : p + k \in 1..(p + q) /\ h[p + k] = m + g[k]
  <2>1. \A k \in 1..p : k \in 1..(p + q) /\ k <= p
    BY <1>1
  <2>2. \A k \in 1..q : p + k \in 1..(p + q) /\ ~(p + k <= p) /\ (p + k) - p = k
    BY <1>1
  <2>3. \A k \in 1..q : h[p + k] = m + g[(p + k) - p]
    BY <2>2
  <2> QED
    BY <2>1, <2>2, <2>3
<1> HIDE DEF h
<1>4. h \in [1..(p + q) -> 1..(m + n)]
  <2>1. \A k \in 1..(p + q) : h[k] \in 1..(m + n)
    <3> SUFFICES ASSUME NEW k \in 1..(p + q) PROVE h[k] \in 1..(m + n)
      OBVIOUS
    <3>1. CASE h[k] \in 1..m
      BY <1>1, <3>1
    <3>2. CASE h[k] = m + g[k - p] /\ g[k - p] \in 1..n
      BY <1>1, <3>2
    <3> QED
      BY <1>3, <3>1, <3>2
  <2> QED
    BY <1>h, <2>1
<1>5. ASSUME NEW k \in 1..(p + q), NEW l \in 1..(p + q), k < l PROVE h[k] < h[l]
  <2>1. CASE k \in 1..p /\ l \in 1..p /\ h[k] = f[k] /\ h[l] = f[l]
    BY <1>2, <1>5, <2>1
  <2>2. CASE h[k] \in 1..m /\ h[l] = m + g[l - p] /\ g[l - p] \in 1..n
    <3>1. \A x \in 1..m, y \in 1..n : x < m + y
      BY <1>1
    <3>2. h[k] < m + g[l - p]
      BY <2>2, <3>1
    <3> QED
      BY <2>2, <3>2
  <2>3. CASE /\ k - p \in 1..q /\ l - p \in 1..q /\ h[k] = m + g[k - p] /\ h[l] = m + g[l - p]
             /\ g[k - p] \in 1..n /\ g[l - p] \in 1..n
    <3>1. k - p < l - p
      BY <1>1, <1>5
    <3>2. g[k - p] < g[l - p]
      BY <1>2, <2>3, <3>1
    <3> QED
      BY <1>1, <2>3, <3>2
  <2>4. CASE k > p /\ l \in 1..p
    BY <1>1, <1>5, <2>4
  <2>5. /\ \/ k \in 1..p /\ h[k] = f[k] /\ h[k] \in 1..m
           \/ k > p /\ k - p \in 1..q /\ h[k] = m + g[k - p] /\ g[k - p] \in 1..n
        /\ \/ l \in 1..p /\ h[l] = f[l] /\ h[l] \in 1..m
           \/ l > p /\ l - p \in 1..q /\ h[l] = m + g[l - p] /\ g[l - p] \in 1..n
    BY <1>3
  <2> QED
    BY <2>1, <2>2, <2>3, <2>4, <2>5
<1>6. ASSUME NEW k \in 1..(p + q) PROVE v[h[k]] = <<"body", e[k]>> /\ Block[e[k]].section = s
  <2>1. CASE k \in 1..p /\ e[k] = a[k] /\ h[k] = f[k] /\ f[k] \in 1..m /\ v[f[k]] = t[f[k]]
    BY <1>2, <2>1
  <2>2. CASE /\ k - p \in 1..q /\ e[k] = b[k - p] /\ h[k] = m + g[k - p]
             /\ g[k - p] \in 1..n /\ v[m + g[k - p]] = u[g[k - p]]
    BY <1>2, <2>2
  <2> QED
    BY <1>3, <2>1, <2>2
<1>7. ASSUME NEW i \in 1..(m + n), BodyOf(v, i, s) PROVE \E k \in 1..(p + q) : h[k] = i
  <2>1. CASE i <= m
    <3>1. i \in 1..m /\ BodyOf(t, i, s)
      BY <1>1, <1>7, <2>1 DEF BodyOf
    <3>2. PICK k \in 1..p : f[k] = i
      BY <1>2, <3>1
    <3> QED
      BY <1>p, <3>2
  <2>2. CASE ~(i <= m)
    <3> DEFINE j == i - m
    <3>1. j \in 1..n /\ m + j = i
      BY <1>1, <2>2
    <3> HIDE DEF j
    <3>2. BodyOf(u, j, s)
      BY <1>1, <1>7, <3>1 DEF BodyOf
    <3>3. PICK k \in 1..q : g[k] = j
      BY <1>2, <3>1, <3>2
    <3> QED
      BY <1>p, <3>1, <3>3
  <2> QED
    BY <2>1, <2>2
<1>8. At(v, s, e, h) /\ h \in [1..Len(e) -> 1..Len(v)]
  BY <1>1, <1>4, <1>5, <1>6, <1>7 DEF At
<1> QED
  BY <1>8 DEF v, e

LEMMA ShownJoin ==
  ASSUME NEW c, NEW s, NEW t \in Seq(PieceSet(c)), NEW u \in Seq(PieceSet(c)),
         NEW a \in Seq(BlockId), NEW b \in Seq(BlockId), <<t, a>> \in Shown(c, s), <<u, b>> \in Shown(c, s)
  PROVE  <<t \o u, a \o b>> \in Shown(c, s)
<1> DEFINE P == PieceSet(c)
<1> HIDE DEF P
<1>1. t \in Seq(P) /\ u \in Seq(P)
  BY DEF P
<1>2. Warned(c, t) /\ \E f \in [1..Len(a) -> 1..Len(t)] : At(t, s, a, f)
  BY DEF Shown
<1>3. Warned(c, u) /\ \E f \in [1..Len(b) -> 1..Len(u)] : At(u, s, b, f)
  BY DEF Shown
<1>4. PICK f \in [1..Len(a) -> 1..Len(t)] : At(t, s, a, f)
  BY <1>2
<1>5. PICK g \in [1..Len(b) -> 1..Len(u)] : At(u, s, b, g)
  BY <1>3
<1>6. Warned(c, t \o u)
  BY <1>1, <1>2, <1>3, WarnedJoin
<1>7. \E h \in [1..Len(a \o b) -> 1..Len(t \o u)] : At(t \o u, s, a \o b, h)
  BY <1>1, <1>4, <1>5, AtJoin
<1>8. t \o u \in Seq(P) /\ a \o b \in Seq(BlockId)
  BY <1>1
<1> QED
  BY <1>6, <1>7, <1>8 DEF Shown, P

(* Text that holds no block.                                               *)
LEMMA ShownNothing ==
  ASSUME NEW c, NEW s, NEW t \in Seq(PieceSet(c)), \A i \in 1..Len(t) : ~IsBody(t[i])
  PROVE  <<t, <<>>>> \in Shown(c, s)
<1> DEFINE f == [k \in 1..0 |-> k]
<1>1. Warned(c, t)
  BY DEF Warned
<1>2. 1..Len(<<>>) = {} /\ <<>> \in Seq(BlockId) /\ 1..0 = {}
  OBVIOUS
<1>3. f \in [1..Len(<<>>) -> 1..Len(t)]
  BY <1>2
<1> HIDE DEF f
<1>4. At(t, s, <<>>, f)
  BY <1>2, <1>3 DEF At, BodyOf
<1> QED
  BY <1>1, <1>2, <1>3, <1>4 DEF Shown

IfIn(b, s) == IF Block[b].section = s THEN <<b>> ELSE <<>>

(* Text that ends with its only block.                                     *)
LEMMA ShownOne ==
  ASSUME NEW c, NEW s, NEW b \in BlockId, NEW t \in Seq(PieceSet(c)), Len(t) \in 1..3,
         t[Len(t)] = <<"body", b>>, \A i \in 1..(Len(t) - 1) : ~IsBody(t[i]),
         NoteOf(c.plan, b) # None => Len(t) # 1 /\ t[1] = <<"note", NoteOf(c.plan, b)>>
  PROVE  <<t, IfIn(b, s)>> \in Shown(c, s)
<1> DEFINE n == Len(t)
<1>1. n \in 1..3 /\ t[n] = <<"body", b>> /\ \A i \in 1..n : IsBody(t[i]) => i = n
  <2>1. \A i \in 1..n : i = n \/ i \in 1..(n - 1)
    OBVIOUS
  <2> QED
    BY <2>1
<1>2. t[n][2] = b /\ IsBody(t[n]) /\ n \in 1..n
  BY <1>1 DEF IsBody
<1>3. Warned(c, t)
  <2> SUFFICES ASSUME NoteOf(c.plan, b) # None
               PROVE  \E j \in 1..n : WarnedAt(c, t, n, j)
    BY <1>1, <1>2 DEF Warned
  <2>1. n \in {2, 3} /\ t[1] = <<"note", NoteOf(c.plan, b)>> /\ 1 \in 1..n
    BY <1>1
  <2>2. 1 \in {n - 1, n - 2} /\ \A k \in 1..(n - 1) : ~IsBody(t[k])
    BY <2>1
  <2>3. WarnedAt(c, t, n, 1)
    BY <1>2, <2>1, <2>2 DEF WarnedAt
  <2> QED
    BY <2>1, <2>3
<1> HIDE DEF n
<1>4. IfIn(b, s) \in Seq(BlockId)
  BY DEF IfIn
<1>5. \E f \in [1..Len(IfIn(b, s)) -> 1..n] : At(t, s, IfIn(b, s), f)
  <2>1. CASE Block[b].section = s
    <3> DEFINE f == [k \in 1..1 |-> n]
    <3>1. IfIn(b, s) = <<b>> /\ Len(<<b>>) = 1 /\ 1..1 = {1} /\ <<b>>[1] = b
      BY <2>1 DEF IfIn
    <3>2. f \in [1..1 -> 1..n] /\ f[1] = n
      BY <1>2
    <3> HIDE DEF f
    <3>3. \A k, l \in 1..1 : ~(k < l)
      OBVIOUS
    <3>4. \A i \in 1..n : IsBody(t[i]) => f[1] = i
      BY <1>1, <3>2
    <3>5. At(t, s, <<b>>, f)
      BY <1>1, <2>1, <3>1, <3>2, <3>3, <3>4 DEF At, BodyOf, n
    <3> QED
      BY <3>1, <3>2, <3>5
  <2>2. CASE Block[b].section # s
    <3> DEFINE f == [k \in 1..0 |-> k]
    <3>1. IfIn(b, s) = <<>> /\ 1..Len(<<>>) = {} /\ 1..0 = {}
      BY <2>2 DEF IfIn
    <3>2. f \in [1..Len(<<>>) -> 1..n]
      BY <3>1
    <3> HIDE DEF f
    <3>3. \A i \in 1..n : ~BodyOf(t, i, s)
      BY <1>1, <1>2, <2>2 DEF BodyOf
    <3>4. At(t, s, <<>>, f)
      BY <3>1, <3>2, <3>3 DEF At, n
    <3> QED
      BY <3>1, <3>2, <3>4
  <2> QED
    BY <2>1, <2>2
<1> QED
  BY <1>3, <1>4, <1>5 DEF Shown, n

LEMMA PieceTypes ==
  ASSUME NEW c
  PROVE  /\ \A s \in Range(SECTION_ORDER) : Header(s) \in PieceSet(c) /\ ~IsBody(Header(s))
         /\ <<"stamp", None>> \in PieceSet(c) /\ ~IsBody(<<"stamp", None>>)
         /\ <<"task", None>> \in PieceSet(c) /\ ~IsBody(<<"task", None>>)
         /\ \A b \in BlockId : /\ <<"body", b>> \in PieceSet(c)
                               /\ <<"note", NoteOf(c.plan, b)>> \in PieceSet(c)
                               /\ ~IsBody(<<"note", NoteOf(c.plan, b)>>)
BY DEF PieceSet, Header, IsBody

LEMMA AndOne ==
  ASSUME NEW P, NEW x \in P, NEW y \in P, NEW z \in P
  PROVE  <<x>> \o <<y>> = <<x, y>> /\ <<x, y>> \o <<z>> = <<x, y, z>>
<1> DEFINE v == <<x>> \o <<y>>  w == <<x, y>> \o <<z>>
<1>1. <<x>> \in Seq(P) /\ <<y>> \in Seq(P) /\ <<z>> \in Seq(P) /\ <<x, y>> \in Seq(P) /\ <<x, y, z>> \in Seq(P)
  OBVIOUS
<1>2. v \in Seq(P) /\ Len(v) = 2 /\ v[1] = x /\ v[2] = y
  BY <1>1
<1>3. w \in Seq(P) /\ Len(w) = 3 /\ w[1] = x /\ w[2] = y /\ w[3] = z
  BY <1>1
<1> HIDE DEF v, w
<1>4. v = <<x, y>>
  BY <1>2
<1>5. w = <<x, y, z>>
  BY <1>3
<1> QED
  BY <1>4, <1>5 DEF v, w

(* A block with its note, and perhaps its stamp.                           *)
LEMMA ShownBlock ==
  ASSUME NEW c, NEW s, NEW b \in BlockId
  PROVE  /\ BlockPieces(c, b) \in Seq(PieceSet(c)) /\ <<BlockPieces(c, b), IfIn(b, s)>> \in Shown(c, s)
         /\ Note(c, b) \o << <<"body", b>> >> \in Seq(PieceSet(c))
         /\ <<Note(c, b) \o << <<"body", b>> >>, IfIn(b, s)>> \in Shown(c, s)
<1> DEFINE P == PieceSet(c)
           n == <<"note", NoteOf(c.plan, b)>>  z == <<"stamp", None>>  y == <<"body", b>>
<1>1. n \in P /\ z \in P /\ y \in P /\ ~IsBody(n) /\ ~IsBody(z)
  BY PieceTypes
<1>2. /\ Note(c, b) = IF NoteOf(c.plan, b) = None THEN <<>> ELSE <<n>>
      /\ Stamp(c) = IF c.options.stamps THEN <<z>> ELSE <<>>
      /\ BlockPieces(c, b) = (Note(c, b) \o Stamp(c)) \o <<y>>
  BY DEF Note, Stamp, BlockPieces
<1> HIDE DEF P, n, z, y
<1>3. /\ (<<>> \o <<>>) \o <<y>> = <<y>> /\ (<<n>> \o <<>>) \o <<y>> = <<n, y>>
      /\ (<<>> \o <<z>>) \o <<y>> = <<z, y>> /\ (<<n>> \o <<z>>) \o <<y>> = <<n, z, y>>
      /\ <<>> \o <<y>> = <<y>> /\ <<n>> \o <<y>> = <<n, y>>
  <2>1. <<n>> \in Seq(P) /\ <<z>> \in Seq(P) /\ <<y>> \in Seq(P) /\ <<n, z>> \in Seq(P) /\ <<>> \in Seq(P)
    BY <1>1
  <2>2. <<>> \o <<>> = <<>> /\ <<n>> \o <<>> = <<n>> /\ <<>> \o <<z>> = <<z>> /\ <<>> \o <<y>> = <<y>>
    BY <2>1
  <2>3. <<n>> \o <<y>> = <<n, y>> /\ <<z>> \o <<y>> = <<z, y>>
    BY <1>1, AndOne
  <2>4. <<n>> \o <<z>> = <<n, z>>
    BY <1>1, AndOne
  <2>5. <<n, z>> \o <<y>> = <<n, z, y>>
    BY <1>1, AndOne
  <2> QED
    BY <2>2, <2>3, <2>4, <2>5
<1>4. /\ BlockPieces(c, b) = IF NoteOf(c.plan, b) = None
                               THEN IF c.options.stamps THEN <<z, y>> ELSE <<y>>
                               ELSE IF c.options.stamps THEN <<n, z, y>> ELSE <<n, y>>
      /\ Note(c, b) \o <<y>> = IF NoteOf(c.plan, b) = None THEN <<y>> ELSE <<n, y>>
  BY <1>2, <1>3
<1>5. /\ <<y>> \in Seq(P) /\ Len(<<y>>) = 1 /\ <<y>>[1] = y
      /\ <<z, y>> \in Seq(P) /\ Len(<<z, y>>) = 2 /\ <<z, y>>[1] = z /\ <<z, y>>[2] = y
      /\ <<n, y>> \in Seq(P) /\ Len(<<n, y>>) = 2 /\ <<n, y>>[1] = n /\ <<n, y>>[2] = y
      /\ <<n, z, y>> \in Seq(P) /\ Len(<<n, z, y>>) = 3 /\ <<n, z, y>>[1] = n /\ <<n, z, y>>[2] = z
      /\ <<n, z, y>>[3] = y
  BY <1>1
<1> DEFINE Good(t) == t \in Seq(P) /\ <<t, IfIn(b, s)>> \in Shown(c, s)
<1> DEFINE Fits(t) == /\ t \in Seq(P) /\ Len(t) \in 1..3 /\ t[Len(t)] = y
                      /\ \A i \in 1..(Len(t) - 1) : ~IsBody(t[i])
                      /\ NoteOf(c.plan, b) # None => Len(t) # 1 /\ t[1] = n
<1>6. ASSUME NEW t, Fits(t) PROVE Good(t)
  <2>1. t \in Seq(PieceSet(c)) /\ t[Len(t)] = <<"body", b>>
        /\ (NoteOf(c.plan, b) # None => Len(t) # 1 /\ t[1] = <<"note", NoteOf(c.plan, b)>>)
    BY <1>6 DEF P, n, y
  <2>2. <<t, IfIn(b, s)>> \in Shown(c, s)
    BY <1>6, <2>1, ShownOne
  <2> QED
    BY <1>6, <2>2
<1> HIDE DEF Good
<1>7. Good(<<n, y>>)
  <2> DEFINE t == <<n, y>>
  <2>1. t \in Seq(P) /\ Len(t) = 2 /\ t[1] = n /\ t[2] = y
    BY <1>5
  <2> HIDE DEF t
  <2>2. \A i \in 1..(Len(t) - 1) : i = 1
    BY <2>1
  <2>3. Fits(t)
    BY <1>1, <2>1, <2>2
  <2> HIDE DEF Fits
  <2> QED
    BY <1>6, <2>3 DEF t
<1>8. Good(<<n, z, y>>)
  <2> DEFINE t == <<n, z, y>>
  <2>1. t \in Seq(P) /\ Len(t) = 3 /\ t[1] = n /\ t[2] = z /\ t[3] = y
    BY <1>5
  <2> HIDE DEF t
  <2>2. \A i \in 1..(Len(t) - 1) : i = 1 \/ i = 2
    BY <2>1
  <2>3. Fits(t)
    BY <1>1, <2>1, <2>2
  <2> HIDE DEF Fits
  <2> QED
    BY <1>6, <2>3 DEF t
<1>9. NoteOf(c.plan, b) = None => Good(<<y>>)
  <2> DEFINE t == <<y>>
  <2>1. t \in Seq(P) /\ Len(t) = 1 /\ t[1] = y
    BY <1>5
  <2> HIDE DEF t
  <2>2. \A i \in 1..(Len(t) - 1) : FALSE
    BY <2>1
  <2>3. NoteOf(c.plan, b) = None => Fits(t)
    BY <1>1, <2>1, <2>2
  <2> HIDE DEF Fits
  <2> QED
    BY <1>6, <2>3 DEF t
<1>10. NoteOf(c.plan, b) = None => Good(<<z, y>>)
  <2> DEFINE t == <<z, y>>
  <2>1. t \in Seq(P) /\ Len(t) = 2 /\ t[1] = z /\ t[2] = y
    BY <1>5
  <2> HIDE DEF t
  <2>2. \A i \in 1..(Len(t) - 1) : i = 1
    BY <2>1
  <2>3. NoteOf(c.plan, b) = None => Fits(t)
    BY <1>1, <2>1, <2>2
  <2> HIDE DEF Fits
  <2> QED
    BY <1>6, <2>3 DEF t
<1>11. Good(BlockPieces(c, b)) /\ Good(Note(c, b) \o <<y>>)
  BY <1>4, <1>7, <1>8, <1>9, <1>10
<1> QED
  BY <1>11 DEF Good, P, y

-----------------------------------------------------------------------------
(* The blocks of a section.                                                *)

FetchedIn(c, s) == {i \in DOMAIN c.fetched : Block[c.fetched[i]].section = s}
Before(c, s) ==
  {x \in FetchedIn(c, s) \X FetchedIn(c, s) :
     c.fetched[x[1]] < c.fetched[x[2]] \/ (c.fetched[x[1]] = c.fetched[x[2]] /\ x[1] < x[2])}
Times(list, b) == Cardinality({i \in DOMAIN list : list[i] = b})

Sorted(list) == \A k, l \in 1..Len(list) : k < l => list[k] <= list[l]
Lists(c, s, list) ==
  /\ list \in Seq(BlockId)
  /\ Sorted(list)
  /\ \A k \in 1..Len(list) : Block[list[k]].section = s
  /\ \A b \in BlockId : Block[b].section = s => Times(list, b) = Times(c.fetched, b)

LEMMA BlockIds == \A b \in BlockId : b \in Nat /\ b \in Int
<1>1. BlockId \subseteq Nat
  BY BlockAssumption
<1> QED
  BY <1>1

LEMMA FetchedOrder ==
  ASSUME NEW c, c.fetched \in Seq(BlockId), NEW s
  PROVE  IsFiniteSet(FetchedIn(c, s)) /\ Ordering(FetchedIn(c, s), Before(c, s))
<1> DEFINE S == FetchedIn(c, s)  f == c.fetched
<1>1. DOMAIN f = 1..Len(f) /\ Len(f) \in Nat /\ \A i \in DOMAIN f : f[i] \in BlockId
  OBVIOUS
<1>2. \A b \in BlockId : b \in Int
  BY BlockIds
<1>3. S \subseteq 1..Len(f) /\ \A i \in S : f[i] \in Int /\ i \in Int
  <2>1. S \subseteq DOMAIN f
    BY DEF FetchedIn
  <2>2. \A i \in DOMAIN f : f[i] \in Int /\ i \in Int
    <3> HIDE DEF f
    <3>1. \A i \in DOMAIN f : i \in Int
      BY <1>1
    <3>2. \A i \in DOMAIN f : f[i] \in Int
      BY <1>1, <1>2
    <3> QED
      BY <3>1, <3>2
  <2> QED
    BY <1>1, <2>1, <2>2
<1>4. IsFiniteSet(S)
  <2>1. IsFiniteSet(1..Len(f))
    BY <1>1, FS_Interval
  <2>2. S \in SUBSET (1..Len(f))
    BY <1>3
  <2> HIDE DEF S, f
  <2> QED
    BY <2>1, <2>2, FS_Subset
<1>5. \A x, y \in S : <<x, y>> \in Before(c, s) <=> f[x] < f[y] \/ (f[x] = f[y] /\ x < y)
  BY DEF Before
<1> HIDE DEF S, f
<1>6. Ordering(S, Before(c, s))
  <2>1. \A x \in S : <<x, x>> \notin Before(c, s)
    BY <1>3, <1>5
  <2>2. \A x, y \in S : x = y \/ <<x, y>> \in Before(c, s) \/ <<y, x>> \in Before(c, s)
    <3> SUFFICES ASSUME NEW x \in S, NEW y \in S
                 PROVE  x = y \/ <<x, y>> \in Before(c, s) \/ <<y, x>> \in Before(c, s)
      OBVIOUS
    <3>1. f[x] \in Int /\ f[y] \in Int /\ x \in Int /\ y \in Int
      BY <1>3
    <3>2. f[x] < f[y] \/ f[y] < f[x] \/ (f[x] = f[y] /\ (x < y \/ y < x \/ x = y))
      BY <3>1
    <3> QED
      BY <1>5, <3>2
  <2>3. \A x, y, z \in S : <<x, y>> \in Before(c, s) /\ <<y, z>> \in Before(c, s) => <<x, z>> \in Before(c, s)
    BY <1>3, <1>5
  <2> QED
    BY <2>1, <2>2, <2>3 DEF Ordering
<1> QED
  BY <1>4, <1>6 DEF S

LEMMA SectionLists ==
  ASSUME NEW c, c.fetched \in Seq(BlockId), NEW s
  PROVE  Lists(c, s, InSection(c, s))
<1> DEFINE S == FetchedIn(c, s)  f == c.fetched  R == Before(c, s)  n == Cardinality(S)
           up(i) == {j \in S : f[j] < f[i] \/ (f[j] = f[i] /\ j <= i)}
           p == [k \in 1..n |-> CHOOSE i \in S : Cardinality(up(i)) = k]
           list == InSection(c, s)
<1>1. DOMAIN f = 1..Len(f) /\ Len(f) \in Nat /\ \A i \in DOMAIN f : f[i] \in BlockId
  OBVIOUS
<1>2. S \subseteq DOMAIN f /\ \A i \in S : f[i] \in Int /\ i \in Int /\ f[i] \in BlockId /\ Block[f[i]].section = s
  <2>1. \A b \in BlockId : b \in Int
    BY BlockIds
  <2>2. S \subseteq DOMAIN f /\ \A i \in S : Block[f[i]].section = s
    BY DEF FetchedIn
  <2>3. \A i \in DOMAIN f : f[i] \in Int /\ i \in Int /\ f[i] \in BlockId
    <3> HIDE DEF f
    <3>1. \A i \in DOMAIN f : i \in Int
      BY <1>1
    <3>2. \A i \in DOMAIN f : f[i] \in Int /\ f[i] \in BlockId
      BY <1>1, <2>1
    <3> QED
      BY <3>1, <3>2
  <2> QED
    BY <2>2, <2>3
<1>3. list = [k \in 1..n |-> f[p[k]]]
  <2>1. list = [k \in 1..n |-> f[CHOOSE i \in S : Cardinality(up(i)) = k]]
    BY DEF InSection, FetchedIn
  <2> HIDE DEF S, f, n, up, list
  <2> QED
    BY <2>1
<1>4. IsFiniteSet(S) /\ Ordering(S, R) /\ \A x, y \in S : <<x, y>> \in R <=> f[x] < f[y] \/ (f[x] = f[y] /\ x < y)
  BY FetchedOrder DEF Before
<1>5. /\ n \in Nat
      /\ \A x \in S : RankIn(S, R, x) \in 0..(n - 1)
      /\ \A x, y \in S : RankIn(S, R, x) = RankIn(S, R, y) => x = y
      /\ \A k \in 0..(n - 1) : \E x \in S : RankIn(S, R, x) = k
  <2>1. RanksMatch(S, R)
    <3> HIDE DEF S, R
    <3> QED
      BY <1>4, RanksAreAll
  <2> QED
    BY <2>1 DEF RanksMatch
<1> HIDE DEF S, f, R, n, list
<1>6. ASSUME NEW i \in S PROVE Cardinality(up(i)) = RankIn(S, R, i) + 1
  <2> DEFINE A == {y \in S : <<y, i>> \in R}
  <2>1. up(i) = A \union {i} /\ i \notin A
    <3>1. \A j \in S : (f[j] < f[i] \/ (f[j] = f[i] /\ j <= i)) <=> (<<j, i>> \in R \/ j = i)
      BY <1>2, <1>4
    <3>2. i \notin A
      BY <1>2, <1>4
    <3> QED
      BY <3>1, <3>2
  <2>2. IsFiniteSet(A)
    <3>1. A \in SUBSET S
      OBVIOUS
    <3> HIDE DEF A
    <3> QED
      BY <1>4, <3>1, FS_Subset
  <2>3. RankIn(S, R, i) = Cardinality(A)
    BY DEF RankIn
  <2> HIDE DEF A
  <2>4. Cardinality(A \union {i}) = Cardinality(A) + 1
    BY <2>1, <2>2, FS_AddElement
  <2> QED
    BY <2>1, <2>3, <2>4
<1> HIDE DEF up
<1>7. \A k \in 1..n : p[k] \in S /\ RankIn(S, R, p[k]) = k - 1
  <2> SUFFICES ASSUME NEW k \in 1..n PROVE p[k] \in S /\ RankIn(S, R, p[k]) = k - 1
    OBVIOUS
  <2>1. k - 1 \in 0..(n - 1)
    BY <1>5
  <2>2. PICK x \in S : RankIn(S, R, x) = k - 1
    BY <1>5, <2>1
  <2>3. Cardinality(up(x)) = k
    BY <1>6, <2>2
  <2>4. p[k] \in S /\ Cardinality(up(p[k])) = k
    BY <2>3
  <2>5. RankIn(S, R, p[k]) \in Nat
    BY <1>5, <2>4
  <2> QED
    BY <1>6, <2>4, <2>5
<1> HIDE DEF p
<1>8. Len(list) = n /\ DOMAIN list = 1..n /\ \A k \in 1..n : list[k] = f[p[k]] /\ list[k] \in BlockId /\ list[k] \in Int
  BY <1>2, <1>3, <1>5, <1>7
<1>9. list \in Seq(BlockId)
  <2>1. list = [k \in 1..n |-> list[k]]
    BY <1>3
  <2> QED
    BY <1>5, <1>8, <2>1
<1>10. Sorted(list)
  <2> SUFFICES ASSUME NEW k \in 1..n, NEW l \in 1..n, k < l PROVE list[k] <= list[l]
    BY <1>8 DEF Sorted
  <2> DEFINE x == p[k]  y == p[l]
  <2>1. x \in S /\ y \in S /\ RankIn(S, R, x) = k - 1 /\ RankIn(S, R, y) = l - 1
    BY <1>7
  <2> HIDE DEF x, y
  <2>2. ~(<<y, x>> \in R)
    <3> SUFFICES ASSUME <<y, x>> \in R PROVE FALSE
      OBVIOUS
    <3>1. RankIn(S, R, y) < RankIn(S, R, x)
      BY <1>4, <2>1, RankGrows
    <3> QED
      BY <1>5, <2>1, <3>1
  <2>3. ~(f[y] < f[x])
    BY <1>4, <2>1, <2>2
  <2>4. f[x] \in Int /\ f[y] \in Int /\ list[k] = f[x] /\ list[l] = f[y]
    BY <1>2, <1>8, <2>1 DEF x, y
  <2> QED
    BY <2>3, <2>4
<1>11. ASSUME NEW b \in BlockId, Block[b].section = s PROVE Times(list, b) = Times(f, b)
  <2> DEFINE A == {k \in DOMAIN list : list[k] = b}
             B == {i \in DOMAIN f : f[i] = b}
             q == [k \in A |-> p[k]]
  <2>1. B \subseteq S
    BY <1>11 DEF S, FetchedIn, f
  <2>2. IsFiniteSet(B)
    <3>1. B \in SUBSET S
      BY <2>1
    <3> HIDE DEF B
    <3> QED
      BY <1>4, <3>1, FS_Subset
  <2>3. q \in [A -> B]
    BY <1>2, <1>7, <1>8
  <2>4. \A k, l \in A : q[k] = q[l] => k = l
    <3> SUFFICES ASSUME NEW k \in A, NEW l \in A, p[k] = p[l] PROVE k = l
      OBVIOUS
    <3>1. k \in 1..n /\ l \in 1..n
      BY <1>8
    <3>2. k - 1 = l - 1
      BY <1>7, <3>1
    <3> QED
      BY <1>5, <3>1, <3>2
  <2>5. \A i \in B : \E k \in A : q[k] = i
    <3> SUFFICES ASSUME NEW i \in B PROVE \E k \in A : p[k] = i
      OBVIOUS
    <3> DEFINE k == RankIn(S, R, i) + 1
    <3>1. i \in S /\ RankIn(S, R, i) \in 0..(n - 1)
      BY <1>5, <2>1
    <3>2. k \in 1..n /\ k - 1 = RankIn(S, R, i)
      BY <1>5, <3>1
    <3> HIDE DEF k
    <3>3. p[k] \in S /\ RankIn(S, R, p[k]) = RankIn(S, R, i)
      BY <1>7, <3>2
    <3>4. p[k] = i
      BY <1>5, <3>1, <3>3
    <3>5. k \in A
      BY <1>8, <3>2, <3>4
    <3> QED
      BY <3>4, <3>5
  <2> HIDE DEF A, B, q
  <2>6. Cardinality(A) = Cardinality(B)
    BY <2>2, <2>3, <2>4, <2>5, SameSize
  <2> QED
    BY <2>6 DEF Times, A, B
<1>12. \A k \in 1..Len(list) : Block[list[k]].section = s
  BY <1>2, <1>7, <1>8
<1> QED
  BY <1>9, <1>10, <1>11, <1>12 DEF Lists, list, f

(* Of two sorted lists one has more of the element they first differ in.   *)
LEMMA MoreOfFirst ==
  ASSUME NEW x \in Seq(Int), NEW y \in Seq(Int), Sorted(x), Sorted(y), NEW n \in 1..Len(x), n - 1 <= Len(y),
         \A k \in 1..(n - 1) : x[k] = y[k], n <= Len(y) => x[n] < y[n]
  PROVE  Times(x, x[n]) # Times(y, x[n])
<1> DEFINE v == x[n]
           A == {k \in DOMAIN x : x[k] = v}
           B == {k \in DOMAIN y : y[k] = v}
<1>1. DOMAIN x = 1..Len(x) /\ DOMAIN y = 1..Len(y) /\ Len(x) \in Nat /\ Len(y) \in Nat
      /\ (\A k \in 1..Len(x) : x[k] \in Int) /\ \A k \in 1..Len(y) : y[k] \in Int
  OBVIOUS
<1>2. \A k \in B : k < n
  <2> SUFFICES ASSUME NEW k \in B, ~(k < n) PROVE FALSE
    OBVIOUS
  <2>1. k \in 1..Len(y) /\ n \in 1..Len(y) /\ n <= Len(y) /\ y[k] = v
    BY <1>1
  <2>2. k = n \/ n < k
    BY <2>1
  <2>3. y[n] <= y[k]
    BY <1>1, <2>1, <2>2 DEF Sorted
  <2>4. x[n] < y[n] /\ x[n] \in Int /\ y[n] \in Int /\ y[k] \in Int
    BY <1>1, <2>1
  <2> QED
    BY <2>1, <2>3, <2>4
<1>3. B \subseteq A /\ n \in A /\ n \notin B
  <2>1. \A k \in B : k \in 1..(n - 1) /\ k \in 1..Len(x)
    BY <1>1, <1>2
  <2>2. \A k \in B : x[k] = v
    BY <2>1
  <2>3. B \subseteq A
    BY <1>1, <2>1, <2>2
  <2>4. n \in A
    BY <1>1
  <2>5. n \notin B
    BY <1>2
  <2> QED
    BY <2>3, <2>4, <2>5
<1>4. IsFiniteSet(A)
  <2>1. A \in SUBSET (1..Len(x)) /\ IsFiniteSet(1..Len(x))
    BY <1>1, FS_Interval
  <2> HIDE DEF A
  <2> QED
    BY <2>1, FS_Subset
<1> HIDE DEF A, B
<1>5. Cardinality(A) # Cardinality(B)
  BY <1>3, <1>4, FS_Subset
<1> QED
  BY <1>5 DEF Times, A, B

LEMMA SameList ==
  ASSUME NEW S, NEW x \in Seq(S), NEW T, NEW y \in Seq(T), Len(x) = Len(y),
         \A i \in 1..Len(x) : x[i] = y[i]
  PROVE  x = y
<1>1. x = [i \in 1..Len(x) |-> x[i]] /\ y = [i \in 1..Len(y) |-> y[i]]
  OBVIOUS
<1> QED
  BY <1>1

(* Sorted lists with as many of each element are equal.                    *)
LEMMA SortedEqual ==
  ASSUME NEW x \in Seq(Int), NEW y \in Seq(Int), Sorted(x), Sorted(y),
         \A v : Times(x, v) = Times(y, v)
  PROVE  x = y
<1> DEFINE D == {n \in Nat : /\ n \in 1..Len(x) \/ n \in 1..Len(y)
                             /\ ~(n \in 1..Len(x) /\ n \in 1..Len(y) /\ x[n] = y[n])}
<1>1. Len(x) \in Nat /\ Len(y) \in Nat
  OBVIOUS
<1>2. D = {}
  <2> SUFFICES ASSUME D # {} PROVE FALSE
    OBVIOUS
  <2>1. D \in SUBSET Nat
    OBVIOUS
  <2>2. PICK n \in D : \A k \in D : n <= k
    <3> HIDE DEF D
    <3> QED
      BY <2>1, LeastNumber
  <2>3. \A k \in 1..(n - 1) : k \in 1..Len(x) /\ k \in 1..Len(y) /\ x[k] = y[k]
    <3> SUFFICES ASSUME NEW k \in 1..(n - 1) PROVE k \in 1..Len(x) /\ k \in 1..Len(y) /\ x[k] = y[k]
      OBVIOUS
    <3>1. n \in Nat /\ (n \in 1..Len(x) \/ n \in 1..Len(y))
      OBVIOUS
    <3>2. k \in Nat /\ ~(n <= k) /\ (k \in 1..Len(x) \/ k \in 1..Len(y))
      BY <1>1, <3>1
    <3>3. k \notin D
      BY <2>2, <3>2
    <3> QED
      BY <3>2, <3>3
  <2>4. n \in Nat /\ n # 0 /\ n - 1 <= Len(x) /\ n - 1 <= Len(y)
    <3>1. n \in Nat /\ (n \in 1..Len(x) \/ n \in 1..Len(y))
      OBVIOUS
    <3>2. n \in Nat /\ n # 0
      BY <3>1
    <3>3. n = 1 \/ n - 1 \in 1..(n - 1)
      BY <3>2
    <3>4. n = 1 \/ (n - 1 \in 1..Len(x) /\ n - 1 \in 1..Len(y))
      BY <2>3, <3>3
    <3> QED
      BY <1>1, <3>2, <3>4
  <2>5. /\ n \in 1..Len(x) \/ n \in 1..Len(y)
        /\ ~(n \in 1..Len(x) /\ n \in 1..Len(y) /\ x[n] = y[n])
    OBVIOUS
  <2> HIDE DEF D
  <2>6. CASE n \in 1..Len(x) /\ (n <= Len(y) => x[n] < y[n])
    <3>1. Times(x, x[n]) # Times(y, x[n])
      BY <2>3, <2>4, <2>6, MoreOfFirst
    <3> QED
      BY <3>1
  <2>7. CASE n \in 1..Len(y) /\ (n <= Len(x) => y[n] < x[n])
    <3>1. \A k \in 1..(n - 1) : y[k] = x[k]
      BY <2>3
    <3>2. Times(y, y[n]) # Times(x, y[n])
      BY <2>4, <2>7, <3>1, MoreOfFirst
    <3> QED
      BY <3>2
  <2>8. n \in 1..Len(x) => x[n] \in Int
    OBVIOUS
  <2>9. n \in 1..Len(y) => y[n] \in Int
    OBVIOUS
  <2> QED
    BY <1>1, <2>4, <2>5, <2>6, <2>7, <2>8, <2>9
<1>3. Len(x) = Len(y)
  <2>1. CASE Len(x) < Len(y)
    <3>1. Len(y) \in 1..Len(y) /\ ~(Len(y) \in 1..Len(x)) /\ Len(y) \in Nat
      BY <1>1, <2>1
    <3>2. Len(y) \in D
      BY <3>1
    <3> QED
      BY <1>2, <3>2
  <2>2. CASE Len(y) < Len(x)
    <3>1. Len(x) \in 1..Len(x) /\ ~(Len(x) \in 1..Len(y)) /\ Len(x) \in Nat
      BY <1>1, <2>2
    <3>2. Len(x) \in D
      BY <3>1
    <3> QED
      BY <1>2, <3>2
  <2> QED
    BY <1>1, <2>1, <2>2
<1>4. \A n \in 1..Len(x) : x[n] = y[n]
  <2> SUFFICES ASSUME NEW n \in 1..Len(x) PROVE x[n] = y[n]
    OBVIOUS
  <2>1. n \in Nat /\ n \notin D
    BY <1>2
  <2> QED
    BY <1>3, <2>1
<1> HIDE DEF D
<1> QED
  BY <1>3, <1>4, SameList

-----------------------------------------------------------------------------
(* Joining lists of parts when at most one of them is not empty.           *)

LEMMA ListOf ==
  ASSUME NEW T, NEW n \in Nat, NEW a, a = [k \in 1..n |-> a[k]], \A k \in 1..n : a[k] \in T
  PROVE  a \in Seq(T) /\ Len(a) = n /\ DOMAIN a = 1..n
<1>1. a \in [1..n -> T]
  OBVIOUS
<1> QED
  BY <1>1

LEMMA JoinNothing ==
  ASSUME NEW S, NEW x \in Seq(S)
  PROVE  <<>> \o x = x /\ x \o <<>> = x
OBVIOUS

(* Nothing joined is nothing, and one part among nothing is that part.     *)
LEMMA FlatOnly ==
  ASSUME NEW S, NEW a \in Seq(Seq(S)), NEW j \in 1..Len(a), \A i \in 1..Len(a) : i # j => a[i] = <<>>
  PROVE  FlattenSeq(a) = a[j]
<1> DEFINE m == Len(a)
<1>1. m \in Nat /\ j \in 1..m /\ (\A i \in 1..m : a[i] \in Seq(S)) /\ \A i \in 1..m : i # j => a[i] = <<>>
  OBVIOUS
<1>2. PICK f \in [0..m -> Seq(S)] : Joins(f, a) /\ FlattenSeq(a) = f[m]
  BY FlatSteps
<1>3. f[0] = <<>> /\ \A n \in 1..m : f[n] = f[n - 1] \o a[n]
  BY <1>2 DEF Joins
<1> HIDE DEF m
<1> DEFINE Q == {n \in 0..m : f[n] = IF n < j THEN <<>> ELSE a[j]}
<1>4. 0 \in Q
  BY <1>1, <1>3
<1>5. \A n \in 1..m : n - 1 \in Q => n \in Q
  <2> SUFFICES ASSUME NEW n \in 1..m, n - 1 \in Q PROVE n \in Q
    OBVIOUS
  <2>1. n \in 0..m /\ f[n] = f[n - 1] \o a[n] /\ f[n - 1] = IF n - 1 < j THEN <<>> ELSE a[j]
    <3>1. n \in 0..m
      BY <1>1
    <3> QED
      BY <1>3, <3>1
  <2>2. CASE n < j
    <3>1. f[n - 1] = <<>> /\ a[n] = <<>>
      BY <1>1, <2>1, <2>2
    <3>2. f[n] = <<>>
      BY <2>1, <3>1
    <3> QED
      BY <2>1, <2>2, <3>2
  <2>3. CASE n = j
    <3>1. f[n - 1] = <<>> /\ a[n] = a[j] /\ a[j] \in Seq(S)
      BY <1>1, <2>1, <2>3
    <3>2. f[n] = a[j]
      BY <2>1, <3>1, JoinNothing
    <3>3. ~(n < j)
      BY <1>1, <2>3
    <3> QED
      BY <2>1, <3>2, <3>3
  <2>4. CASE n > j
    <3>1. f[n - 1] = a[j] /\ a[n] = <<>> /\ a[j] \in Seq(S)
      BY <1>1, <2>1, <2>4
    <3>2. f[n] = a[j]
      BY <2>1, <3>1, JoinNothing
    <3>3. ~(n < j)
      BY <1>1, <2>4
    <3> QED
      BY <2>1, <3>2, <3>3
  <2> QED
    BY <1>1, <2>2, <2>3, <2>4
<1> HIDE DEF Q
<1>6. m \in Q
  <2>1. \A n \in 0..m : n \in Q
    BY <1>1, <1>4, <1>5, InductionUpTo
  <2> QED
    BY <1>1, <2>1
<1>7. f[m] = a[j]
  BY <1>1, <1>6 DEF Q
<1> QED
  BY <1>2, <1>7 DEF m

LEMMA FlatEmpty ==
  ASSUME NEW S, NEW a \in Seq(Seq(S)), \A i \in 1..Len(a) : a[i] = <<>>
  PROVE  FlattenSeq(a) = <<>>
<1>1. CASE Len(a) = 0
  <2>1. PICK f \in [0..Len(a) -> Seq(S)] : Joins(f, a) /\ FlattenSeq(a) = f[Len(a)]
    BY FlatSteps
  <2> QED
    BY <1>1, <2>1 DEF Joins
<1>2. CASE Len(a) # 0
  <2>1. 1 \in 1..Len(a)
    BY <1>2
  <2>2. FlattenSeq(a) = a[1]
    BY <2>1, FlatOnly
  <2> QED
    BY <2>1, <2>2
<1> QED
  BY <1>1, <1>2

LEMMA FlatOne ==
  ASSUME NEW S, NEW x \in Seq(S)
  PROVE  FlattenSeq(<<x>>) = x
<1>1. <<x>> \in Seq(Seq(S)) /\ Len(<<x>>) = 1 /\ <<x>>[1] = x
  OBVIOUS
<1>2. 1 \in 1..Len(<<x>>) /\ \A i \in 1..Len(<<x>>) : i # 1 => <<x>>[i] = <<>>
  BY <1>1
<1>3. FlattenSeq(<<x>>) = <<x>>[1]
  BY <1>1, <1>2, FlatOnly
<1> QED
  BY <1>1, <1>3

-----------------------------------------------------------------------------
(* The text of a section.                                                  *)

LEMMA ShownEmpty ==
  ASSUME NEW c, NEW s
  PROVE  <<>> \in Seq(PieceSet(c)) /\ <<>> \in Seq(BlockId) /\ <<<<>>, <<>>>> \in Shown(c, s)
<1>1. <<>> \in Seq(PieceSet(c)) /\ \A i \in 1..Len(<<>>) : ~IsBody(<<>>[i])
  OBVIOUS
<1>2. <<<<>>, <<>>>> \in Shown(c, s)
  BY <1>1, ShownNothing
<1> QED
  BY <1>1, <1>2

(* R relates what is written, in pieces or in messages, to the blocks it   *)
(* shows, and stays so when both are joined.                               *)
Closed(P, R) ==
  /\ <<<<>>, <<>>>> \in R
  /\ \A t, u \in Seq(P), x, y \in Seq(BlockId) : <<t, x>> \in R /\ <<u, y>> \in R => <<t \o u, x \o y>> \in R

LEMMA ClosedFlat ==
  ASSUME NEW P, NEW R, Closed(P, R), NEW a \in Seq(Seq(P)), NEW b \in Seq(Seq(BlockId)), Len(a) = Len(b),
         \A n \in 1..Len(a) : <<a[n], b[n]>> \in R
  PROVE  /\ <<FlattenSeq(a), FlattenSeq(b)>> \in R
         /\ FlattenSeq(a) \in Seq(P) /\ FlattenSeq(b) \in Seq(BlockId)
<1>1. /\ <<<<>>, <<>>>> \in R
      /\ \A t, u \in Seq(P), x, y \in Seq(BlockId) : <<t, x>> \in R /\ <<u, y>> \in R => <<t \o u, x \o y>> \in R
  BY DEF Closed
<1> QED
  BY <1>1, FlatRelated

LEMMA ShownClosed ==
  ASSUME NEW c, NEW s
  PROVE  Closed(PieceSet(c), Shown(c, s))
<1> DEFINE P == PieceSet(c)  R == Shown(c, s)
<1>1. <<<<>>, <<>>>> \in R
  BY ShownEmpty
<1>2. \A t, u \in Seq(P), x, y \in Seq(BlockId) : <<t, x>> \in R /\ <<u, y>> \in R => <<t \o u, x \o y>> \in R
  BY ShownJoin
<1> HIDE DEF P, R
<1>3. Closed(P, R)
  BY <1>1, <1>2 DEF Closed
<1> QED
  BY <1>3 DEF P, R

Of(c, r, s) == IF r = s THEN InSection(c, s) ELSE <<>>

(* What is written for each block of a section shows that section.         *)
LEMMA EachRelated ==
  ASSUME NEW c, c.fetched \in Seq(BlockId), NEW r, NEW s, NEW P, NEW R, Closed(P, R), NEW a, DOMAIN a = DOMAIN InSection(c, r),
         a = [k \in DOMAIN a |-> a[k]],
         \A k \in DOMAIN a : LET b == InSection(c, r)[k]
                             IN a[k] \in Seq(P) /\ <<a[k], IfIn(b, s)>> \in R
  PROVE  /\ FlattenSeq(a) \in Seq(P)
         /\ <<FlattenSeq(a), Of(c, r, s)>> \in R
<1> DEFINE L == InSection(c, r)  n == Len(L)
           b == [k \in 1..n |-> IfIn(L[k], s)]
<1>1. L \in Seq(BlockId) /\ (\A k \in 1..n : L[k] \in BlockId /\ Block[L[k]].section = r)
      /\ n \in Nat /\ DOMAIN L = 1..n
  <2>1. Lists(c, r, L)
    BY SectionLists
  <2> HIDE DEF L
  <2> QED
    BY <2>1 DEF Lists
<1>2. \A k \in 1..n : a[k] \in Seq(P) /\ <<a[k], IfIn(L[k], s)>> \in R
  BY <1>1
<1> HIDE DEF L
<1>3. a \in Seq(Seq(P)) /\ Len(a) = n
  <2>1. DOMAIN a = 1..n /\ a = [k \in 1..n |-> a[k]]
    BY <1>1 DEF L
  <2>2. \A k \in 1..n : a[k] \in Seq(P)
    BY <1>2
  <2> HIDE DEF n
  <2> QED
    BY <1>1, <2>1, <2>2, ListOf
<1>4. b \in Seq(Seq(BlockId)) /\ Len(b) = n /\ \A k \in 1..n : b[k] = IfIn(L[k], s)
  <2>1. \A k \in 1..n : IfIn(L[k], s) \in Seq(BlockId)
    BY <1>1 DEF IfIn
  <2> HIDE DEF n
  <2> QED
    BY <1>1, <2>1
<1>5. FlattenSeq(b) = Of(c, r, s)
  <2>1. CASE r = s
    <3>1. b = [k \in DOMAIN L |-> <<L[k]>>]
      BY <1>1, <2>1 DEF IfIn
    <3>2. FlattenSeq([k \in DOMAIN L |-> <<L[k]>>]) = L
      BY <1>1, FlatSingletons
    <3>3. Of(c, r, s) = L
      BY <2>1 DEF Of, L
    <3> QED
      BY <3>1, <3>2, <3>3
  <2>2. CASE r # s
    <3>1. \A k \in 1..Len(b) : b[k] = <<>>
      BY <1>1, <1>4, <2>2 DEF IfIn
    <3>2. FlattenSeq(b) = <<>>
      <4> HIDE DEF b
      <4> QED
        BY <1>4, <3>1, FlatEmpty
    <3> QED
      BY <2>2, <3>2 DEF Of
  <2> QED
    BY <2>1, <2>2
<1> HIDE DEF b, n
<1>6. /\ <<FlattenSeq(a), FlattenSeq(b)>> \in R
      /\ FlattenSeq(a) \in Seq(P) /\ FlattenSeq(b) \in Seq(BlockId)
  <2>1. Len(a) = Len(b) /\ \A k \in 1..Len(a) : <<a[k], b[k]>> \in R
    <3>1. Len(a) = n /\ Len(b) = n
      BY <1>3, <1>4
    <3>2. \A k \in 1..n : <<a[k], b[k]>> \in R
      BY <1>2, <1>4
    <3> QED
      BY <3>1, <3>2
  <2>2. a \in Seq(Seq(P)) /\ b \in Seq(Seq(BlockId))
    BY <1>3, <1>4
  <2> QED
    BY <2>1, <2>2, ClosedFlat
<1> QED
  BY <1>5, <1>6

LEMMA BlocksShown ==
  ASSUME NEW c, c.fetched \in Seq(BlockId), NEW r, NEW s
  PROVE  LET t == Each(InSection(c, r), LAMBDA b : BlockPieces(c, b))
         IN t \in Seq(PieceSet(c)) /\ <<t, Of(c, r, s)>> \in Shown(c, s)
<1> DEFINE L == InSection(c, r)
           a == [k \in DOMAIN L |-> BlockPieces(c, L[k])]
<1>1. Each(L, LAMBDA b : BlockPieces(c, b)) = FlattenSeq(a)
  BY DEF Each
<1>2. \A k \in DOMAIN L : L[k] \in BlockId
  <2>1. Lists(c, r, L)
    BY SectionLists
  <2> HIDE DEF L
  <2> QED
    BY <2>1 DEF Lists
<1>3. \A k \in DOMAIN L : BlockPieces(c, L[k]) \in Seq(PieceSet(c)) /\ <<BlockPieces(c, L[k]), IfIn(L[k], s)>> \in Shown(c, s)
  BY <1>2, ShownBlock
<1>4. /\ DOMAIN a = DOMAIN L /\ a = [k \in DOMAIN a |-> a[k]]
      /\ \A k \in DOMAIN a : a[k] \in Seq(PieceSet(c)) /\ <<a[k], IfIn(L[k], s)>> \in Shown(c, s)
  BY <1>3
<1> HIDE DEF a
<1>5. FlattenSeq(a) \in Seq(PieceSet(c)) /\ <<FlattenSeq(a), Of(c, r, s)>> \in Shown(c, s)
  BY <1>4, ShownClosed, EachRelated
<1> QED
  BY <1>1, <1>5

-----------------------------------------------------------------------------
(* The string prompt.                                                      *)

Sections == Range(SYSTEM_SIDE) \union {"tools", "recent"}

LEMMA SectionOrder ==
  /\ DOMAIN SECTION_ORDER = 1..9
  /\ \A i \in 1..9 : SECTION_ORDER[i] \in Range(SECTION_ORDER)
  /\ \A i, j \in 1..9 : SECTION_ORDER[i] = SECTION_ORDER[j] => i = j
  /\ \A s \in Sections : \E j \in 1..9 : SECTION_ORDER[j] = s
<1>1. DOMAIN SECTION_ORDER = 1..9
  BY DEF SECTION_ORDER
<1>2. /\ SECTION_ORDER[1] = "system" /\ SECTION_ORDER[2] = "task" /\ SECTION_ORDER[3] = "state"
      /\ SECTION_ORDER[4] = "plan" /\ SECTION_ORDER[5] = "retrieved" /\ SECTION_ORDER[6] = "tools"
      /\ SECTION_ORDER[7] = "recent" /\ SECTION_ORDER[8] = "background" /\ SECTION_ORDER[9] = "slack"
  BY DEF SECTION_ORDER
<1>3. 1..9 = {1, 2, 3, 4, 5, 6, 7, 8, 9}
  OBVIOUS
<1>4. \A i, j \in {1, 2, 3, 4, 5, 6, 7, 8, 9} : SECTION_ORDER[i] = SECTION_ORDER[j] => i = j
  BY <1>2
<1>5. Sections \subseteq {"system", "state", "plan", "retrieved", "background", "tools", "recent"}
  <2>1. DOMAIN SYSTEM_SIDE = {1, 2, 3, 4, 5}
    BY DEF SYSTEM_SIDE
  <2>2. \A i \in {1, 2, 3, 4, 5} : SYSTEM_SIDE[i] \in {"system", "state", "plan", "retrieved", "background"}
    BY DEF SYSTEM_SIDE
  <2> QED
    BY <2>1, <2>2 DEF Sections, Range
<1>6. \A s \in {"system", "state", "plan", "retrieved", "background", "tools", "recent"} :
        \E j \in {1, 2, 3, 4, 5, 6, 7, 8, 9} : SECTION_ORDER[j] = s
  BY <1>2
<1>7. \A i \in 1..9 : SECTION_ORDER[i] \in Range(SECTION_ORDER)
  BY <1>1 DEF Range
<1> QED
  BY <1>1, <1>3, <1>4, <1>5, <1>6, <1>7

LEMMA SideOrder ==
  /\ DOMAIN SYSTEM_SIDE = 1..5
  /\ \A i \in 1..5 : SYSTEM_SIDE[i] \in Range(SYSTEM_SIDE) /\ SYSTEM_SIDE[i] \in Sections
  /\ \A i, j \in 1..5 : SYSTEM_SIDE[i] = SYSTEM_SIDE[j] => i = j
  /\ \A s \in Range(SYSTEM_SIDE) : \E j \in 1..5 : SYSTEM_SIDE[j] = s
  /\ "tools" \notin Range(SYSTEM_SIDE) /\ "recent" \notin Range(SYSTEM_SIDE) /\ "task" \notin Range(SYSTEM_SIDE)
  /\ "task" \notin Sections /\ "slack" \notin Sections
  /\ Range(SYSTEM_SIDE) \subseteq Range(SECTION_ORDER)
<1>1. DOMAIN SYSTEM_SIDE = 1..5
  BY DEF SYSTEM_SIDE
<1>2. /\ SYSTEM_SIDE[1] = "system" /\ SYSTEM_SIDE[2] = "state"
      /\ SYSTEM_SIDE[3] = "plan" /\ SYSTEM_SIDE[4] = "retrieved" /\ SYSTEM_SIDE[5] = "background"
  BY DEF SYSTEM_SIDE
<1>3. 1..5 = {1, 2, 3, 4, 5}
  OBVIOUS
<1>4. \A i, j \in {1, 2, 3, 4, 5} : SYSTEM_SIDE[i] = SYSTEM_SIDE[j] => i = j
  BY <1>2
<1>5. Range(SYSTEM_SIDE) = {"system", "state", "plan", "retrieved", "background"}
  BY <1>1, <1>2, <1>3 DEF Range
<1>6. \A i \in 1..5 : SYSTEM_SIDE[i] \in Range(SYSTEM_SIDE)
  BY <1>1 DEF Range
<1>7. \A s \in Range(SYSTEM_SIDE) : \E j \in 1..5 : SYSTEM_SIDE[j] = s
  BY <1>1 DEF Range
<1>8. \A s \in Range(SYSTEM_SIDE) : s \in Sections
  BY DEF Sections
<1>9. \A s \in Range(SYSTEM_SIDE) : s \in Range(SECTION_ORDER)
  BY <1>8, SectionOrder
<1>10. "task" \notin Sections /\ "slack" \notin Sections
  BY <1>5 DEF Sections
<1>11. "tools" \notin Range(SYSTEM_SIDE) /\ "recent" \notin Range(SYSTEM_SIDE) /\ "task" \notin Range(SYSTEM_SIDE)
  BY <1>5
<1> QED
  BY <1>1, <1>3, <1>4, <1>6, <1>7, <1>8, <1>9, <1>10, <1>11

LEMMA TaskShown ==
  ASSUME NEW c, NEW s
  PROVE  TaskPieces(c) \in Seq(PieceSet(c)) /\ <<TaskPieces(c), <<>>>> \in Shown(c, s)
<1> DEFINE P == PieceSet(c)  z == <<"stamp", None>>  y == <<"task", None>>  t == TaskPieces(c)
<1>1. z \in P /\ y \in P /\ ~IsBody(z) /\ ~IsBody(y)
  BY PieceTypes
<1>2. t = IF c.options.stamps THEN <<z>> \o <<y>> ELSE <<>> \o <<y>>
  BY DEF TaskPieces, Stamp
<1> HIDE DEF P, z, y, t
<1>3. <<y>> \in Seq(P) /\ <<z, y>> \in Seq(P) /\ Len(<<y>>) = 1 /\ Len(<<z, y>>) = 2
      /\ <<y>>[1] = y /\ <<z, y>>[1] = z /\ <<z, y>>[2] = y
  BY <1>1
<1>4. t = <<y>> \/ t = <<z, y>>
  <2>1. <<z>> \o <<y>> = <<z, y>>
    BY <1>1, AndOne
  <2>2. <<>> \o <<y>> = <<y>>
    BY <1>3, JoinNothing
  <2> QED
    BY <1>2, <2>1, <2>2
<1>5. t \in Seq(P) /\ Len(t) \in {1, 2} /\ (Len(t) = 1 => t[1] = y) /\ (Len(t) = 2 => t[1] = z /\ t[2] = y)
  BY <1>3, <1>4
<1>6. \A i \in 1..Len(t) : ~IsBody(t[i])
  <2>1. \A i \in 1..1 : i = 1
    OBVIOUS
  <2>2. \A i \in 1..2 : i = 1 \/ i = 2
    OBVIOUS
  <2>3. CASE Len(t) = 1
    BY <1>1, <1>5, <2>1, <2>3
  <2>4. CASE Len(t) = 2
    BY <1>1, <1>5, <2>2, <2>4
  <2> QED
    BY <1>5, <2>3, <2>4
<1>7. <<t, <<>>>> \in Shown(c, s)
  BY <1>5, <1>6, ShownNothing DEF P
<1> QED
  BY <1>5, <1>7 DEF P, t

(* A header changes nothing of what is shown.                              *)
LEMMA HeaderShown ==
  ASSUME NEW c, NEW s, NEW r \in Range(SECTION_ORDER), NEW t \in Seq(PieceSet(c)), NEW ids \in Seq(BlockId),
         <<t, ids>> \in Shown(c, s)
  PROVE  <<Header(r)>> \o t \in Seq(PieceSet(c)) /\ <<<<Header(r)>> \o t, ids>> \in Shown(c, s)
<1> DEFINE h == Header(r)
<1>1. h \in PieceSet(c) /\ ~IsBody(h)
  BY PieceTypes
<1> HIDE DEF h
<1>2. <<h>> \in Seq(PieceSet(c)) /\ Len(<<h>>) = 1 /\ <<h>>[1] = h /\ \A i \in 1..1 : i = 1
  BY <1>1
<1>3. <<<<h>>, <<>>>> \in Shown(c, s)
  BY <1>1, <1>2, ShownNothing
<1>4. <<>> \in Seq(BlockId) /\ <<>> \o ids = ids
  BY JoinNothing
<1>5. <<<<h>> \o t, <<>> \o ids>> \in Shown(c, s)
  BY <1>2, <1>3, <1>4, ShownJoin
<1>6. <<h>> \o t \in Seq(PieceSet(c))
  BY <1>2
<1> QED
  BY <1>4, <1>5, <1>6 DEF h

LEMMA SectionShown ==
  ASSUME NEW c, c.fetched \in Seq(BlockId), NEW s \in Sections, NEW r \in Range(SECTION_ORDER)
  PROVE  SectionText(c, r) \in Seq(PieceSet(c)) /\ <<SectionText(c, r), Of(c, r, s)>> \in Shown(c, s)
<1> DEFINE E == Each(InSection(c, r), LAMBDA b : BlockPieces(c, b))
<1>1. CASE SectionText(c, r) = <<>> /\ Of(c, r, s) = <<>>
  BY <1>1, ShownEmpty
<1>2. CASE r = "task" /\ c.request.task # 0
  <2>1. SectionText(c, r) = <<Header(r)>> \o TaskPieces(c) /\ Of(c, r, s) = <<>>
    BY <1>2, SideOrder DEF SectionText, Of
  <2>2. <<>> \in Seq(BlockId) /\ TaskPieces(c) \in Seq(PieceSet(c)) /\ <<TaskPieces(c), <<>>>> \in Shown(c, s)
    BY TaskShown
  <2> QED
    BY <2>1, <2>2, HeaderShown
<1>3. CASE r # "task" /\ r # "slack" /\ InSection(c, r) # <<>>
  <2>1. SectionText(c, r) = <<Header(r)>> \o E
    BY <1>3 DEF SectionText
  <2>2. E \in Seq(PieceSet(c)) /\ <<E, Of(c, r, s)>> \in Shown(c, s)
    BY BlocksShown
  <2>3. Of(c, r, s) \in Seq(BlockId)
    BY SectionLists DEF Of, Lists
  <2> HIDE DEF E
  <2> QED
    BY <2>1, <2>2, <2>3, HeaderShown
<1>4. CASE r = "task" /\ c.request.task = 0
  <2>1. SectionText(c, r) = <<>> /\ Of(c, r, s) = <<>>
    BY <1>4, SideOrder DEF SectionText, Of
  <2> QED
    BY <1>1, <2>1
<1>5. CASE r # "task" /\ (r = "slack" \/ InSection(c, r) = <<>>)
  <2>1. SectionText(c, r) = <<>> /\ Of(c, r, s) = <<>>
    BY <1>5, SideOrder DEF SectionText, Of
  <2> QED
    BY <1>1, <2>1
<1> QED
  BY <1>2, <1>3, <1>4, <1>5

LEMMA PackShown ==
  ASSUME NEW c, c.fetched \in Seq(BlockId), NEW s \in Sections
  PROVE  <<Rendered(c), InSection(c, s)>> \in Shown(c, s)
<1> DEFINE a == [i \in 1..9 |-> SectionText(c, SECTION_ORDER[i])]
           b == [i \in 1..9 |-> Of(c, SECTION_ORDER[i], s)]
<1>1. Rendered(c) = FlattenSeq(a)
  BY SectionOrder DEF Rendered, Each
<1>2. \A i \in 1..9 : /\ SectionText(c, SECTION_ORDER[i]) \in Seq(PieceSet(c))
                      /\ <<SectionText(c, SECTION_ORDER[i]), Of(c, SECTION_ORDER[i], s)>> \in Shown(c, s)
                      /\ Of(c, SECTION_ORDER[i], s) \in Seq(BlockId)
  BY SectionOrder, SectionShown, SectionLists DEF Of, Lists
<1>3. a \in Seq(Seq(PieceSet(c))) /\ Len(a) = 9
  <2>1. a = [i \in 1..9 |-> a[i]] /\ \A i \in 1..9 : a[i] \in Seq(PieceSet(c))
    BY <1>2
  <2> HIDE DEF a
  <2> QED
    BY <2>1, ListOf
<1>4. b \in Seq(Seq(BlockId)) /\ Len(b) = 9
  <2>1. b = [i \in 1..9 |-> b[i]] /\ \A i \in 1..9 : b[i] \in Seq(BlockId)
    BY <1>2
  <2> HIDE DEF b
  <2> QED
    BY <2>1, ListOf
<1>5. \A i \in 1..9 : <<a[i], b[i]>> \in Shown(c, s)
  BY <1>2
<1>6. PICK j \in 1..9 : SECTION_ORDER[j] = s
  BY SectionOrder
<1>7. b[j] = InSection(c, s) /\ \A i \in 1..9 : i # j => b[i] = <<>>
  <2>1. \A i \in 1..9 : i # j => SECTION_ORDER[i] # s
    BY <1>6, SectionOrder
  <2> QED
    BY <1>6, <2>1 DEF Of
<1> HIDE DEF a, b
<1>8. <<FlattenSeq(a), FlattenSeq(b)>> \in Shown(c, s)
  BY <1>3, <1>4, <1>5, ShownClosed, ClosedFlat
<1>9. FlattenSeq(b) = b[j]
  BY <1>4, <1>7, FlatOnly
<1> QED
  BY <1>1, <1>7, <1>8, <1>9

-----------------------------------------------------------------------------
(* The chat prompt.                                                        *)

MessageSet(c) ==
  [role : {"system", "user", "assistant", "tool"}, section : Range(SECTION_ORDER), content : Seq(PieceSet(c))]
Contents(ms) == [i \in DOMAIN ms |-> ms[i].content]
Told(c, s) ==
  {x \in Seq(MessageSet(c)) \X Seq(BlockId) : <<FlattenSeq(Contents(x[1])), x[2]>> \in Shown(c, s)}

LEMMA ContentsTyped ==
  ASSUME NEW c, NEW m \in Seq(MessageSet(c))
  PROVE  /\ Contents(m) \in Seq(Seq(PieceSet(c))) /\ Len(Contents(m)) = Len(m)
         /\ \A i \in 1..Len(m) : Contents(m)[i] = m[i].content
<1> DEFINE n == Len(m)  e == Contents(m)  M == MessageSet(c)
<1>1. n \in Nat /\ DOMAIN m = 1..n /\ \A i \in 1..n : m[i] \in M
  OBVIOUS
<1>2. \A x \in M : x.content \in Seq(PieceSet(c))
  BY DEF MessageSet
<1> HIDE DEF M, n
<1>3. e = [i \in 1..n |-> m[i].content]
  BY <1>1 DEF Contents
<1> HIDE DEF e
<1>4. e = [i \in 1..n |-> e[i]] /\ \A i \in 1..n : e[i] = m[i].content /\ e[i] \in Seq(PieceSet(c))
  BY <1>1, <1>2, <1>3
<1>5. e \in Seq(Seq(PieceSet(c))) /\ Len(e) = n
  BY <1>1, <1>4, ListOf
<1> QED
  BY <1>4, <1>5 DEF e, n

IsJoin(d, a, b) ==
  /\ Len(a) \in Nat /\ Len(b) \in Nat /\ Len(d) = Len(a) + Len(b)
  /\ \A i \in 1..Len(a) : d[i] = a[i]
  /\ \A i \in 1..Len(b) : d[Len(a) + i] = b[i]

LEMMA JoinFacts ==
  ASSUME NEW T, NEW a \in Seq(T), NEW b \in Seq(T)
  PROVE  a \o b \in Seq(T) /\ IsJoin(a \o b, a, b)
BY DEF IsJoin

LEMMA ContentsJoin ==
  ASSUME NEW c, NEW m \in Seq(MessageSet(c)), NEW n \in Seq(MessageSet(c))
  PROVE  Contents(m \o n) = Contents(m) \o Contents(n)
<1> DEFINE M == MessageSet(c)  T == Seq(PieceSet(c))  x == m \o n
           p == Len(m)  q == Len(n)  a == Contents(m)  b == Contents(n)  e == Contents(x)  d == a \o b
<1>1. /\ p \in Nat /\ q \in Nat /\ x \in Seq(M) /\ Len(x) = p + q
      /\ \A i \in 1..p : x[i] = m[i]
      /\ \A i \in 1..q : x[p + i] = n[i]
  OBVIOUS
<1>2. /\ a \in Seq(T) /\ b \in Seq(T) /\ Len(a) = p /\ Len(b) = q
      /\ \A i \in 1..p : a[i] = m[i].content
      /\ \A i \in 1..q : b[i] = n[i].content
  BY ContentsTyped
<1>3. e \in Seq(T) /\ Len(e) = p + q /\ \A i \in 1..(p + q) : e[i] = x[i].content
  <2> HIDE DEF x
  <2>1. e \in Seq(T) /\ Len(e) = Len(x) /\ \A i \in 1..Len(x) : e[i] = x[i].content
    BY <1>1, ContentsTyped
  <2> QED
    BY <1>1, <2>1
<1> HIDE DEF M, T, x, p, q, a, b, e
<1>4. d \in Seq(T) /\ Len(d) = p + q /\ (\A i \in 1..p : d[i] = a[i]) /\ \A i \in 1..q : d[p + i] = b[i]
  <2>1. a \in Seq(T) /\ b \in Seq(T) /\ Len(a) = p /\ Len(b) = q
    BY <1>2
  <2>2. d \in Seq(T) /\ IsJoin(d, a, b)
    BY <2>1, JoinFacts
  <2> HIDE DEF d
  <2> QED
    BY <2>1, <2>2 DEF IsJoin
<1> HIDE DEF d
<1>5. ASSUME NEW i \in 1..(p + q) PROVE e[i] = d[i]
  <2>1. CASE i <= p
    <3>1. i \in 1..p
      BY <1>1, <2>1
    <3>2. x[i] = m[i] /\ d[i] = a[i]
      BY <1>1, <1>4, <3>1
    <3>3. a[i] = m[i].content /\ e[i] = x[i].content
      BY <1>2, <1>3, <3>1
    <3> QED
      BY <3>2, <3>3
  <2>2. CASE ~(i <= p)
    <3> DEFINE j == i - p
    <3>1. j \in 1..q /\ i = p + j
      BY <1>1, <2>2
    <3> HIDE DEF j
    <3>2. x[i] = n[j] /\ d[i] = b[j]
      BY <1>1, <1>4, <3>1
    <3>3. b[j] = n[j].content /\ e[i] = x[i].content
      BY <1>2, <1>3, <3>1
    <3> QED
      BY <3>2, <3>3
  <2> QED
    BY <2>1, <2>2
<1>6. e = d
  BY <1>3, <1>4, <1>5, SameList
<1> QED
  BY <1>6 DEF a, b, d, e, x

LEMMA ToldClosed ==
  ASSUME NEW c, NEW s
  PROVE  Closed(MessageSet(c), Told(c, s))
<1> DEFINE M == MessageSet(c)  R == Told(c, s)  P == PieceSet(c)
<1>1. <<<<>>, <<>>>> \in R
  <2>1. <<>> \in Seq(M) /\ <<>> \in Seq(BlockId)
    OBVIOUS
  <2>2. Contents(<<>>) \in Seq(Seq(P)) /\ Len(Contents(<<>>)) = 0
    BY <2>1, ContentsTyped
  <2>3. \A i \in 1..Len(Contents(<<>>)) : Contents(<<>>)[i] = <<>>
    BY <2>2
  <2>4. FlattenSeq(Contents(<<>>)) = <<>>
    BY <2>2, <2>3, FlatEmpty
  <2>5. <<<<>>, <<>>>> \in Shown(c, s)
    BY ShownEmpty
  <2> QED
    BY <2>1, <2>4, <2>5 DEF Told
<1>2. ASSUME NEW t \in Seq(M), NEW u \in Seq(M), NEW x \in Seq(BlockId), NEW y \in Seq(BlockId),
             <<t, x>> \in R, <<u, y>> \in R
      PROVE  <<t \o u, x \o y>> \in R
  <2> DEFINE a == Contents(t)  b == Contents(u)  F == FlattenSeq(a)  G == FlattenSeq(b)
  <2>1. <<F, x>> \in Shown(c, s) /\ <<G, y>> \in Shown(c, s)
    BY <1>2 DEF Told
  <2>2. a \in Seq(Seq(P)) /\ b \in Seq(Seq(P))
    BY ContentsTyped
  <2> HIDE DEF a, b
  <2>3. F \in Seq(P) /\ G \in Seq(P)
    BY <2>2, FlatTyped
  <2>4. FlattenSeq(a \o b) = F \o G
    BY <2>2, FlatJoin
  <2>5. Contents(t \o u) = a \o b
    BY ContentsJoin DEF a, b
  <2> HIDE DEF F, G
  <2>6. <<F \o G, x \o y>> \in Shown(c, s)
    BY <2>1, <2>3, ShownJoin
  <2>7. t \o u \in Seq(M) /\ x \o y \in Seq(BlockId)
    OBVIOUS
  <2> HIDE DEF M
  <2> QED
    BY <2>4, <2>5, <2>6, <2>7 DEF Told, M
<1>3. \A t, u \in Seq(M), x, y \in Seq(BlockId) : <<t, x>> \in R /\ <<u, y>> \in R => <<t \o u, x \o y>> \in R
  BY <1>2
<1> HIDE DEF M, R
<1>4. Closed(M, R)
  BY <1>1, <1>3 DEF Closed
<1> QED
  BY <1>4 DEF M, R

LEMMA ToldOne ==
  ASSUME NEW c, NEW s, NEW role \in {"system", "user", "assistant", "tool"}, NEW r \in Range(SECTION_ORDER),
         NEW t \in Seq(PieceSet(c)), NEW ids \in Seq(BlockId), <<t, ids>> \in Shown(c, s)
  PROVE  <<Message(role, r, t)>> \in Seq(MessageSet(c)) /\ <<<<Message(role, r, t)>>, ids>> \in Told(c, s)
<1> DEFINE m == Message(role, r, t)
<1>1. m \in MessageSet(c) /\ m.content = t
  BY DEF Message, MessageSet
<1> HIDE DEF m
<1>2. <<m>> \in Seq(MessageSet(c)) /\ Len(<<m>>) = 1 /\ DOMAIN <<m>> = 1..1 /\ <<m>>[1] = m
  BY <1>1
<1>3. Contents(<<m>>) = <<t>>
  <2> DEFINE e == Contents(<<m>>)
  <2>1. e \in Seq(Seq(PieceSet(c))) /\ Len(e) = 1 /\ e[1] = t
    <3>1. /\ e \in Seq(Seq(PieceSet(c))) /\ Len(e) = Len(<<m>>)
          /\ \A i \in 1..Len(<<m>>) : e[i] = <<m>>[i].content
      BY <1>2, ContentsTyped
    <3>2. 1 \in 1..Len(<<m>>)
      BY <1>2
    <3>3. e[1] = <<m>>[1].content
      BY <3>1, <3>2
    <3> HIDE DEF e
    <3> QED
      BY <1>1, <1>2, <3>1, <3>3
  <2> HIDE DEF e
  <2>2. e = <<t>>
    BY <2>1
  <2> QED
    BY <2>2 DEF e
<1>4. FlattenSeq(<<t>>) = t
  BY FlatOne
<1> QED
  BY <1>2, <1>3, <1>4 DEF Told, m

-----------------------------------------------------------------------------
(* The messages of the sections of S.                                      *)

SideMessage(c, S, r) ==
  IF r \notin S \/ InSection(c, r) = <<>> THEN <<>>
  ELSE <<Message(IF c.request.system_role THEN "system" ELSE "user", r,
                 <<Header(r)>> \o Each(InSection(c, r), LAMBDA b : BlockPieces(c, b)))>>
OfSide(c, S, s) == IF s \in S /\ s \in Range(SYSTEM_SIDE) THEN InSection(c, s) ELSE <<>>

LEMMA SideMessageTold ==
  ASSUME NEW c, c.fetched \in Seq(BlockId), NEW S, NEW s, NEW r \in Range(SYSTEM_SIDE)
  PROVE  /\ SideMessage(c, S, r) \in Seq(MessageSet(c))
         /\ SideMessage(c, S, r) \in Seq({m \in MessageSet(c) : m.section \in S \intersect Range(SYSTEM_SIDE)})
         /\ <<SideMessage(c, S, r), IF r \in S THEN Of(c, r, s) ELSE <<>>>> \in Told(c, s)
<1> DEFINE M == MessageSet(c)  N == {m \in M : m.section \in S \intersect Range(SYSTEM_SIDE)}
           E == Each(InSection(c, r), LAMBDA b : BlockPieces(c, b))
           role == IF c.request.system_role THEN "system" ELSE "user"
           t == <<Header(r)>> \o E
<1>1. CASE r \in S /\ InSection(c, r) # <<>>
  <2>1. SideMessage(c, S, r) = <<Message(role, r, t)>>
    BY <1>1 DEF SideMessage
  <2>2. r \in Range(SECTION_ORDER)
    BY SideOrder
  <2>3. E \in Seq(PieceSet(c)) /\ <<E, Of(c, r, s)>> \in Shown(c, s)
    BY BlocksShown
  <2>4. Of(c, r, s) \in Seq(BlockId)
    BY SectionLists DEF Of, Lists
  <2> HIDE DEF E
  <2>5. t \in Seq(PieceSet(c)) /\ <<t, Of(c, r, s)>> \in Shown(c, s)
    BY <2>2, <2>3, <2>4, HeaderShown
  <2>6. role \in {"system", "user", "assistant", "tool"}
    OBVIOUS
  <2> HIDE DEF t, role
  <2>7. <<Message(role, r, t)>> \in Seq(M) /\ <<<<Message(role, r, t)>>, Of(c, r, s)>> \in Told(c, s)
    BY <2>2, <2>4, <2>5, <2>6, ToldOne
  <2>8. Message(role, r, t) \in N
    <3>1. Message(role, r, t) \in M
      BY <2>2, <2>5, <2>6 DEF Message, MessageSet
    <3>2. Message(role, r, t).section = r
      BY DEF Message
    <3> QED
      BY <1>1, <3>1, <3>2
  <2> HIDE DEF N
  <2>9. <<Message(role, r, t)>> \in Seq(N)
    BY <2>8
  <2> QED
    BY <1>1, <2>1, <2>7, <2>9 DEF N
<1>2. CASE ~(r \in S /\ InSection(c, r) # <<>>)
  <2>1. SideMessage(c, S, r) = <<>> /\ (IF r \in S THEN Of(c, r, s) ELSE <<>>) = <<>>
    BY <1>2 DEF SideMessage, Of
  <2>2. <<<<>>, <<>>>> \in Told(c, s)
    BY ToldClosed DEF Closed
  <2>3. <<>> \in Seq(M) /\ <<>> \in Seq(N)
    OBVIOUS
  <2> QED
    BY <2>1, <2>2, <2>3
<1> QED
  BY <1>1, <1>2

LEMMA SideTold ==
  ASSUME NEW c, c.fetched \in Seq(BlockId), NEW S, NEW s
  PROVE  /\ SideMessages(c, S) \in Seq(MessageSet(c))
         /\ SideMessages(c, S) \in Seq({m \in MessageSet(c) : m.section \in S \intersect Range(SYSTEM_SIDE)})
         /\ OfSide(c, S, s) \in Seq(BlockId)
         /\ <<SideMessages(c, S), OfSide(c, S, s)>> \in Told(c, s)
<1> DEFINE M == MessageSet(c)  N == {m \in M : m.section \in S \intersect Range(SYSTEM_SIDE)}
           a == [i \in 1..5 |-> SideMessage(c, S, SYSTEM_SIDE[i])]
           part(i) == IF SYSTEM_SIDE[i] \in S THEN Of(c, SYSTEM_SIDE[i], s) ELSE <<>>
           b == [i \in 1..5 |-> part(i)]
<1>1. SideMessages(c, S) = FlattenSeq(a)
  BY SideOrder DEF SideMessages, SideMessage, Each
<1>2. \A i \in 1..5 : /\ SideMessage(c, S, SYSTEM_SIDE[i]) \in Seq(M)
                      /\ SideMessage(c, S, SYSTEM_SIDE[i]) \in Seq(N)
                      /\ <<SideMessage(c, S, SYSTEM_SIDE[i]), part(i)>> \in Told(c, s)
  BY SideOrder, SideMessageTold
<1>3. \A i \in 1..5 : part(i) \in Seq(BlockId)
  BY SectionLists DEF Of, Lists
<1>4. OfSide(c, S, s) \in Seq(BlockId)
  BY SectionLists DEF OfSide, Lists
<1>5. \A i \in 1..5 : a[i] \in Seq(M) /\ a[i] \in Seq(N) /\ <<a[i], b[i]>> \in Told(c, s) /\ b[i] = part(i)
  BY <1>2
<1>6. a = [i \in 1..5 |-> a[i]] /\ b = [i \in 1..5 |-> b[i]]
  OBVIOUS
<1> HIDE DEF M, N, a, b, part
<1>7. a \in Seq(Seq(M)) /\ a \in Seq(Seq(N)) /\ Len(a) = 5
  BY <1>5, <1>6, ListOf
<1>8. b \in Seq(Seq(BlockId)) /\ Len(b) = 5
  BY <1>3, <1>5, <1>6, ListOf
<1>9. FlattenSeq(b) = OfSide(c, S, s)
  <2>1. CASE s \in S /\ s \in Range(SYSTEM_SIDE)
    <3>1. PICK j \in 1..5 : SYSTEM_SIDE[j] = s
      BY <2>1, SideOrder
    <3>2. b[j] = InSection(c, s)
      BY <1>5, <2>1, <3>1 DEF part, Of
    <3>3. \A i \in 1..5 : i # j => b[i] = <<>>
      <4>1. \A i \in 1..5 : i # j => SYSTEM_SIDE[i] # s
        BY <3>1, SideOrder
      <4> QED
        BY <1>5, <4>1 DEF part, Of
    <3>4. FlattenSeq(b) = b[j]
      BY <1>8, <3>3, FlatOnly
    <3> QED
      BY <2>1, <3>2, <3>4 DEF OfSide
  <2>2. CASE ~(s \in S /\ s \in Range(SYSTEM_SIDE))
    <3>1. \A i \in 1..5 : b[i] = <<>>
      BY <1>5, <2>2, SideOrder DEF part, Of
    <3>2. FlattenSeq(b) = <<>>
      BY <1>8, <3>1, FlatEmpty
    <3> QED
      BY <2>2, <3>2 DEF OfSide
  <2> QED
    BY <2>1, <2>2
<1>10. Closed(M, Told(c, s))
  BY ToldClosed DEF M
<1>11. <<FlattenSeq(a), FlattenSeq(b)>> \in Told(c, s) /\ FlattenSeq(a) \in Seq(M)
  BY <1>5, <1>7, <1>8, <1>10, ClosedFlat
<1>12. FlattenSeq(a) \in Seq(N)
  BY <1>7, FlatTyped
<1> QED
  BY <1>1, <1>4, <1>9, <1>11, <1>12 DEF M, N

-----------------------------------------------------------------------------
(* The messages of the recent and the tool blocks, and of the task.        *)

LEMMA EachTold ==
  ASSUME NEW c, c.fetched \in Seq(BlockId), NEW r, NEW s, NEW a, DOMAIN a = DOMAIN InSection(c, r),
         a = [k \in DOMAIN a |-> a[k]],
         \A k \in DOMAIN a : \E role \in {"system", "user", "assistant", "tool"}, q \in Range(SECTION_ORDER),
                                t \in Seq(PieceSet(c)) :
           /\ a[k] = <<Message(role, q, t)>>
           /\ <<t, IfIn(InSection(c, r)[k], s)>> \in Shown(c, s)
  PROVE  /\ FlattenSeq(a) \in Seq(MessageSet(c))
         /\ <<FlattenSeq(a), Of(c, r, s)>> \in Told(c, s)
<1> DEFINE M == MessageSet(c)  R == Told(c, s)  L == InSection(c, r)
<1>1. \A k \in DOMAIN L : L[k] \in BlockId
  <2>1. Lists(c, r, L)
    BY SectionLists
  <2> HIDE DEF L
  <2> QED
    BY <2>1 DEF Lists
<1>2. ASSUME NEW k \in DOMAIN a PROVE a[k] \in Seq(M) /\ <<a[k], IfIn(L[k], s)>> \in R
  <2>1. PICK role \in {"system", "user", "assistant", "tool"}, q \in Range(SECTION_ORDER),
             t \in Seq(PieceSet(c)) : /\ a[k] = <<Message(role, q, t)>>
                                      /\ <<t, IfIn(L[k], s)>> \in Shown(c, s)
    OBVIOUS
  <2>2. IfIn(L[k], s) \in Seq(BlockId)
    BY <1>1 DEF IfIn
  <2> QED
    BY <2>1, <2>2, ToldOne
<1>3. Closed(M, R)
  BY ToldClosed
<1> HIDE DEF M, R
<1>4. FlattenSeq(a) \in Seq(M) /\ <<FlattenSeq(a), Of(c, r, s)>> \in R
  BY <1>2, <1>3, EachRelated
<1> QED
  BY <1>4 DEF M, R

LEMMA InOrder == {"recent", "tools", "task"} \subseteq Range(SECTION_ORDER)
<1>1. /\ 7 \in DOMAIN SECTION_ORDER /\ SECTION_ORDER[7] = "recent"
      /\ 6 \in DOMAIN SECTION_ORDER /\ SECTION_ORDER[6] = "tools"
      /\ 2 \in DOMAIN SECTION_ORDER /\ SECTION_ORDER[2] = "task"
  BY DEF SECTION_ORDER
<1> QED
  BY <1>1 DEF Range

LEMMA RecentTold ==
  ASSUME NEW c, c.fetched \in Seq(BlockId), NEW s
  PROVE  RecentMessages(c) \in Seq(MessageSet(c)) /\ <<RecentMessages(c), Of(c, "recent", s)>> \in Told(c, s)
<1> DEFINE L == InSection(c, "recent")
           m(b) == IF Block[b].role = "assistant"
                     THEN <<Message("assistant", "recent", Note(c, b) \o << <<"body", b>> >>)>>
                     ELSE <<Message("user", "recent", BlockPieces(c, b))>>
           a == [k \in DOMAIN L |-> m(L[k])]
<1>1. RecentMessages(c) = FlattenSeq(a)
  BY DEF RecentMessages, Each
<1>2. \A k \in DOMAIN L : L[k] \in BlockId
  <2>1. Lists(c, "recent", L)
    BY SectionLists
  <2> HIDE DEF L
  <2> QED
    BY <2>1 DEF Lists
<1>3. DOMAIN a = DOMAIN L /\ a = [k \in DOMAIN a |-> a[k]]
  OBVIOUS
<1>4. ASSUME NEW k \in DOMAIN a
      PROVE  \E role \in {"system", "user", "assistant", "tool"}, q \in Range(SECTION_ORDER),
                t \in Seq(PieceSet(c)) :
               /\ a[k] = <<Message(role, q, t)>>
               /\ <<t, IfIn(L[k], s)>> \in Shown(c, s)
  <2> DEFINE b == L[k]
  <2>1. b \in BlockId /\ a[k] = m(b)
    BY <1>2
  <2> HIDE DEF b, a
  <2>2. /\ BlockPieces(c, b) \in Seq(PieceSet(c)) /\ <<BlockPieces(c, b), IfIn(b, s)>> \in Shown(c, s)
        /\ Note(c, b) \o << <<"body", b>> >> \in Seq(PieceSet(c))
        /\ <<Note(c, b) \o << <<"body", b>> >>, IfIn(b, s)>> \in Shown(c, s)
    BY <2>1, ShownBlock
  <2>3. "recent" \in Range(SECTION_ORDER)
    BY InOrder
  <2>4. CASE Block[b].role = "assistant"
    <3>1. a[k] = <<Message("assistant", "recent", Note(c, b) \o << <<"body", b>> >>)>>
      BY <2>1, <2>4
    <3> QED
      BY <2>2, <2>3, <3>1 DEF b
  <2>5. CASE Block[b].role # "assistant"
    <3>1. a[k] = <<Message("user", "recent", BlockPieces(c, b))>>
      BY <2>1, <2>5
    <3> QED
      BY <2>2, <2>3, <3>1 DEF b
  <2> QED
    BY <2>4, <2>5
<1> HIDE DEF a
<1>5. FlattenSeq(a) \in Seq(MessageSet(c)) /\ <<FlattenSeq(a), Of(c, "recent", s)>> \in Told(c, s)
  BY <1>3, <1>4, EachTold
<1> QED
  BY <1>1, <1>5

LEMMA ToolsTold ==
  ASSUME NEW c, c.fetched \in Seq(BlockId), NEW s
  PROVE  ToolMessages(c) \in Seq(MessageSet(c)) /\ <<ToolMessages(c), Of(c, "tools", s)>> \in Told(c, s)
<1> DEFINE L == InSection(c, "tools")
           a == [k \in DOMAIN L |-> <<Message("tool", "tools", BlockPieces(c, L[k]))>>]
<1>1. ToolMessages(c) = FlattenSeq(a)
  BY DEF ToolMessages, Each
<1>2. \A k \in DOMAIN L : L[k] \in BlockId
  <2>1. Lists(c, "tools", L)
    BY SectionLists
  <2> HIDE DEF L
  <2> QED
    BY <2>1 DEF Lists
<1>3. DOMAIN a = DOMAIN L /\ a = [k \in DOMAIN a |-> a[k]]
  OBVIOUS
<1>4. ASSUME NEW k \in DOMAIN a
      PROVE  \E role \in {"system", "user", "assistant", "tool"}, q \in Range(SECTION_ORDER),
                t \in Seq(PieceSet(c)) :
               /\ a[k] = <<Message(role, q, t)>>
               /\ <<t, IfIn(L[k], s)>> \in Shown(c, s)
  <2> DEFINE b == L[k]
  <2>1. b \in BlockId /\ a[k] = <<Message("tool", "tools", BlockPieces(c, b))>>
    BY <1>2
  <2> HIDE DEF b, a
  <2>2. BlockPieces(c, b) \in Seq(PieceSet(c)) /\ <<BlockPieces(c, b), IfIn(b, s)>> \in Shown(c, s)
    BY <2>1, ShownBlock
  <2>3. "tools" \in Range(SECTION_ORDER)
    BY InOrder
  <2> QED
    BY <2>1, <2>2, <2>3 DEF b
<1> HIDE DEF a
<1>5. FlattenSeq(a) \in Seq(MessageSet(c)) /\ <<FlattenSeq(a), Of(c, "tools", s)>> \in Told(c, s)
  BY <1>3, <1>4, EachTold
<1> QED
  BY <1>1, <1>5

LEMMA TaskTold ==
  ASSUME NEW c, NEW s
  PROVE  TaskMessage(c) \in Seq(MessageSet(c)) /\ <<TaskMessage(c), <<>>>> \in Told(c, s)
<1>1. CASE c.request.task = 0
  <2>1. <<>> \in Seq(MessageSet(c)) /\ <<<<>>, <<>>>> \in Told(c, s)
    BY ToldClosed DEF Closed
  <2> QED
    BY <1>1, <2>1 DEF TaskMessage
<1>2. CASE c.request.task # 0
  <2>1. TaskPieces(c) \in Seq(PieceSet(c)) /\ <<TaskPieces(c), <<>>>> \in Shown(c, s)
    BY TaskShown
  <2>2. "task" \in Range(SECTION_ORDER) /\ <<>> \in Seq(BlockId)
    BY InOrder
  <2>3. /\ <<Message("user", "task", TaskPieces(c))>> \in Seq(MessageSet(c))
        /\ <<<<Message("user", "task", TaskPieces(c))>>, <<>>>> \in Told(c, s)
    BY <2>1, <2>2, ToldOne
  <2> QED
    BY <1>2, <2>3 DEF TaskMessage
<1> QED
  BY <1>1, <1>2

LEMMA ToldJoin ==
  ASSUME NEW c, NEW s, NEW t \in Seq(MessageSet(c)), NEW u \in Seq(MessageSet(c)),
         NEW x \in Seq(BlockId), NEW y \in Seq(BlockId), <<t, x>> \in Told(c, s), <<u, y>> \in Told(c, s)
  PROVE  <<t \o u, x \o y>> \in Told(c, s) /\ t \o u \in Seq(MessageSet(c)) /\ x \o y \in Seq(BlockId)
<1> DEFINE M == MessageSet(c)
<1>1. Closed(M, Told(c, s))
  BY ToldClosed
<1> HIDE DEF M
<1>2. t \in Seq(M) /\ u \in Seq(M)
  BY DEF M
<1>3. <<t \o u, x \o y>> \in Told(c, s)
  BY <1>1, <1>2 DEF Closed
<1>4. t \o u \in Seq(M) /\ x \o y \in Seq(BlockId)
  BY <1>2
<1> QED
  BY <1>3, <1>4 DEF M

LEMMA ChatShown ==
  ASSUME NEW c, c.fetched \in Seq(BlockId), NEW s \in Sections
  PROVE  /\ Messages(c) \in Seq(MessageSet(c))
         /\ <<Each(Messages(c), LAMBDA m : m.content), InSection(c, s)>> \in Shown(c, s)
<1> DEFINE S == c.options.stable  T == Range(SYSTEM_SIDE) \ S
           m1 == SideMessages(c, S)  m2 == SideMessages(c, T)
           m3 == RecentMessages(c)  m4 == ToolMessages(c)  m5 == TaskMessage(c)
           x1 == OfSide(c, S, s)  x2 == OfSide(c, T, s)  x3 == Of(c, "recent", s)  x4 == Of(c, "tools", s)
           M == MessageSet(c)  R == Told(c, s)
<1>1. /\ m1 \in Seq(M) /\ x1 \in Seq(BlockId) /\ <<m1, x1>> \in R
      /\ m2 \in Seq(M) /\ x2 \in Seq(BlockId) /\ <<m2, x2>> \in R
  BY SideTold
<1>2. m3 \in Seq(M) /\ <<m3, x3>> \in R /\ m4 \in Seq(M) /\ <<m4, x4>> \in R
  BY RecentTold, ToolsTold
<1>3. m5 \in Seq(M) /\ <<m5, <<>>>> \in R
  BY TaskTold
<1>4. x3 \in Seq(BlockId) /\ x4 \in Seq(BlockId) /\ <<>> \in Seq(BlockId)
  BY SectionLists DEF Of, Lists
<1>5. Messages(c) = (((m1 \o m2) \o m3) \o m4) \o m5
  BY DEF Messages, SystemMessages
<1>6. (((x1 \o x2) \o x3) \o x4) \o <<>> = InSection(c, s)
  <2> DEFINE L == InSection(c, s)
  <2>1. \/ x1 = L /\ x2 = <<>> /\ x3 = <<>> /\ x4 = <<>>
        \/ x1 = <<>> /\ x2 = L /\ x3 = <<>> /\ x4 = <<>>
        \/ x1 = <<>> /\ x2 = <<>> /\ x3 = L /\ x4 = <<>>
        \/ x1 = <<>> /\ x2 = <<>> /\ x3 = <<>> /\ x4 = L
    <3>1. s \in Range(SYSTEM_SIDE) \/ s = "tools" \/ s = "recent"
      BY DEF Sections
    <3>2. "tools" \notin Range(SYSTEM_SIDE) /\ "recent" \notin Range(SYSTEM_SIDE)
      BY SideOrder
    <3> QED
      BY <3>1, <3>2 DEF OfSide, Of
  <2>2. L \in Seq(BlockId)
    BY SectionLists DEF Lists
  <2> HIDE DEF L, x1, x2, x3, x4
  <2>3. <<>> \o L = L /\ L \o <<>> = L /\ <<>> \o <<>> = <<>>
    BY <2>2, JoinNothing
  <2>4. (((x1 \o x2) \o x3) \o x4) \o <<>> = L
    BY <2>1, <2>3
  <2> QED
    BY <2>4 DEF L
<1> HIDE DEF m1, m2, m3, m4, m5, x1, x2, x3, x4
<1> DEFINE n == (((m1 \o m2) \o m3) \o m4) \o m5
<1>7. n \in Seq(M) /\ <<n, InSection(c, s)>> \in R
  <2> DEFINE n2 == m1 \o m2  y2 == x1 \o x2
  <2>1. <<n2, y2>> \in R /\ n2 \in Seq(M) /\ y2 \in Seq(BlockId)
    BY <1>1, ToldJoin
  <2> HIDE DEF n2, y2
  <2> DEFINE n3 == n2 \o m3  y3 == y2 \o x3
  <2>2. <<n3, y3>> \in R /\ n3 \in Seq(M) /\ y3 \in Seq(BlockId)
    BY <1>2, <1>4, <2>1, ToldJoin
  <2> HIDE DEF n3, y3
  <2> DEFINE n4 == n3 \o m4  y4 == y3 \o x4
  <2>3. <<n4, y4>> \in R /\ n4 \in Seq(M) /\ y4 \in Seq(BlockId)
    BY <1>2, <1>4, <2>2, ToldJoin
  <2> HIDE DEF n4, y4
  <2>4. <<n4 \o m5, y4 \o <<>>>> \in R /\ n4 \o m5 \in Seq(M)
    BY <1>3, <1>4, <2>3, ToldJoin
  <2>5. n = n4 \o m5 /\ y4 \o <<>> = InSection(c, s)
    BY <1>6 DEF n2, n3, n4, y2, y3, y4
  <2> QED
    BY <2>4, <2>5
<1>8. Messages(c) \in Seq(M) /\ <<Messages(c), InSection(c, s)>> \in R
  BY <1>5, <1>7
<1>9. <<FlattenSeq(Contents(Messages(c))), InSection(c, s)>> \in Shown(c, s)
  BY <1>8 DEF Told
<1>10. Each(Messages(c), LAMBDA m : m.content) = FlattenSeq(Contents(Messages(c)))
  BY DEF Each, Contents
<1> QED
  BY <1>8, <1>9, <1>10

-----------------------------------------------------------------------------
(* What a text shows, told of its plan.                                    *)

(* All of the plan is fetched. *)
Whole(c) == c.fetched \in Seq(BlockId) /\ c.fetched = Ids(c.plan)

TextHolds(c, t) ==
  /\ \A b \in BlockId : Cardinality(BodiesOf(b, t)) = Copies(c.plan, b)
  /\ \A i, j \in {k \in DOMAIN t : IsBody(t[k])} :
       i < j /\ Block[t[i][2]].section = Block[t[j][2]].section => t[i][2] <= t[j][2]

LEMMA PlanIds ==
  ASSUME NEW c, Whole(c)
  PROVE  /\ \E n \in Nat : DOMAIN c.plan = 1..n
         /\ \A b : Times(c.fetched, b) = Copies(c.plan, b)
<1> DEFINE f == c.fetched
<1>1. f \in Seq(BlockId) /\ f = Ids(c.plan)
  BY DEF Whole
<1> HIDE DEF f
<1>2. DOMAIN f = 1..Len(f) /\ Len(f) \in Nat
  BY <1>1
<1>3. DOMAIN f = DOMAIN c.plan /\ \A i \in DOMAIN f : f[i] = c.plan[i].id
  BY <1>1 DEF Ids
<1>4. ASSUME NEW b PROVE Times(f, b) = Copies(c.plan, b)
  <2>1. {i \in DOMAIN f : f[i] = b} = {i \in DOMAIN c.plan : c.plan[i].id = b}
    BY <1>3
  <2> QED
    BY <2>1 DEF Times, Copies
<1> QED
  BY <1>2, <1>3, <1>4 DEF f

LEMMA SectionOf == \A b \in BlockId : Block[b].section \in Sections
BY BlockAssumption DEF Sections

(* The body pieces of a text are blocks.                                   *)
LEMMA BodyTyped ==
  ASSUME NEW c, NEW t \in Seq(PieceSet(c)), NEW i \in DOMAIN t, IsBody(t[i])
  PROVE  t[i][2] \in BlockId /\ t[i] = <<"body", t[i][2]>>
<1>1. t[i] \in PieceSet(c)
  OBVIOUS
<1> QED
  BY <1>1 DEF PieceSet, IsBody

LEMMA BodiesCounted ==
  ASSUME NEW c, NEW s, NEW L, NEW t \in Seq(PieceSet(c)), NEW f, At(t, s, L, f), NEW b \in BlockId,
         Block[b].section = s, DOMAIN L = 1..Len(L), Len(L) \in Nat
  PROVE  Cardinality(BodiesOf(b, t)) = Times(L, b)
<1> DEFINE A == {k \in DOMAIN L : L[k] = b}
           B == BodiesOf(b, t)
           g == [k \in A |-> f[k]]
<1>1. DOMAIN t = 1..Len(t) /\ Len(t) \in Nat
  OBVIOUS
<1>2. IsFiniteSet(B)
  <2>1. B \in SUBSET (1..Len(t)) /\ IsFiniteSet(1..Len(t))
    BY <1>1, FS_Interval DEF BodiesOf
  <2> HIDE DEF B
  <2> QED
    BY <2>1, FS_Subset
<1>3. /\ f \in [1..Len(L) -> 1..Len(t)]
      /\ \A k, l \in 1..Len(L) : k < l => f[k] < f[l]
      /\ \A k \in 1..Len(L) : t[f[k]] = <<"body", L[k]>>
      /\ \A i \in 1..Len(t) : BodyOf(t, i, s) => \E k \in 1..Len(L) : f[k] = i
  BY DEF At
<1>4. g \in [A -> B]
  <2>1. \A k \in A : f[k] \in B
    BY <1>1, <1>3 DEF BodiesOf
  <2> HIDE DEF A, B
  <2> QED
    BY <2>1
<1>5. \A k, l \in A : g[k] = g[l] => k = l
  <2> SUFFICES ASSUME NEW k \in A, NEW l \in A, f[k] = f[l] PROVE k = l
    OBVIOUS
  <2>1. k \in 1..Len(L) /\ l \in 1..Len(L)
    OBVIOUS
  <2>2. k < l \/ l < k \/ k = l
    BY <2>1
  <2>3. f[k] \in Int /\ f[l] \in Int
    BY <1>3, <2>1
  <2> QED
    BY <1>3, <2>1, <2>2, <2>3
<1>6. \A i \in B : \E k \in A : g[k] = i
  <2> SUFFICES ASSUME NEW i \in B PROVE \E k \in A : f[k] = i
    OBVIOUS
  <2>1. i \in 1..Len(t) /\ t[i] = <<"body", b>>
    BY <1>1 DEF BodiesOf
  <2>2. BodyOf(t, i, s)
    BY <2>1 DEF BodyOf, IsBody
  <2>3. PICK k \in 1..Len(L) : f[k] = i
    BY <1>3, <2>1, <2>2
  <2>4. <<"body", L[k]>> = <<"body", b>>
    BY <1>3, <2>1, <2>3
  <2> QED
    BY <2>3, <2>4
<1> HIDE DEF A, B, g
<1>7. Cardinality(A) = Cardinality(B)
  BY <1>2, <1>4, <1>5, <1>6, SameSize
<1> QED
  BY <1>7 DEF A, B, Times

LEMMA BodiesOrdered ==
  ASSUME NEW s, NEW L, NEW t, NEW f, At(t, s, L, f), Sorted(L), \A k \in 1..Len(L) : L[k] \in Int,
         Len(L) \in Nat, Len(t) \in Nat,
         NEW i \in 1..Len(t), NEW j \in 1..Len(t), BodyOf(t, i, s), BodyOf(t, j, s), i < j
  PROVE  t[i][2] <= t[j][2]
<1>1. PICK k \in 1..Len(L) : f[k] = i
  BY DEF At
<1>2. PICK l \in 1..Len(L) : f[l] = j
  BY DEF At
<1>3. t[i][2] = L[k] /\ t[j][2] = L[l]
  BY <1>1, <1>2 DEF At
<1>4. k < l
  <2>1. k # l /\ ~(l < k)
    <3>1. l < k => f[l] < f[k]
      BY DEF At
    <3> QED
      BY <1>1, <1>2, <3>1
  <2> QED
    BY <2>1
<1> QED
  BY <1>3, <1>4 DEF Sorted

LEMMA ShownHolds ==
  ASSUME NEW c, Whole(c), NEW t, \A s \in Sections : <<t, InSection(c, s)>> \in Shown(c, s)
  PROVE  TextHolds(c, t) /\ Warned(c, t) /\ t \in Seq(PieceSet(c))
<1>1. ASSUME NEW s \in Sections
      PROVE  /\ t \in Seq(PieceSet(c)) /\ Warned(c, t)
             /\ \E f : At(t, s, InSection(c, s), f)
             /\ Lists(c, s, InSection(c, s))
             /\ DOMAIN InSection(c, s) = 1..Len(InSection(c, s)) /\ Len(InSection(c, s)) \in Nat
             /\ \A k \in 1..Len(InSection(c, s)) : InSection(c, s)[k] \in Int
  <2> DEFINE L == InSection(c, s)
  <2>1. Lists(c, s, L)
    BY SectionLists DEF Whole
  <2>2. <<t, L>> \in Shown(c, s)
    OBVIOUS
  <2> HIDE DEF L
  <2>3. t \in Seq(PieceSet(c)) /\ Warned(c, t) /\ \E f \in [1..Len(L) -> 1..Len(t)] : At(t, s, L, f)
    BY <2>2 DEF Shown
  <2>4. DOMAIN L = 1..Len(L) /\ Len(L) \in Nat /\ \A k \in 1..Len(L) : L[k] \in BlockId
    BY <2>1 DEF Lists
  <2>5. \A k \in 1..Len(L) : L[k] \in Int
    BY <2>4, BlockIds
  <2> QED
    BY <2>1, <2>3, <2>4, <2>5 DEF L
<1>2. "tools" \in Sections
  BY DEF Sections
<1>3. t \in Seq(PieceSet(c)) /\ Warned(c, t)
  BY <1>1, <1>2
<1>4. DOMAIN t = 1..Len(t) /\ Len(t) \in Nat
  BY <1>3
<1>5. ASSUME NEW b \in BlockId PROVE Cardinality(BodiesOf(b, t)) = Copies(c.plan, b)
  <2> DEFINE s == Block[b].section  L == InSection(c, s)
  <2>1. s \in Sections
    BY SectionOf
  <2> HIDE DEF s
  <2>2. PICK f : At(t, s, L, f)
    BY <1>1, <2>1
  <2>3. DOMAIN L = 1..Len(L) /\ Len(L) \in Nat /\ Lists(c, s, L)
    BY <1>1, <2>1
  <2> HIDE DEF L
  <2>4. Block[b].section = s
    BY DEF s
  <2>5. Cardinality(BodiesOf(b, t)) = Times(L, b)
    BY <1>3, <2>2, <2>3, <2>4, BodiesCounted
  <2>6. Times(L, b) = Times(c.fetched, b)
    BY <2>3, <2>4 DEF Lists
  <2>7. Times(c.fetched, b) = Copies(c.plan, b)
    BY PlanIds
  <2> QED
    BY <2>5, <2>6, <2>7
<1>6. ASSUME NEW i \in {k \in DOMAIN t : IsBody(t[k])}, NEW j \in {k \in DOMAIN t : IsBody(t[k])},
             i < j, Block[t[i][2]].section = Block[t[j][2]].section
      PROVE  t[i][2] <= t[j][2]
  <2> DEFINE s == Block[t[i][2]].section  L == InSection(c, s)
  <2>1. i \in DOMAIN t /\ IsBody(t[i]) /\ t[i][2] \in BlockId
    BY <1>3, BodyTyped
  <2>2. s \in Sections
    BY <2>1, SectionOf
  <2>3. BodyOf(t, i, s) /\ BodyOf(t, j, s) /\ i \in 1..Len(t) /\ j \in 1..Len(t)
    BY <1>4, <1>6 DEF BodyOf
  <2> HIDE DEF s
  <2>4. PICK f : At(t, s, L, f)
    BY <1>1, <2>2
  <2>5. /\ Len(L) \in Nat /\ Lists(c, s, L) /\ \A k \in 1..Len(L) : L[k] \in Int
    BY <1>1, <2>2
  <2> HIDE DEF L
  <2>6. Sorted(L)
    BY <2>5 DEF Lists
  <2> QED
    BY <1>4, <1>6, <2>3, <2>4, <2>5, <2>6, BodiesOrdered
<1> QED
  BY <1>3, <1>5, <1>6 DEF TextHolds

LEMMA PromptHolds ==
  ASSUME NEW c, Whole(c)
  PROVE  TextHolds(c, Prompt(c)) /\ Warned(c, Prompt(c)) /\ Prompt(c) \in Seq(PieceSet(c))
<1>1. ASSUME NEW s \in Sections PROVE <<Prompt(c), InSection(c, s)>> \in Shown(c, s)
  <2>1. c.fetched \in Seq(BlockId)
    BY DEF Whole
  <2>2. CASE c.mode = "pack"
    BY <2>1, <2>2, PackShown DEF Prompt
  <2>3. CASE c.mode # "pack"
    BY <2>1, <2>3, ChatShown DEF Prompt
  <2> QED
    BY <2>2, <2>3
<1> HIDE DEF Prompt
<1> QED
  BY <1>1, ShownHolds

-----------------------------------------------------------------------------
(* Notes.                                                                  *)

(* The warnings of NotedBlocksWarn, for any plan. *)
WarningsOf(plan, b) == {<<"note", x.note>> : x \in {y \in Range(plan) : y.id = b /\ y.note # None}}

LEMMA NoteChosen ==
  ASSUME NEW plan, NEW n \in Nat, DOMAIN plan = 1..n, NEW b, WarningsOf(plan, b) # {}
  PROVE  NoteOf(plan, b) # None /\ <<"note", NoteOf(plan, b)>> \in WarningsOf(plan, b)
<1> DEFINE noted == {i \in DOMAIN plan : plan[i].id = b /\ plan[i].note # None}
           D == {k \in Nat : n - k \in noted}
<1>1. PICK i \in DOMAIN plan : plan[i].id = b /\ plan[i].note # None
  BY DEF WarningsOf, Range
<1>2. D \in SUBSET Nat /\ n - i \in D
  <2>1. n - i \in Nat /\ n - (n - i) = i
    BY <1>1
  <2> QED
    BY <1>1, <2>1
<1>3. PICK m \in D : \A k \in D : m <= k
  <2> HIDE DEF D
  <2> QED
    BY <1>2, LeastNumber
<1>4. n - m \in noted /\ m \in Nat
  OBVIOUS
<1>5. \A j \in noted : j <= n - m
  <2> SUFFICES ASSUME NEW j \in noted PROVE j <= n - m
    OBVIOUS
  <2>1. j \in Nat /\ n - j \in Nat /\ n - (n - j) = j
    OBVIOUS
  <2>2. n - j \in D
    BY <2>1
  <2>3. m <= n - j
    BY <1>3, <2>2
  <2> QED
    BY <1>4, <2>1, <2>3
<1> HIDE DEF D
<1> DEFINE e == CHOOSE j \in noted : \A k \in noted : k <= j
<1>6. e \in noted
  BY <1>4, <1>5
<1>7. noted # {}
  BY <1>4
<1>8. NoteOf(plan, b) = plan[e].note
  BY <1>7 DEF NoteOf
<1> HIDE DEF e
<1>9. plan[e] \in Range(plan) /\ plan[e].id = b /\ plan[e].note # None
  BY <1>6 DEF Range
<1> QED
  BY <1>8, <1>9 DEF WarningsOf

LEMMA WarnedWarns ==
  ASSUME NEW c, Whole(c), NEW t \in Seq(PieceSet(c)), Warned(c, t), NEW i \in DOMAIN t, IsBody(t[i]),
         WarningsOf(c.plan, t[i][2]) # {}
  PROVE  \E j \in {i - 1, i - 2} \intersect DOMAIN t :
           /\ t[j] \in WarningsOf(c.plan, t[i][2])
           /\ \A k \in j..(i - 1) : ~IsBody(t[k])
<1>1. DOMAIN t = 1..Len(t)
  OBVIOUS
<1>2. PICK n \in Nat : DOMAIN c.plan = 1..n
  BY PlanIds
<1>3. NoteOf(c.plan, t[i][2]) # None /\ <<"note", NoteOf(c.plan, t[i][2])>> \in WarningsOf(c.plan, t[i][2])
  BY <1>2, NoteChosen
<1>4. PICK j \in 1..Len(t) : WarnedAt(c, t, i, j)
  BY <1>1, <1>3 DEF Warned
<1> QED
  BY <1>1, <1>3, <1>4 DEF WarnedAt

-----------------------------------------------------------------------------
(* The stable messages of two plans.                                       *)

Side(S) == S \intersect Range(SYSTEM_SIDE)

(* The plans select the same blocks of the sections of S, with the same    *)
(* notes, and the prompts are made the same way.                           *)
SameSections(c, d, S) ==
  /\ c.options = d.options /\ c.request.system_role = d.request.system_role
  /\ \A b \in BlockId : Block[b].section \in Side(S) =>
       NoteOf(c.plan, b) = NoteOf(d.plan, b) /\ Copies(c.plan, b) = Copies(d.plan, b)

LEMMA SectionAlike ==
  ASSUME NEW c, NEW d, Whole(c), Whole(d), NEW S, SameSections(c, d, S), NEW r \in Side(S)
  PROVE  InSection(c, r) = InSection(d, r)
<1> DEFINE x == InSection(c, r)  y == InSection(d, r)
<1>1. Lists(c, r, x) /\ Lists(d, r, y)
  BY SectionLists DEF Whole
<1> HIDE DEF x, y
<1>2. /\ x \in Seq(BlockId) /\ Sorted(x) /\ y \in Seq(BlockId) /\ Sorted(y)
      /\ \A k \in 1..Len(x) : Block[x[k]].section = r
      /\ \A k \in 1..Len(y) : Block[y[k]].section = r
  BY <1>1 DEF Lists
<1>3. x \in Seq(Int) /\ y \in Seq(Int)
  BY <1>2, BlockIds
<1>4. ASSUME NEW v PROVE Times(x, v) = Times(y, v)
  <2>1. CASE v \in BlockId /\ Block[v].section = r
    <3>1. Times(x, v) = Times(c.fetched, v) /\ Times(y, v) = Times(d.fetched, v)
      BY <1>1, <2>1 DEF Lists
    <3>2. Times(c.fetched, v) = Copies(c.plan, v) /\ Times(d.fetched, v) = Copies(d.plan, v)
      BY PlanIds
    <3>3. Copies(c.plan, v) = Copies(d.plan, v)
      BY <2>1 DEF SameSections
    <3> QED
      BY <3>1, <3>2, <3>3
  <2>2. CASE ~(v \in BlockId /\ Block[v].section = r)
    <3>1. \A k \in DOMAIN x : x[k] # v
      BY <1>2, <2>2
    <3>2. \A k \in DOMAIN y : y[k] # v
      BY <1>2, <2>2
    <3>3. {k \in DOMAIN x : x[k] = v} = {} /\ {k \in DOMAIN y : y[k] = v} = {}
      BY <3>1, <3>2
    <3> QED
      BY <3>3 DEF Times
  <2> QED
    BY <2>1, <2>2
<1>5. x = y
  BY <1>2, <1>3, <1>4, SortedEqual
<1> QED
  BY <1>5 DEF x, y

LEMMA SideMessageAlike ==
  ASSUME NEW c, NEW d, Whole(c), Whole(d), NEW S, SameSections(c, d, S), NEW r \in Range(SYSTEM_SIDE)
  PROVE  SideMessage(c, S, r) = SideMessage(d, S, r)
<1>1. CASE r \notin S
  BY <1>1 DEF SideMessage
<1>2. CASE r \in S
  <2>r. r \in Side(S)
    BY <1>2 DEF Side
  <2> DEFINE L == InSection(c, r)
             a == [k \in DOMAIN L |-> BlockPieces(c, L[k])]
             b == [k \in DOMAIN L |-> BlockPieces(d, L[k])]
  <2>1. InSection(d, r) = L
    BY <2>r, SectionAlike
  <2>2. \A k \in DOMAIN L : L[k] \in BlockId /\ Block[L[k]].section = r
    <3>1. Lists(c, r, L)
      BY SectionLists DEF Whole
    <3> HIDE DEF L
    <3> QED
      BY <3>1 DEF Lists
  <2>3. ASSUME NEW k \in DOMAIN L PROVE BlockPieces(c, L[k]) = BlockPieces(d, L[k])
    <3>1. NoteOf(c.plan, L[k]) = NoteOf(d.plan, L[k]) /\ c.options = d.options
      BY <2>2, <2>r DEF SameSections
    <3>2. Note(c, L[k]) = Note(d, L[k]) /\ Stamp(c) = Stamp(d)
      BY <3>1 DEF Note, Stamp
    <3> QED
      BY <3>2 DEF BlockPieces
  <2>4. Each(InSection(c, r), LAMBDA x : BlockPieces(c, x)) = FlattenSeq(a)
    BY DEF Each
  <2>5. Each(InSection(d, r), LAMBDA x : BlockPieces(d, x)) = FlattenSeq(b)
    <3>1. Each(InSection(d, r), LAMBDA x : BlockPieces(d, x))
            = FlattenSeq([k \in DOMAIN InSection(d, r) |-> BlockPieces(d, InSection(d, r)[k])])
      BY DEF Each
    <3> QED
      BY <2>1, <3>1
  <2>6. a = b
    BY <2>3
  <2> HIDE DEF a, b, L
  <2>7. c.request.system_role = d.request.system_role
    BY DEF SameSections
  <2>8. InSection(c, r) = InSection(d, r)
    BY <2>1 DEF L
  <2> DEFINE E == Each(InSection(c, r), LAMBDA x : BlockPieces(c, x))
             F == Each(InSection(d, r), LAMBDA x : BlockPieces(d, x))
  <2>9. E = F
    BY <2>4, <2>5, <2>6
  <2>10. /\ SideMessage(c, S, r) = IF InSection(c, r) = <<>> THEN <<>>
               ELSE <<Message(IF c.request.system_role THEN "system" ELSE "user", r, <<Header(r)>> \o E)>>
         /\ SideMessage(d, S, r) = IF InSection(d, r) = <<>> THEN <<>>
               ELSE <<Message(IF d.request.system_role THEN "system" ELSE "user", r, <<Header(r)>> \o F)>>
    BY <1>2 DEF SideMessage
  <2> HIDE DEF E, F
  <2> QED
    BY <2>7, <2>8, <2>9, <2>10
<1> QED
  BY <1>1, <1>2

LEMMA SideAlike ==
  ASSUME NEW c, NEW d, Whole(c), Whole(d), NEW S, SameSections(c, d, S)
  PROVE  SideMessages(c, S) = SideMessages(d, S)
<1> DEFINE a == [i \in 1..5 |-> SideMessage(c, S, SYSTEM_SIDE[i])]
           b == [i \in 1..5 |-> SideMessage(d, S, SYSTEM_SIDE[i])]
<1>1. SideMessages(c, S) = FlattenSeq(a)
  BY SideOrder DEF SideMessages, SideMessage, Each
<1>2. SideMessages(d, S) = FlattenSeq(b)
  BY SideOrder DEF SideMessages, SideMessage, Each
<1>3. a = b
  <2>1. \A i \in 1..5 : SideMessage(c, S, SYSTEM_SIDE[i]) = SideMessage(d, S, SYSTEM_SIDE[i])
    BY SideOrder, SideMessageAlike
  <2> QED
    BY <2>1
<1> HIDE DEF a, b
<1> QED
  BY <1>1, <1>2, <1>3

-----------------------------------------------------------------------------
(* The cache boundary.                                                     *)

(* y starts with m, and what follows is of no section of X. *)
Starts(y, m, X) ==
  /\ Len(m) \in Nat /\ Len(y) \in Nat /\ Len(m) <= Len(y)
  /\ \A i \in 1..Len(m) : y[i] = m[i]
  /\ \A i \in 1..Len(y) : i > Len(m) => y[i].section \notin X

LEMMA StartsJoin ==
  ASSUME NEW M, NEW y \in Seq(M), NEW z \in Seq(M), NEW m, NEW X, Starts(y, m, X),
         \A i \in 1..Len(z) : z[i].section \notin X
  PROVE  Starts(y \o z, m, X) /\ y \o z \in Seq(M)
<1> DEFINE v == y \o z
<1>1. v \in Seq(M) /\ IsJoin(v, y, z)
  BY JoinFacts
<1> HIDE DEF v
<1>2. /\ Len(y) \in Nat /\ Len(z) \in Nat /\ Len(v) = Len(y) + Len(z)
      /\ \A i \in 1..Len(y) : v[i] = y[i]
      /\ \A i \in 1..Len(z) : v[Len(y) + i] = z[i]
  BY <1>1 DEF IsJoin
<1>3. /\ Len(m) \in Nat /\ Len(m) <= Len(y)
      /\ \A i \in 1..Len(m) : y[i] = m[i]
      /\ \A i \in 1..Len(y) : i > Len(m) => y[i].section \notin X
  BY DEF Starts
<1>4. ASSUME NEW i \in 1..Len(v), i > Len(m) PROVE v[i].section \notin X
  <2>1. CASE i <= Len(y)
    <3>1. i \in 1..Len(y)
      BY <1>2, <2>1
    <3> QED
      BY <1>2, <1>3, <1>4, <3>1
  <2>2. CASE ~(i <= Len(y))
    <3> DEFINE j == i - Len(y)
    <3>1. j \in 1..Len(z) /\ i = Len(y) + j
      BY <1>2, <2>2
    <3> HIDE DEF j
    <3>2. v[i] = z[j]
      BY <1>2, <3>1
    <3> QED
      BY <3>1, <3>2
  <2> QED
    BY <2>1, <2>2
<1>5. \A i \in 1..Len(m) : i \in 1..Len(y) /\ v[i] = m[i]
  <2>1. \A i \in 1..Len(m) : i \in 1..Len(y)
    BY <1>2, <1>3
  <2> QED
    BY <1>2, <1>3, <2>1
<1>6. Len(v) \in Nat /\ Len(m) <= Len(v)
  BY <1>2, <1>3
<1>7. Starts(v, m, X)
  BY <1>3, <1>4, <1>5, <1>6 DEF Starts
<1> QED
  BY <1>1, <1>7 DEF v

LEMMA LaterSections ==
  ASSUME NEW c, Whole(c)
  PROVE  LET N == {m \in MessageSet(c) : m.section \in {"recent", "tools", "task"}}
         IN RecentMessages(c) \in Seq(N) /\ ToolMessages(c) \in Seq(N) /\ TaskMessage(c) \in Seq(N)
<1> DEFINE N == {m \in MessageSet(c) : m.section \in {"recent", "tools", "task"}}
<1>1. ASSUME NEW role \in {"system", "user", "assistant", "tool"}, NEW q \in {"recent", "tools", "task"},
             NEW t \in Seq(PieceSet(c))
      PROVE  <<Message(role, q, t)>> \in Seq(N)
  <2>1. q \in Range(SECTION_ORDER)
    BY InOrder
  <2>2. Message(role, q, t) \in N
    BY <2>1 DEF Message, MessageSet
  <2> HIDE DEF N
  <2> QED
    BY <2>2
<1>2. ASSUME NEW r, NEW k \in DOMAIN InSection(c, r) PROVE InSection(c, r)[k] \in BlockId
  <2> DEFINE L == InSection(c, r)
  <2>1. Lists(c, r, L)
    BY SectionLists DEF Whole
  <2> HIDE DEF L
  <2>2. \A i \in DOMAIN L : L[i] \in BlockId
    BY <2>1 DEF Lists
  <2> QED
    BY <2>2 DEF L
<1>3. ASSUME NEW r, NEW a, DOMAIN a = DOMAIN InSection(c, r), a = [k \in DOMAIN a |-> a[k]],
             \A k \in DOMAIN a : a[k] \in Seq(N)
      PROVE  FlattenSeq(a) \in Seq(N)
  <2> DEFINE L == InSection(c, r)
  <2>1. Lists(c, r, L)
    BY SectionLists DEF Whole
  <2> HIDE DEF L
  <2>2. DOMAIN L = 1..Len(L) /\ Len(L) \in Nat
    BY <2>1 DEF Lists
  <2>3. DOMAIN a = 1..Len(L)
    BY <1>3, <2>2 DEF L
  <2> HIDE DEF N
  <2>4. a \in Seq(Seq(N))
    BY <1>3, <2>2, <2>3, ListOf
  <2> QED
    BY <2>4, FlatTyped
<1>4. RecentMessages(c) \in Seq(N)
  <2> DEFINE L == InSection(c, "recent")
             m(b) == IF Block[b].role = "assistant"
                       THEN <<Message("assistant", "recent", Note(c, b) \o << <<"body", b>> >>)>>
                       ELSE <<Message("user", "recent", BlockPieces(c, b))>>
             a == [k \in DOMAIN L |-> m(L[k])]
  <2>1. RecentMessages(c) = FlattenSeq(a)
    BY DEF RecentMessages, Each
  <2>2. ASSUME NEW b \in BlockId PROVE m(b) \in Seq(N)
    <3>1. BlockPieces(c, b) \in Seq(PieceSet(c)) /\ Note(c, b) \o << <<"body", b>> >> \in Seq(PieceSet(c))
      BY ShownBlock
    <3> HIDE DEF N
    <3> QED
      BY <1>1, <3>1
  <2>3. DOMAIN a = DOMAIN L /\ a = [k \in DOMAIN a |-> a[k]] /\ \A k \in DOMAIN a : a[k] \in Seq(N)
    <3> HIDE DEF m, N
    <3> QED
      BY <1>2, <2>2
  <2> HIDE DEF a, N
  <2> QED
    BY <1>3, <2>1, <2>3
<1>5. ToolMessages(c) \in Seq(N)
  <2> DEFINE L == InSection(c, "tools")
             m(b) == <<Message("tool", "tools", BlockPieces(c, b))>>
             a == [k \in DOMAIN L |-> m(L[k])]
  <2>1. ToolMessages(c) = FlattenSeq(a)
    BY DEF ToolMessages, Each
  <2>2. ASSUME NEW b \in BlockId PROVE m(b) \in Seq(N)
    <3>1. BlockPieces(c, b) \in Seq(PieceSet(c))
      BY ShownBlock
    <3> HIDE DEF N
    <3> QED
      BY <1>1, <3>1
  <2>3. DOMAIN a = DOMAIN L /\ a = [k \in DOMAIN a |-> a[k]] /\ \A k \in DOMAIN a : a[k] \in Seq(N)
    <3> HIDE DEF m, N
    <3> QED
      BY <1>2, <2>2
  <2> HIDE DEF a, N
  <2> QED
    BY <1>3, <2>1, <2>3
<1>6. TaskMessage(c) \in Seq(N)
  <2>1. <<>> \in Seq(N)
    OBVIOUS
  <2>2. TaskPieces(c) \in Seq(PieceSet(c))
    BY TaskShown
  <2>3. <<Message("user", "task", TaskPieces(c))>> \in Seq(N)
    <3> HIDE DEF N
    <3> QED
      BY <1>1, <2>2
  <2> HIDE DEF N
  <2> QED
    BY <2>1, <2>3 DEF TaskMessage
<1> QED
  BY <1>4, <1>5, <1>6

(* The prompt starts with the messages of the stable sections, and the     *)
(* boundary is where they end.                                             *)
LEMMA StablePrefix ==
  ASSUME NEW c, Whole(c)
  PROVE  LET S == c.options.stable
         IN /\ Starts(Messages(c), SideMessages(c, S), Side(S))
            /\ Messages(c) \in Seq(MessageSet(c))
            /\ Boundary(c) = Len(SideMessages(c, S))
            /\ SideMessages(c, S) \in Seq({m \in MessageSet(c) : m.section \in Side(S)})
<1> DEFINE S == c.options.stable  T == Range(SYSTEM_SIDE) \ S  M == MessageSet(c)  X == Side(S)
           m1 == SideMessages(c, S)  m2 == SideMessages(c, T)
           m3 == RecentMessages(c)  m4 == ToolMessages(c)  m5 == TaskMessage(c)
           N1 == {m \in M : m.section \in X}
           N2 == {m \in M : m.section \in T}
           N3 == {m \in M : m.section \in {"recent", "tools", "task"}}
<1>1. m1 \in Seq(M) /\ m1 \in Seq(N1)
  BY SideTold DEF Whole, Side
<1>2. m2 \in Seq(M) /\ m2 \in Seq(N2)
  <2>1. T \intersect Range(SYSTEM_SIDE) = T
    OBVIOUS
  <2>2. m2 \in Seq(M) /\ m2 \in Seq({m \in M : m.section \in T \intersect Range(SYSTEM_SIDE)})
    BY SideTold DEF Whole
  <2> QED
    BY <2>1, <2>2
<1>3. m3 \in Seq(N3) /\ m4 \in Seq(N3) /\ m5 \in Seq(N3)
  BY LaterSections
<1>4. \A m \in N2 : m \in M /\ m.section \notin X /\ m.section \notin S
  BY DEF Side
<1>5. \A m \in N3 : m \in M /\ m.section \notin X
  BY SideOrder DEF Side
<1>6. \A m \in N1 : m \in M /\ m.section \in S
  BY DEF Side
<1>7. Messages(c) = (((m1 \o m2) \o m3) \o m4) \o m5 /\ SystemMessages(c) = m1 \o m2
  BY DEF Messages, SystemMessages
<1> DEFINE y2 == m1 \o m2  y3 == y2 \o m3  y4 == y3 \o m4  y5 == y4 \o m5
<1>8. Boundary(c) = Cardinality({i \in DOMAIN y2 : \A j \in 1..i : y2[j].section \in S})
  BY <1>7 DEF Boundary
<1> HIDE DEF m1, m2, m3, m4, m5, M, N1, N2, N3, X, S, T
<1>9. /\ \A i \in 1..Len(m2) : m2[i].section \notin X /\ m2[i].section \notin S
      /\ \A i \in 1..Len(m1) : m1[i].section \in S
  BY <1>1, <1>2, <1>4, <1>6
<1>10. ASSUME NEW m \in Seq(N3) PROVE m \in Seq(M) /\ \A i \in 1..Len(m) : m[i].section \notin X
  BY <1>5
<1>11. Starts(m1, m1, X)
  <2>1. Len(m1) \in Nat
    BY <1>1
  <2> QED
    BY <2>1 DEF Starts
<1>12. Starts(y2, m1, X) /\ y2 \in Seq(M)
  BY <1>1, <1>2, <1>9, <1>11, StartsJoin
<1>13. Boundary(c) = Len(m1)
  <2>1. y2 \in Seq(M) /\ IsJoin(y2, m1, m2)
    BY <1>1, <1>2, JoinFacts
  <2> DEFINE p == Len(m1)  q == Len(m2)
  <2> HIDE DEF y2
  <2>2. /\ p \in Nat /\ q \in Nat /\ DOMAIN y2 = 1..(p + q)
        /\ \A i \in 1..p : y2[i] = m1[i]
        /\ \A i \in 1..q : y2[p + i] = m2[i]
    BY <2>1 DEF IsJoin
  <2> HIDE DEF p, q
  <2>3. \A i \in 1..p : y2[i].section \in S
    BY <1>9, <2>2 DEF p
  <2>4. \A i \in 1..(p + q) : i > p => y2[p + 1].section \notin S /\ p + 1 \in 1..i
    <3> SUFFICES ASSUME NEW i \in 1..(p + q), i > p PROVE y2[p + 1].section \notin S /\ p + 1 \in 1..i
      OBVIOUS
    <3>1. 1 \in 1..q /\ p + 1 \in 1..i
      BY <2>2
    <3>2. y2[p + 1] = m2[1] /\ m2[1].section \notin S
      BY <1>9, <2>2, <3>1 DEF q
    <3> QED
      BY <3>1, <3>2
  <2>5. {i \in 1..(p + q) : \A j \in 1..i : y2[j].section \in S} = 1..p
    <3>1. ASSUME NEW i \in 1..(p + q), \A j \in 1..i : y2[j].section \in S PROVE i \in 1..p
      <4>1. ~(i > p)
        BY <2>4, <3>1
      <4> QED
        BY <2>2, <4>1
    <3>2. ASSUME NEW i \in 1..p PROVE i \in 1..(p + q) /\ \A j \in 1..i : y2[j].section \in S
      <4>1. i \in 1..(p + q) /\ \A j \in 1..i : j \in 1..p
        BY <2>2
      <4> QED
        BY <2>3, <4>1
    <3> QED
      BY <3>1, <3>2
  <2>6. Cardinality(1..p) = p
    BY <2>2, FS_Interval
  <2>7. Boundary(c) = Cardinality(1..p)
    BY <1>8, <2>2, <2>5
  <2> QED
    BY <2>6, <2>7 DEF p
<1> HIDE DEF y2
<1>14. Starts(y3, m1, X) /\ y3 \in Seq(M)
  BY <1>3, <1>10, <1>12, StartsJoin
<1> HIDE DEF y3
<1>15. Starts(y4, m1, X) /\ y4 \in Seq(M)
  BY <1>3, <1>10, <1>14, StartsJoin
<1> HIDE DEF y4
<1>16. Starts(y5, m1, X) /\ y5 \in Seq(M)
  BY <1>3, <1>10, <1>15, StartsJoin
<1>17. Messages(c) = y5
  BY <1>7 DEF y2, y3, y4
<1> HIDE DEF y5
<1> QED
  BY <1>1, <1>13, <1>16, <1>17 DEF m1, M, N1, X, S

(* What CachedPrefixKept says of one prompt and of two. *)
LEMMA PrefixSections ==
  ASSUME NEW c, Whole(c), NEW i \in DOMAIN Messages(c)
  PROVE  i <= Boundary(c) <=> Messages(c)[i].section \in Side(c.options.stable)
<1> DEFINE S == c.options.stable  m == SideMessages(c, S)  y == Messages(c)  X == Side(S)
           N == {x \in MessageSet(c) : x.section \in X}
<1>1. Starts(y, m, X) /\ y \in Seq(MessageSet(c)) /\ Boundary(c) = Len(m) /\ m \in Seq(N)
  BY StablePrefix
<1>2. \A x \in N : x.section \in X
  OBVIOUS
<1> HIDE DEF m, y, X, N
<1>3. \A k \in 1..Len(m) : m[k].section \in X
  BY <1>1, <1>2
<1>4. i \in 1..Len(y) /\ Len(y) \in Nat
  BY <1>1 DEF y
<1>5. CASE i <= Len(m)
  <2>1. i \in 1..Len(m)
    BY <1>1, <1>4, <1>5
  <2>2. y[i] = m[i]
    BY <1>1, <2>1 DEF Starts
  <2> QED
    BY <1>1, <1>3, <1>5, <2>1, <2>2 DEF y, X
<1>6. CASE ~(i <= Len(m))
  <2>1. i > Len(m)
    BY <1>1, <1>4, <1>6
  <2>2. y[i].section \notin X
    BY <1>1, <1>4, <2>1 DEF Starts
  <2> QED
    BY <1>1, <1>6, <2>2 DEF y, X
<1> QED
  BY <1>5, <1>6

LEMMA PrefixIs ==
  ASSUME NEW c, Whole(c)
  PROVE  SubSeq(Messages(c), 1, Boundary(c)) = SideMessages(c, c.options.stable)
<1> DEFINE S == c.options.stable  m == SideMessages(c, S)  y == Messages(c)  X == Side(S)
           N == {x \in MessageSet(c) : x.section \in X}
<1>1. Starts(y, m, X) /\ y \in Seq(MessageSet(c)) /\ Boundary(c) = Len(m) /\ m \in Seq(N)
  BY StablePrefix
<1> HIDE DEF m, y, X, N
<1>2. Len(m) \in Nat /\ Len(y) \in Nat /\ Len(m) <= Len(y) /\ \A i \in 1..Len(m) : y[i] = m[i]
  BY <1>1 DEF Starts
<1> DEFINE u == SubSeq(y, 1, Len(m))
<1>3. Len(u) = Len(m) /\ u = [i \in 1..Len(m) |-> y[i]]
  <2>1. 1 \in 1..(Len(y) + 1) /\ Len(m) \in (1 - 1)..Len(y) /\ Len(m) - 1 + 1 = Len(m)
    BY <1>2
  <2>2. /\ u \in Seq(MessageSet(c)) /\ Len(u) = Len(m) - 1 + 1
        /\ \A i \in 1..(Len(m) - 1 + 1) : u[i] = y[1 + i - 1]
    BY <1>1, <2>1
  <2> HIDE DEF u
  <2>3. \A i \in 1..Len(m) : 1 + i - 1 = i
    BY <1>2
  <2>4. Len(u) = Len(m) /\ \A i \in 1..Len(m) : u[i] = y[i]
    BY <2>1, <2>2, <2>3
  <2>5. u = [i \in 1..Len(m) |-> u[i]]
    BY <2>2, <2>4
  <2> QED
    BY <2>4, <2>5
<1> HIDE DEF u
<1>4. u = m
  <2>1. m = [i \in 1..Len(m) |-> m[i]]
    BY <1>1
  <2> QED
    BY <1>2, <1>3, <2>1
<1> QED
  BY <1>1, <1>4 DEF u, m, y

-----------------------------------------------------------------------------
(* Prompts that were rendered.                                             *)

(* The messages and the boundary are those of what was fetched. *)
AsCalled(c) == c.messages = Messages(Input(c)) /\ c.boundary = Boundary(Input(c))

(* The last chat prompt was rendered from all of its plan, with the        *)
(* options the packer still has; so is a prompt about to be returned, by   *)
(* PackInv, and there is none but in the packing of a command.             *)
Rendering ==
  /\ command.pc # "packing" => call.pc = "idle"
  /\ call.pc = "packed" /\ call.mode = "chat" => AsCalled(call)
  /\ prior.pc = "packed" => prior.options = options /\ Whole(prior) /\ AsCalled(prior)

LEMMA RenderingStays ==
  ASSUME Rendering, UNCHANGED <<options, call, prior>>,
         command'.pc # "packing" => command.pc # "packing"
  PROVE  Rendering'
<1>1. AsCalled(call)' <=> AsCalled(call)
  BY DEF AsCalled, Input
<1>2. /\ prior.pc = "packed" => prior.options = options /\ Whole(prior) /\ AsCalled(prior)
      /\ prior' = prior /\ options' = options
  BY DEF Rendering
<1>3. (prior.pc = "packed" => prior.options = options /\ Whole(prior) /\ AsCalled(prior))'
  BY <1>2
<1> QED
  BY <1>1, <1>3 DEF Rendering

LEMMA RenderingCalls ==
  ASSUME Rendering, Pack \/ PackChat, PackInv, PackInv'
  PROVE  Rendering'
<1>1. UNCHANGED <<options, prior>> /\ call'.pc = "fetch"
  BY DEF Pack, PackChat, Call, Idle
<1>2. command'.pc = "packing"
  BY CommandWorks DEF Pack, PackChat, Working, PackInv, CommandSound, IsCommand
<1> QED
  BY <1>1, <1>2 DEF Rendering

LEMMA RenderingRenders ==
  ASSUME Rendering, PackerStep, PackInv
  PROVE  Rendering'
<1>1. UNCHANGED <<options, prior, command>> /\ call.pc = "fetch"
  BY DEF PackerStep, Fetch, Render, cvars
<1>2. command.pc = "packing"
  BY <1>1 DEF Rendering
<1>3. IsCall(call)
  BY <1>2 DEF PackInv, CallSound, IsCall
<1>4. ASSUME NEW p \in {"storage", "tokenizer", "budget"}, call' = [call EXCEPT !.pc = p]
      PROVE  call'.pc = p
  BY <1>3, <1>4, CallEnds
<1>5. ASSUME call' = [call EXCEPT !.todo = Tail(@), !.fetched = Append(@, Head(call.todo))]
      PROVE  call'.pc = "fetch"
  <2> DEFINE t == Tail(call.todo)  f == Append(call.fetched, Head(call.todo))
  <2>1. call' = [call EXCEPT !.todo = t, !.fetched = f]
    BY <1>5
  <2> HIDE DEF t, f
  <2>2. HasRead(call, [call EXCEPT !.todo = t, !.fetched = f], t, f)
    BY <1>3, CallReads
  <2>3. HasRead(call, call', t, f)
    BY <2>1, <2>2
  <2> QED
    BY <1>1, <2>3 DEF HasRead
<1>6. ASSUME NEW t, NEW m, NEW b, call.mode # "pack" => m = Messages(Input(call)) /\ b = Boundary(Input(call)),
             call' = [call EXCEPT !.pc = "packed", !.text = t, !.messages = m, !.boundary = b]
      PROVE  call'.mode = "chat" => AsCalled(call')
  <2>1. HasPacked(call, call', "packed", t, m, b)
    BY <1>3, <1>6, CallPacks
  <2>2. Input(call') = Input(call)
    BY <2>1 DEF HasPacked, SameCall, Input
  <2> QED
    BY <1>6, <2>1, <2>2 DEF HasPacked, SameCall, AsCalled
<1> DEFINE M == IF call.mode = "pack" THEN <<>> ELSE Messages(Input(call))
           B == IF call.mode = "pack" THEN 0 ELSE Boundary(Input(call))
<1>7. \/ \E p \in {"storage", "tokenizer", "budget"} : call' = [call EXCEPT !.pc = p]
      \/ call' = [call EXCEPT !.todo = Tail(@), !.fetched = Append(@, Head(call.todo))]
      \/ call' = [call EXCEPT !.pc = "packed", !.text = Text(call), !.messages = M, !.boundary = B]
  BY DEF PackerStep, Fetch, Render
<1>8. call.mode # "pack" => M = Messages(Input(call)) /\ B = Boundary(Input(call))
  OBVIOUS
<1> HIDE DEF M, B
<1>9. call'.pc = "packed" /\ call'.mode = "chat" => AsCalled(call')
  <2>1. CASE \E p \in {"storage", "tokenizer", "budget"} : call' = [call EXCEPT !.pc = p]
    BY <1>4, <2>1
  <2>2. CASE call' = [call EXCEPT !.todo = Tail(@), !.fetched = Append(@, Head(call.todo))]
    BY <1>5, <2>2
  <2>3. CASE call' = [call EXCEPT !.pc = "packed", !.text = Text(call), !.messages = M, !.boundary = B]
    <3> DEFINE x == Text(call)
    <3> HIDE DEF x
    <3>1. call' = [call EXCEPT !.pc = "packed", !.text = x, !.messages = M, !.boundary = B]
      BY <2>3 DEF x
    <3> QED
      BY <1>6, <1>8, <3>1
  <2> QED
    BY <1>7, <2>1, <2>2, <2>3
<1> QED
  BY <1>1, <1>2, <1>9 DEF Rendering, AsCalled

(* A chat prompt that is returned is the prior one of the next.            *)
LEMMA RenderingReturns ==
  ASSUME Rendering, PackerReturns, PackInv
  PROVE  Rendering'
<1>1. /\ command.pc = "packing" /\ options' = options /\ call' = Idle
      /\ prior' = IF call.pc = "packed" /\ call.mode = "chat" THEN call ELSE prior
  BY DEF PackerReturns, Return
<1>2. call'.pc = "idle"
  BY <1>1 DEF Idle
<1>3. ASSUME call.pc = "packed", call.mode = "chat"
      PROVE  call.options = options /\ Whole(call) /\ AsCalled(call)
  <2>1. /\ call.options = options /\ call.plan = command.plan /\ call.fetched = Ids(command.plan)
        /\ Ids(command.plan) \in Seq(BlockId)
    BY <1>1, <1>3 DEF PackInv, CallSound, CommandSound
  <2>2. Ids(call.plan) = Ids(command.plan)
    BY <2>1
  <2> QED
    BY <1>3, <2>1, <2>2 DEF Rendering, Whole
<1>4. prior'.pc = "packed" => prior'.options = options /\ Whole(prior') /\ AsCalled(prior')
  BY <1>1, <1>3 DEF Rendering
<1> QED
  BY <1>1, <1>2, <1>4 DEF Rendering, Whole, AsCalled

LEMMA RenderingStep == PackInv /\ PackInv' /\ Rendering /\ [CNext]_allVars => Rendering'
<1> SUFFICES ASSUME PackInv, PackInv', Rendering, [CNext]_allVars PROVE Rendering'
  OBVIOUS
<1>1. CASE Pack \/ PackChat
  BY <1>1, RenderingCalls
<1>2. CASE PackerStep
  BY <1>2, RenderingRenders
<1>3. CASE PackerReturns
  BY <1>3, RenderingReturns
<1>4. CASE Page
  <2>1. command.pc # "packing" /\ UNCHANGED <<options, call, prior>>
    BY <1>4 DEF Page, vars
  <2> QED
    BY <2>1, RenderingStays
<1>5. ASSUME NEW form \in Forms, NEW request \in Requests, NEW traced \in BOOLEAN, Start(form, request, traced)
      PROVE  Rendering'
  <2>1. command.pc # "packing" /\ UNCHANGED <<options, call, prior>>
    BY <1>5 DEF Start, vars
  <2> QED
    BY <2>1, RenderingStays
<1>6. CASE Trace \/ End
  <2>1. command.pc # "packing" /\ UNCHANGED <<options, call, prior>>
    BY <1>6 DEF Trace, End, vars
  <2> QED
    BY <2>1, RenderingStays
<1>7. ASSUME UNCHANGED command, UNCHANGED <<options, call, prior>>
      PROVE  Rendering'
  BY <1>7, RenderingStays
<1>8. ASSUME NEW a \in Agents, (\E c \in DOMAIN traces : FetchTrace(a, c)) \/ RecordTrace(a)
      PROVE  Rendering'
  BY <1>7, <1>8 DEF FetchTrace, RecordTrace, vars
<1>9. CASE (\E b \in Volatile : OtherPut(b) \/ OtherDelete(b)) /\ UNCHANGED cvars
  BY <1>7, <1>9 DEF OtherPut, OtherDelete, cvars
<1>10. CASE UNCHANGED allVars
  BY <1>7, <1>10 DEF allVars, vars, cvars
<1> QED
  BY <1>1, <1>2, <1>3, <1>4, <1>5, <1>6, <1>8, <1>9, <1>10 DEF CNext

(* A prompt's messages are those of all of its plan, although the packer   *)
(* reads the blocks one by one, and the last chat prompt stays what it was *)
(* when it was returned.                                                   *)
THEOREM PromptsRendered == CSpec => []Rendering
<1>1. CInit => Rendering
  BY DEF CInit, Init, Idle, Rendering, Resting
<1> QED
  BY <1>1, PackInvariant, RenderingStep, PTL DEF CSpec

-----------------------------------------------------------------------------
(* The prompt holds the plan.                                              *)

(* What the three properties are told of: the parts a prompt is made of.   *)
LEMMA PackedInput ==
  ASSUME PackInv, Rendering, Packed
  PROVE  /\ Whole(Input(call)) /\ call.text = Prompt(Input(call))
         /\ Input(call).plan = call.plan /\ Input(call).options = options /\ call.options = options
         /\ Input(call).request = call.request
<1>1. call.pc = "packed" /\ command.pc = "packing"
  BY DEF Packed, Rendering
<1>2. /\ call.options = options /\ call.plan = command.plan /\ call.fetched = Ids(command.plan)
      /\ Ids(command.plan) \in Seq(BlockId) /\ call.text = Text(call)
  BY <1>1 DEF PackInv, CallSound, CommandSound
<1>3. /\ Input(call).plan = call.plan /\ Input(call).options = call.options
      /\ Input(call).fetched = call.fetched /\ Input(call).request = call.request
  BY DEF Input
<1>4. Ids(Input(call).plan) = Ids(command.plan)
  BY <1>2, <1>3
<1> QED
  BY <1>2, <1>3, <1>4 DEF Whole, Text

(* HoldsThePlan of the prompt run: a prompt of either form holds each      *)
(* block as often as the plan selects it, and the blocks of a section in   *)
(* the order they were created, for every plan, every set of stable        *)
(* sections and whatever other callers delete while the packer reads.      *)
THEOREM HoldsThePlanAlways == CSpec => []HoldsThePlan
<1>1. PackInv /\ Rendering => HoldsThePlan
  <2> SUFFICES ASSUME PackInv, Rendering, Packed
               PROVE  TextHolds(call, call.text)
    BY DEF HoldsThePlan, TextHolds
  <2>1. TextHolds(Input(call), call.text)
    BY PackedInput, PromptHolds
  <2> QED
    BY <2>1, PackedInput DEF TextHolds
<1> QED
  BY <1>1, PackInvariant, PromptsRendered, PTL

(* NotedBlocksWarn of the prompt run: every copy of a block that one of    *)
(* its selections has a note for carries such a note right before it.      *)
THEOREM NotedBlocksWarnAlways == CSpec => []NotedBlocksWarn
<1>1. PackInv /\ Rendering => NotedBlocksWarn
  <2> SUFFICES ASSUME PackInv, Rendering, Packed, NEW i \in DOMAIN call.text,
                      IsBody(call.text[i]), Warnings(call.text[i][2]) # {}
               PROVE  \E j \in {i - 1, i - 2} \intersect DOMAIN call.text :
                        /\ call.text[j] \in Warnings(call.text[i][2])
                        /\ \A k \in j..(i - 1) : ~IsBody(call.text[k])
    BY DEF NotedBlocksWarn
  <2> DEFINE c == Input(call)  t == call.text
  <2>1. Whole(c) /\ t = Prompt(c) /\ c.plan = call.plan
    BY PackedInput
  <2> HIDE DEF c, t
  <2>2. Warned(c, t) /\ t \in Seq(PieceSet(c))
    BY <2>1, PromptHolds
  <2>3. \A b : Warnings(b) = WarningsOf(c.plan, b)
    BY <2>1 DEF Warnings, WarningsOf
  <2>4. i \in DOMAIN t /\ IsBody(t[i]) /\ WarningsOf(c.plan, t[i][2]) # {}
    BY <2>3 DEF t
  <2>5. \E j \in {i - 1, i - 2} \intersect DOMAIN t :
          /\ t[j] \in WarningsOf(c.plan, t[i][2])
          /\ \A k \in j..(i - 1) : ~IsBody(t[k])
    BY <2>1, <2>2, <2>4, WarnedWarns
  <2> QED
    BY <2>3, <2>5 DEF t
<1> QED
  BY <1>1, PackInvariant, PromptsRendered, PTL

(* CachedPrefixKept of the prompt run: the boundary ends the messages of   *)
(* the stable sections, and these are the same as in the prompt before     *)
(* when the plans select the same stable blocks with the same notes.       *)
THEOREM CachedPrefixKeptAlways == CSpec => []CachedPrefixKept
<1>1. PackInv /\ Rendering => CachedPrefixKept
  <2> SUFFICES ASSUME PackInv, Rendering, Packed, call.mode = "chat"
               PROVE  /\ \A i \in DOMAIN call.messages :
                           i <= call.boundary
                             <=> call.messages[i].section \in Side(call.options.stable)
                      /\ prior.pc = "packed" /\ SameStablePart(prior, call) =>
                           /\ prior.boundary = call.boundary
                           /\ SubSeq(prior.messages, 1, prior.boundary)
                                = SubSeq(call.messages, 1, call.boundary)
    BY DEF CachedPrefixKept, Side
  <2> DEFINE c == Input(call)  d == Input(prior)
  <2>1. /\ Whole(c) /\ c.options = options /\ call.options = options
        /\ c.plan = call.plan /\ c.request = call.request
    BY PackedInput
  <2>2. call.messages = Messages(c) /\ call.boundary = Boundary(c)
    BY DEF Rendering, AsCalled, Packed
  <2>3. ASSUME NEW i \in DOMAIN call.messages
        PROVE  i <= call.boundary <=> call.messages[i].section \in Side(call.options.stable)
    <3> HIDE DEF c
    <3> QED
      BY <2>1, <2>2, PrefixSections
  <2>4. ASSUME prior.pc = "packed", SameStablePart(prior, call)
        PROVE  /\ prior.boundary = call.boundary
               /\ SubSeq(prior.messages, 1, prior.boundary) = SubSeq(call.messages, 1, call.boundary)
    <3> DEFINE S == options.stable
    <3>1. /\ d.options = prior.options /\ d.plan = prior.plan /\ d.request = prior.request
          /\ d.fetched = prior.fetched
      BY DEF Input
    <3>2. /\ prior.options = options /\ Whole(prior)
          /\ prior.messages = Messages(d) /\ prior.boundary = Boundary(d)
      BY <2>4 DEF Rendering, AsCalled
    <3>3. Whole(d)
      BY <3>1, <3>2 DEF Whole
    <3> HIDE DEF c, d
    <3>4. SameSections(d, c, S)
      <4>1. ASSUME NEW b \in BlockId, Block[b].section \in Side(S)
            PROVE  NoteOf(d.plan, b) = NoteOf(c.plan, b) /\ Copies(d.plan, b) = Copies(c.plan, b)
        <5>1. <<b, Block[b].section>> \in StablePart(prior)
          BY <3>2, <4>1 DEF StablePart, Side
        <5>2. <<b, Block[b].section>>[1] = b
          OBVIOUS
        <5> QED
          BY <2>1, <2>4, <3>1, <5>1, <5>2 DEF SameStablePart
      <4>2. d.request.system_role = c.request.system_role
        BY <2>1, <2>4, <3>1 DEF SameStablePart
      <4> QED
        BY <2>1, <3>1, <3>2, <4>1, <4>2 DEF SameSections
    <3>5. SideMessages(d, S) = SideMessages(c, S)
      BY <2>1, <3>3, <3>4, SideAlike
    <3>6. /\ Boundary(c) = Len(SideMessages(c, S)) /\ Boundary(d) = Len(SideMessages(d, S))
      BY <2>1, <3>1, <3>2, <3>3, StablePrefix
    <3>7. /\ SubSeq(Messages(c), 1, Boundary(c)) = SideMessages(c, S)
          /\ SubSeq(Messages(d), 1, Boundary(d)) = SideMessages(d, S)
      BY <2>1, <3>1, <3>2, <3>3, PrefixIs
    <3> QED
      BY <2>2, <3>2, <3>5, <3>6, <3>7
  <2> QED
    BY <2>3, <2>4
<1> QED
  BY <1>1, PackInvariant, PromptsRendered, PTL

=============================================================================
