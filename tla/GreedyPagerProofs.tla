-------------------------- MODULE GreedyPagerProofs --------------------------
(***************************************************************************)
(* What a plan of GreedyPager says of its candidates and what it costs, for*)
(* every store, request and policy, and whatever other callers do to the   *)
(* store during the call: each candidate is there, none twice, a block said*)
(* to be compressed has its summary in the plan, each budget holds at every*)
(* step, and the estimate covers the prompt.                               *)
(***************************************************************************)
EXTENDS GreedyPager, SequenceTheorems, FiniteSetTheorems, RecursionTheorems, TLAPS

(* The locals of the call that the plan depends on.                        *)
Locals == {"pc", "selected", "omitted", "total", "estimated", "todo", "listed", "loaded",
           "cands", "variable", "section", "used", "words", "summary_for", "compressed",
           "frontier", "deps", "depth", "visited", "adjacent", "drops", "notes",
           "pos", "rebuilt"}

DropReasons == {"Contradicted", "SupersededByDerived"}

IsSeq(seq) == \E S : seq \in Seq(S)
Ids(seq) == {seq[i].id : i \in DOMAIN seq}
IdsOf(set) == {x.id : x \in set}

(* A sequence of selections in which no block comes twice, but those of C  *)
(* and blocks that are required twice.                                     *)
Selections(seq) ==
  IsSeq(seq) /\ \A i \in DOMAIN seq : {"id", "reason", "note"} \subseteq DOMAIN seq[i]
OnceIn(seq, C) ==
  \A i, j \in DOMAIN seq :
    i # j /\ seq[i].id = seq[j].id =>
      seq[i].id \in C \/ (seq[i].reason = "Pinned" /\ seq[j].reason = "Pinned")

WellFormed(p) ==
  /\ Locals \subseteq DOMAIN p
  /\ Selections(p.selected) /\ IsSeq(p.rebuilt)
  /\ p.pos \in Nat
  /\ \A d \in p.drops : d.reason \in DropReasons
  /\ p.pc \notin {"rebuild", "done"} => p.rebuilt = <<>>

(* Until candidates are ranked only required blocks are in the plan; a     *)
(* candidate that is in it before its turn is there as a summary.          *)
Undecided(p) ==
  /\ p.pc \in {"required", "load"} =>
       \A i \in DOMAIN p.selected :
         p.selected[i].reason = "Pinned" /\ p.selected[i].id \in SetOf(request.required)
  /\ p.pc = "required" => SetOf(p.todo) \subseteq SetOf(request.required) /\ IsSeq(p.todo)
  /\ p.pc = "load" => p.listed \intersect SetOf(request.required) = {}
  /\ p.pc \in {"load", "system", "fill"} => p.cands \intersect Ids(p.selected) \subseteq p.compressed
  /\ p.pc \notin {"load", "system", "fill"} => p.cands = {}

Accounted(p) == p.loaded \subseteq p.cands \union Ids(p.selected) \union IdsOf(p.omitted)

(* What a block is omitted for as Compressed is in the plan, or was.       *)
Covered(p) ==
  /\ \A b, s : <<b, s>> \in p.summary_for => Summarizes(s, b)
  /\ \A o \in p.omitted : o.reason = "Compressed" => \E s \in p.compressed : Summarizes(s, o.id)
  /\ p.compressed \subseteq
       Ids(p.selected) \union IdsOf({o \in p.omitted : o.reason \in DropReasons})

(* What is selected is not pulled in again.                                *)
Expanded(p) == p.pc = "expand" => Ids(p.selected) \subseteq p.visited

(* Of the first pos selections each is kept or omitted for its reason, and *)
(* nothing else is kept.                                                   *)
Rebuilding(p) ==
  p.pc = "rebuild" =>
    /\ p.pos <= Len(p.selected)
    /\ Selections(p.rebuilt) /\ OnceIn(p.rebuilt, p.compressed)
    /\ \A i \in 1..p.pos :
         \/ p.selected[i].id \in Ids(p.rebuilt)
         \/ \E o \in p.omitted : o.id = p.selected[i].id /\ o.reason \in DropReasons
    /\ \A k \in DOMAIN p.rebuilt : \E i \in 1..p.pos :
         p.rebuilt[k].id = p.selected[i].id /\ p.rebuilt[k].reason = p.selected[i].reason

Sound(p) ==
  /\ WellFormed(p) /\ OnceIn(p.selected, p.compressed)
  /\ Undecided(p) /\ Accounted(p) /\ Covered(p) /\ Expanded(p) /\ Rebuilding(p)

-----------------------------------------------------------------------------
(* Sequences of selections.                                                *)

LEMMA AppendOne ==
  ASSUME NEW seq, IsSeq(seq), NEW x
  PROVE  /\ IsSeq(Append(seq, x))
         /\ Len(seq) \in Nat /\ DOMAIN seq = 1..Len(seq)
         /\ DOMAIN Append(seq, x) = 1..(Len(seq) + 1)
         /\ \A i \in 1..Len(seq) : Append(seq, x)[i] = seq[i]
         /\ Append(seq, x)[Len(seq) + 1] = x
<1>1. PICK S : seq \in Seq(S)
  BY DEF IsSeq
<1>2. seq \in Seq(S \union {x}) /\ x \in S \union {x}
  BY <1>1
<1>3. Append(seq, x) \in Seq(S \union {x})
  BY <1>2
<1> QED
  BY <1>2, <1>3 DEF IsSeq

LEMMA IncludeOne ==
  ASSUME NEW seq, Selections(seq), NEW C, OnceIn(seq, C),
         NEW x, {"id", "reason", "note"} \subseteq DOMAIN x,
         \/ x.id \in C
         \/ \A i \in DOMAIN seq :
              seq[i].id = x.id => x.reason = "Pinned" /\ seq[i].reason = "Pinned"
  PROVE  /\ Selections(Append(seq, x)) /\ OnceIn(Append(seq, x), C)
         /\ Ids(Append(seq, x)) = Ids(seq) \union {x.id}
<1> DEFINE n == Len(seq)
           new == Append(seq, x)
<1>1. /\ IsSeq(new) /\ n \in Nat /\ DOMAIN seq = 1..n /\ DOMAIN new = 1..(n + 1)
      /\ \A i \in 1..n : new[i] = seq[i]
      /\ new[n + 1] = x
  BY AppendOne DEF Selections
<1> HIDE DEF n, new
<1>3. Selections(new)
  <2>1. \A i \in 1..(n + 1) : i \in 1..n \/ i = n + 1
    BY <1>1
  <2> QED
    BY <1>1, <2>1 DEF Selections
<1>4. OnceIn(new, C)
  <2> SUFFICES ASSUME NEW i \in 1..(n + 1), NEW j \in 1..(n + 1), i # j, new[i].id = new[j].id
               PROVE  new[i].id \in C \/ (new[i].reason = "Pinned" /\ new[j].reason = "Pinned")
    BY <1>1 DEF OnceIn
  <2>1. CASE i \in 1..n /\ j \in 1..n
    BY <1>1, <2>1 DEF OnceIn
  <2>2. CASE i = n + 1 /\ j \in 1..n
    BY <1>1, <2>2
  <2>3. CASE j = n + 1 /\ i \in 1..n
    BY <1>1, <2>3
  <2> QED
    BY <1>1, <2>1, <2>2, <2>3
<1>5. Ids(new) = Ids(seq) \union {x.id}
  <2>1. ASSUME NEW i \in 1..(n + 1) PROVE new[i].id \in Ids(seq) \union {x.id}
    BY <1>1 DEF Ids
  <2>2. ASSUME NEW i \in 1..n PROVE seq[i].id \in Ids(new)
    BY <1>1 DEF Ids
  <2>3. x.id \in Ids(new)
    BY <1>1 DEF Ids
  <2> QED
    BY <1>1, <2>1, <2>2, <2>3 DEF Ids
<1> QED
  BY <1>3, <1>4, <1>5 DEF new

-----------------------------------------------------------------------------
(* The steps of the call.  What a request can be is known from Init.       *)

RequestKnown == request \in {c.request : c \in Scenarios}

LEMMA RequiredIsSeq == RequestKnown => IsSeq(request.required)
BY RequestAssumption DEF RequestKnown, IsSeq

LEMMA StartSound ==
  ASSUME RequestKnown
  PROVE  Sound(Start) /\ Sound(Failed)
<1>1. IsSeq(<<>>) /\ DOMAIN <<>> = {}
  <2>1. <<>> \in Seq({})
    OBVIOUS
  <2> QED
    BY <2>1 DEF IsSeq
<1>2. ASSUME NEW p, Locals \subseteq DOMAIN p, p.pc \in {"required", "failed"},
             p.selected = <<>>, p.rebuilt = <<>>, p.pos = 0, p.drops = {}, p.omitted = {},
             p.todo = request.required, p.cands = {}, p.loaded = {}, p.summary_for = {},
             p.compressed = {}
      PROVE  Sound(p)
  BY <1>1, <1>2, RequiredIsSeq
  DEF Sound, WellFormed, Selections, OnceIn, Undecided, Accounted, Covered, Expanded, Rebuilding
<1>3. /\ Locals \subseteq DOMAIN Start /\ Start.pc = "required"
      /\ Start.selected = <<>> /\ Start.rebuilt = <<>> /\ Start.pos = 0
      /\ Start.drops = {} /\ Start.omitted = {}
      /\ Start.todo = request.required /\ Start.cands = {} /\ Start.loaded = {}
      /\ Start.summary_for = {} /\ Start.compressed = {}
  BY DEF Start, Locals
<1>4. /\ Locals \subseteq DOMAIN Failed /\ Failed.pc = "failed"
      /\ Failed.selected = <<>> /\ Failed.rebuilt = <<>> /\ Failed.pos = 0
      /\ Failed.drops = {} /\ Failed.omitted = {}
      /\ Failed.todo = request.required /\ Failed.cands = {} /\ Failed.loaded = {}
      /\ Failed.summary_for = {} /\ Failed.compressed = {}
  BY <1>3 DEF Failed, Locals
<1> QED
  BY <1>2, <1>3, <1>4

(* A step that selects b and decides on candidates it selects or omits.    *)
LEMMA IncludeSound ==
  ASSUME Sound(page), page.pc \notin {"rebuild", "done"},
         NEW p, Locals \subseteq DOMAIN p, NEW b, NEW why,
         p.selected = Append(page.selected, [id |-> b, reason |-> why, note |-> None]),
         p.pc = page.pc, p.pos = page.pos, p.drops = page.drops, p.rebuilt = page.rebuilt,
         p.summary_for = page.summary_for, p.loaded = page.loaded, p.listed = page.listed,
         page.compressed \subseteq p.compressed, p.compressed \subseteq page.compressed \union {b},
         page.omitted \subseteq p.omitted,
         \A o \in p.omitted \ page.omitted :
           o.reason = "Compressed" => b \in p.compressed /\ Summarizes(b, o.id),
         p.cands \subseteq page.cands,
         page.cands \subseteq p.cands \union {b} \union IdsOf(p.omitted),
         b \in p.cands => b \in p.compressed,
         \/ b \in p.compressed
         \/ \A i \in DOMAIN page.selected :
              page.selected[i].id = b => why = "Pinned" /\ page.selected[i].reason = "Pinned",
         p.pc \in {"required", "load"} => why = "Pinned" /\ b \in SetOf(request.required),
         p.pc = "required" => SetOf(p.todo) \subseteq SetOf(request.required) /\ IsSeq(p.todo),
         p.pc = "expand" => b \in p.visited /\ page.visited \subseteq p.visited
  PROVE  Sound(p)
<1> DEFINE x == [id |-> b, reason |-> why, note |-> None]
<1>1. Selections(p.selected) /\ OnceIn(p.selected, p.compressed)
      /\ Ids(p.selected) = Ids(page.selected) \union {b}
  <2>1. Selections(page.selected) /\ OnceIn(page.selected, page.compressed)
    BY DEF Sound, WellFormed
  <2>2. OnceIn(page.selected, p.compressed)
    BY <2>1 DEF OnceIn
  <2>3. x.id = b /\ x.reason = why /\ {"id", "reason", "note"} \subseteq DOMAIN x
    OBVIOUS
  <2>4. p.selected = Append(page.selected, x)
    OBVIOUS
  <2> HIDE DEF x
  <2> QED
    BY <2>1, <2>2, <2>3, <2>4, IncludeOne
<1>2. WellFormed(p)
  BY <1>1 DEF Sound, WellFormed
<1>3. Undecided(p)
  <2>1. ASSUME p.pc \in {"required", "load"}, NEW i \in DOMAIN p.selected
        PROVE  p.selected[i].reason = "Pinned" /\ p.selected[i].id \in SetOf(request.required)
    <3>1. /\ DOMAIN p.selected = 1..(Len(page.selected) + 1) /\ Len(page.selected) \in Nat
          /\ DOMAIN page.selected = 1..Len(page.selected)
          /\ \A j \in 1..Len(page.selected) : p.selected[j] = page.selected[j]
          /\ p.selected[Len(page.selected) + 1] = x
      BY AppendOne DEF Sound, WellFormed, Selections
    <3>2. x.reason = why /\ x.id = b
      OBVIOUS
    <3> HIDE DEF x
    <3> QED
      BY <2>1, <3>1, <3>2 DEF Sound, Undecided
  <2> QED
    BY <1>1, <2>1 DEF Sound, Undecided
<1>4. Accounted(p)
  BY <1>1 DEF Sound, Accounted, IdsOf
<1>5. Covered(p)
  BY <1>1 DEF Sound, Covered, IdsOf
<1>6. Expanded(p) /\ Rebuilding(p)
  BY <1>1 DEF Sound, Expanded, Rebuilding
<1> QED
  BY <1>1, <1>2, <1>3, <1>4, <1>5, <1>6 DEF Sound

(* A step before reconciliation that selects nothing.                      *)
LEMMA DecideSound ==
  ASSUME Sound(page), page.pc \notin {"rebuild", "done"},
         NEW p, Locals \subseteq DOMAIN p,
         p.pc # "rebuild",
         p.selected = page.selected, p.pos \in Nat, p.rebuilt = page.rebuilt,
         \A d \in p.drops : d.reason \in DropReasons,
         p.compressed = page.compressed,
         \A c, s : <<c, s>> \in p.summary_for => Summarizes(s, c),
         page.omitted \subseteq p.omitted,
         \A o \in p.omitted \ page.omitted :
           o.reason = "Compressed" => \E s \in p.compressed : Summarizes(s, o.id),
         page.cands \subseteq p.cands \union IdsOf(p.omitted),
         p.loaded \subseteq page.loaded \union p.cands,
         Undecided(p), Expanded(p)
  PROVE  Sound(p)
<1>1. WellFormed(p)
  BY DEF Sound, WellFormed
<1>2. Accounted(p)
  BY DEF Sound, Accounted, IdsOf
<1>3. Covered(p)
  BY DEF Sound, Covered, IdsOf
<1> QED
  BY <1>1, <1>2, <1>3 DEF Sound, Rebuilding

LEMMA ResolveRequiredSound ==
  ASSUME RequestKnown, Sound(page), ResolveRequired
  PROVE  Sound(page')
<1> DEFINE b == Head(page.todo)
           p == [Include(page, b, "Pinned") EXCEPT !.todo = Tail(@)]
<1>1. page.pc = "required" /\ page.todo # <<>>
  BY DEF ResolveRequired
<1>2. CASE page' = Failed
  BY <1>2, StartSound
<1>3. CASE page' = p
  <2>1. Locals \subseteq DOMAIN page
    BY DEF Sound, WellFormed
  <2>2. /\ Locals \subseteq DOMAIN p
        /\ p.selected = Append(page.selected, [id |-> b, reason |-> "Pinned", note |-> None])
        /\ p.pc = page.pc /\ p.pos = page.pos /\ p.drops = page.drops
        /\ p.rebuilt = page.rebuilt /\ p.summary_for = page.summary_for
        /\ p.loaded = page.loaded /\ p.listed = page.listed
        /\ p.compressed = page.compressed /\ p.omitted = page.omitted /\ p.cands = page.cands
        /\ p.todo = Tail(page.todo)
    BY <2>1 DEF Locals, Include
  <2>3. SetOf(page.todo) \subseteq SetOf(request.required) /\ IsSeq(page.todo)
    BY <1>1 DEF Sound, Undecided
  <2>4. b \in SetOf(request.required) /\ IsSeq(Tail(page.todo))
        /\ SetOf(Tail(page.todo)) \subseteq SetOf(request.required)
    <3>1. PICK S : page.todo \in Seq(S)
      BY <2>3 DEF IsSeq
    <3>2. Tail(page.todo) \in Seq(S)
      BY <1>1, <3>1
    <3>3. Head(page.todo) \in SetOf(page.todo)
      BY <1>1, <3>1 DEF SetOf
    <3>4. SetOf(Tail(page.todo)) \subseteq SetOf(page.todo)
      BY <1>1, <3>1 DEF SetOf
    <3> QED
      BY <2>3, <3>2, <3>3, <3>4 DEF IsSeq
  <2>5. page.cands = {} /\ \A i \in DOMAIN page.selected : page.selected[i].reason = "Pinned"
    BY <1>1 DEF Sound, Undecided
  <2> HIDE DEF p, b
  <2>6. Sound(p)
    BY <1>1, <2>2, <2>4, <2>5, IncludeSound
  <2> QED
    BY <1>3, <2>6
<1> QED
  BY <1>2, <1>3 DEF ResolveRequired, Step

LEMMA RetrieveSound ==
  ASSUME Sound(page), Retrieve
  PROVE  Sound(page')
<1> DEFINE p == [page EXCEPT !.pc = "load", !.total = @ + request.task,
                             !.listed = request.retrieved \ SetOf(request.required)]
<1>1. page.pc = "required" /\ page' = p
  BY DEF Retrieve, Step
<1>2. Locals \subseteq DOMAIN page
  BY DEF Sound, WellFormed
<1>3. /\ Locals \subseteq DOMAIN p /\ p.pc = "load"
      /\ p.selected = page.selected /\ p.pos = page.pos /\ p.rebuilt = page.rebuilt
      /\ p.drops = page.drops /\ p.compressed = page.compressed /\ p.omitted = page.omitted
      /\ p.summary_for = page.summary_for /\ p.cands = page.cands /\ p.loaded = page.loaded
      /\ p.listed \intersect SetOf(request.required) = {}
  BY <1>2 DEF Locals
<1> HIDE DEF p
<1>4. Undecided(p) /\ Expanded(p)
  BY <1>1, <1>3 DEF Sound, Undecided, Expanded
<1>5. Sound(p)
  BY <1>1, <1>3, <1>4, DecideSound DEF Sound, WellFormed, Covered
<1> QED
  BY <1>1, <1>5

LEMMA LoadCandidateSound ==
  ASSUME Sound(page), LoadCandidate
  PROVE  Sound(page')
<1>1. PICK b \in page.listed :
        /\ page.pc = "load"
        /\ page' = [page EXCEPT !.listed = @ \ {b},
                                !.loaded = @ \union ({b} \intersect stored),
                                !.cands = @ \union ({b} \intersect stored)]
  BY DEF LoadCandidate, Step
<1> DEFINE p == [page EXCEPT !.listed = @ \ {b},
                             !.loaded = @ \union ({b} \intersect stored),
                             !.cands = @ \union ({b} \intersect stored)]
<1>2. Locals \subseteq DOMAIN page
  BY DEF Sound, WellFormed
<1>3. /\ Locals \subseteq DOMAIN p /\ p.pc = "load"
      /\ p.selected = page.selected /\ p.pos = page.pos /\ p.rebuilt = page.rebuilt
      /\ p.drops = page.drops /\ p.compressed = page.compressed /\ p.omitted = page.omitted
      /\ p.summary_for = page.summary_for /\ p.listed = page.listed \ {b}
      /\ p.cands = page.cands \union ({b} \intersect stored)
      /\ p.loaded = page.loaded \union ({b} \intersect stored)
  BY <1>1, <1>2 DEF Locals
<1> HIDE DEF p
<1>4. b \notin Ids(page.selected)
  BY <1>1 DEF Sound, Undecided, Ids
<1>5. Undecided(p) /\ Expanded(p)
  BY <1>1, <1>3, <1>4 DEF Sound, Undecided, Expanded
<1>6. Sound(p)
  BY <1>1, <1>3, <1>5, DecideSound DEF Sound, WellFormed, Covered
<1> QED
  BY <1>1, <1>6 DEF p

LEMMA StartSystemSound ==
  ASSUME Sound(page), StartSystem
  PROVE  Sound(page')
<1> DEFINE p == [page EXCEPT !.pc = "system"]
<1>1. page.pc = "load" /\ page' = p
  BY DEF StartSystem, Step
<1>2. Locals \subseteq DOMAIN page
  BY DEF Sound, WellFormed
<1>3. /\ Locals \subseteq DOMAIN p /\ p.pc = "system"
      /\ p.selected = page.selected /\ p.pos = page.pos /\ p.rebuilt = page.rebuilt
      /\ p.drops = page.drops /\ p.compressed = page.compressed /\ p.omitted = page.omitted
      /\ p.summary_for = page.summary_for /\ p.cands = page.cands /\ p.loaded = page.loaded
  BY <1>2 DEF Locals
<1> HIDE DEF p
<1>4. Undecided(p) /\ Expanded(p)
  BY <1>1, <1>3 DEF Sound, Undecided, Expanded
<1>5. Sound(p)
  BY <1>1, <1>3, <1>4, DecideSound DEF Sound, WellFormed, Covered
<1> QED
  BY <1>1, <1>5

(* A step after loading that leaves selections and candidates alone.       *)
LEMMA LaterSound ==
  ASSUME Sound(page), page.pc \notin {"required", "load", "rebuild", "done"},
         NEW p, Locals \subseteq DOMAIN p, p.pc \notin {"required", "load", "rebuild"},
         p.selected = page.selected, p.omitted = page.omitted, p.loaded = page.loaded,
         p.cands = page.cands, p.compressed = page.compressed, p.rebuilt = page.rebuilt,
         p.pos \in Nat, \A d \in p.drops : d.reason \in DropReasons,
         p.summary_for = page.summary_for,
         p.pc \in {"system", "fill"} => page.pc \in {"system", "fill"},
         p.pc \notin {"system", "fill"} => page.cands = {},
         p.pc = "expand" => Ids(page.selected) \subseteq p.visited
  PROVE  Sound(p)
<1>1. Undecided(p) /\ Expanded(p)
  BY DEF Sound, Undecided, Expanded
<1> QED
  BY <1>1, DecideSound DEF Sound, Covered

(* A candidate is omitted.                                                 *)
LEMMA OmitSound ==
  ASSUME Sound(page), page.pc \in {"system", "fill"}, NEW b \in page.cands, NEW why,
         why = "Compressed" => \E s \in page.compressed : Summarizes(s, b)
  PROVE  Sound(Omit(Decided(b), b, why))
<1> DEFINE p == Omit(Decided(b), b, why)
           o == [id |-> b, reason |-> why]
<1>1. Locals \subseteq DOMAIN page
  BY DEF Sound, WellFormed
<1>2. /\ Locals \subseteq DOMAIN p /\ p.pc = page.pc
      /\ p.selected = page.selected /\ p.pos = page.pos /\ p.rebuilt = page.rebuilt
      /\ p.drops = page.drops /\ p.compressed = page.compressed
      /\ p.omitted = page.omitted \union {o}
      /\ p.summary_for = page.summary_for /\ p.cands = page.cands \ {b}
      /\ p.loaded = page.loaded
  BY <1>1 DEF Locals, Omit, Decided
<1>3. o.id = b /\ o.reason = why
  OBVIOUS
<1> HIDE DEF p, o
<1>4. Undecided(p) /\ Expanded(p)
  BY <1>2 DEF Sound, Undecided, Expanded
<1>5. page.cands \subseteq p.cands \union IdsOf(p.omitted)
  BY <1>2, <1>3 DEF IdsOf
<1>6. Sound(p)
  BY <1>2, <1>3, <1>4, <1>5, DecideSound DEF Sound, WellFormed, Covered
<1> QED
  BY <1>6 DEF p

LEMMA FillSystemSound ==
  ASSUME Sound(page), FillSystem
  PROVE  Sound(page')
<1>1. PICK b \in page.cands :
        /\ page.pc = "system"
        /\ \/ page' = Include(Decided(b), b, "HighRelevance")
           \/ page' = Omit(Decided(b), b, "Budget")
  BY DEF FillSystem, CandidatesOf, Step
<1>2. CASE page' = Omit(Decided(b), b, "Budget")
  BY <1>1, <1>2, OmitSound
<1>3. CASE page' = Include(Decided(b), b, "HighRelevance")
  <2> DEFINE p == Include(Decided(b), b, "HighRelevance")
  <2>1. Locals \subseteq DOMAIN page
    BY DEF Sound, WellFormed
  <2>2. /\ Locals \subseteq DOMAIN p /\ p.pc = page.pc
        /\ p.selected = Append(page.selected, [id |-> b, reason |-> "HighRelevance", note |-> None])
        /\ p.pos = page.pos /\ p.drops = page.drops /\ p.rebuilt = page.rebuilt
        /\ p.omitted = page.omitted /\ p.loaded = page.loaded /\ p.listed = page.listed
        /\ p.compressed = page.compressed /\ p.summary_for = page.summary_for
        /\ p.cands = page.cands \ {b}
    BY <2>1 DEF Locals, Include, Decided
  <2>3. b \in page.compressed \/ \A i \in DOMAIN page.selected : page.selected[i].id # b
    BY <1>1 DEF Sound, Undecided, Ids
  <2> HIDE DEF p
  <2>4. Sound(p)
    <3>1. p.pc = "system" /\ page.pc \notin {"rebuild", "done"}
      BY <1>1, <2>2
    <3> QED
      BY <2>2, <2>3, <3>1, IncludeSound
  <2> QED
    BY <1>3, <2>4 DEF p
<1> QED
  BY <1>1, <1>2, <1>3

LEMMA TakeCandidateSound ==
  ASSUME Sound(page), NEW b \in page.cands, TakeCandidate(b)
  PROVE  Sound(page')
<1> DEFINE p == [Include(Decided(b), b, "HighRelevance")
                   EXCEPT !.used = @ + Tokens(b), !.words = @ \union {b}]
<1>1. page.pc = "fill" /\ page' = p
  BY DEF TakeCandidate, Considered, Step
<1>2. Locals \subseteq DOMAIN page
  BY DEF Sound, WellFormed
<1>3. /\ Locals \subseteq DOMAIN p /\ p.pc = page.pc
      /\ p.selected = Append(page.selected, [id |-> b, reason |-> "HighRelevance", note |-> None])
      /\ p.pos = page.pos /\ p.drops = page.drops /\ p.rebuilt = page.rebuilt
      /\ p.omitted = page.omitted /\ p.loaded = page.loaded /\ p.listed = page.listed
      /\ p.compressed = page.compressed /\ p.summary_for = page.summary_for
      /\ p.cands = page.cands \ {b}
  BY <1>2 DEF Locals, Include, Decided
<1>4. b \in page.compressed \/ \A i \in DOMAIN page.selected : page.selected[i].id # b
  BY <1>1 DEF Sound, Undecided, Ids
<1> HIDE DEF p
<1>5. Sound(p)
  BY <1>1, <1>3, <1>4, IncludeSound
<1> QED
  BY <1>1, <1>5

(* The summary is selected before the block it stands for is omitted.      *)
LEMMA SubstituteSound ==
  ASSUME Sound(page), NEW b \in page.cands, NEW s \in BlockId, Substitute(b, s)
  PROVE  Sound(page')
<1> DEFINE p == [Omit(Include(Decided(b), s, "HighRelevance"), b, "Compressed")
                   EXCEPT !.used = @ + Tokens(s), !.compressed = @ \union {s}]
           o == [id |-> b, reason |-> "Compressed"]
<1>1. page.pc = "fill" /\ Summarizes(s, b)
  BY DEF Substitute, Considered, Sound, Covered
<1>2. CASE s \in page.compressed /\ page' = Omit(Decided(b), b, "Compressed")
  BY <1>1, <1>2, OmitSound
<1>3. CASE page' = Omit(Decided(b), b, "Budget")
  BY <1>1, <1>3, OmitSound
<1>4. CASE page' = p
  <2>1. Locals \subseteq DOMAIN page
    BY DEF Sound, WellFormed
  <2>2. /\ Locals \subseteq DOMAIN p /\ p.pc = page.pc
        /\ p.selected = Append(page.selected, [id |-> s, reason |-> "HighRelevance", note |-> None])
        /\ p.pos = page.pos /\ p.drops = page.drops /\ p.rebuilt = page.rebuilt
        /\ p.omitted = page.omitted \union {o}
        /\ p.loaded = page.loaded /\ p.listed = page.listed
        /\ p.compressed = page.compressed \union {s} /\ p.summary_for = page.summary_for
        /\ p.cands = page.cands \ {b}
    BY <2>1 DEF Locals, Include, Omit, Decided
  <2>3. o.id = b
    OBVIOUS
  <2> HIDE DEF p, o
  <2>4. page.cands \subseteq p.cands \union {s} \union IdsOf(p.omitted)
    BY <2>2, <2>3 DEF IdsOf
  <2>5. \A q \in p.omitted \ page.omitted :
          q.reason = "Compressed" => s \in p.compressed /\ Summarizes(s, q.id)
    BY <1>1, <2>2, <2>3
  <2>6. p.pc = "fill" /\ s \in p.compressed /\ page.compressed \subseteq p.compressed
    BY <1>1, <2>2
  <2>7. Sound(p)
    BY <1>1, <2>2, <2>4, <2>5, <2>6, IncludeSound
  <2> QED
    BY <1>4, <2>7
<1> QED
  BY <1>2, <1>3, <1>4 DEF Substitute, Step

LEMMA AllocateSound ==
  ASSUME Sound(page), Allocate
  PROVE  Sound(page')
<1> DEFINE p == [page EXCEPT
                   !.pc = "fill", !.variable = Monus(request.budget, page.total),
                   !.summary_for = IF policy.summary_fallback THEN SummaryIndex ELSE {}]
<1>1. page.pc = "system" /\ page' = p
  BY DEF Allocate, Step
<1>2. Locals \subseteq DOMAIN page
  BY DEF Sound, WellFormed
<1>3. /\ Locals \subseteq DOMAIN p /\ p.pc = "fill"
      /\ p.selected = page.selected /\ p.pos = page.pos /\ p.rebuilt = page.rebuilt
      /\ p.drops = page.drops /\ p.compressed = page.compressed /\ p.omitted = page.omitted
      /\ p.cands = page.cands /\ p.loaded = page.loaded
      /\ p.summary_for \in {SummaryIndex, {}}
  BY <1>2 DEF Locals
<1>4. \A c, s : <<c, s>> \in SummaryIndex => Summarizes(s, c)
  BY DEF SummaryIndex
<1> HIDE DEF p
<1>5. Undecided(p) /\ Expanded(p)
  BY <1>1, <1>3 DEF Sound, Undecided, Expanded
<1>6. Sound(p)
  BY <1>1, <1>3, <1>4, <1>5, DecideSound DEF Sound, WellFormed
<1> QED
  BY <1>1, <1>6

LEMMA FillStepsSound ==
  ASSUME Sound(page),
         \/ NextSection \/ FinishFill
         \/ \E b \in page.cands : SkipRedundant(b) \/ TakeCandidate(b) \/ OmitCandidate(b)
                                   \/ \E s \in BlockId : Substitute(b, s)
  PROVE  Sound(page')
<1>1. Locals \subseteq DOMAIN page /\ page.pos \in Nat
      /\ \A d \in page.drops : d.reason \in DropReasons
  BY DEF Sound, WellFormed
<1>2. CASE NextSection
  <2>1. PICK s : page.pc = "fill" /\ page' = [page EXCEPT !.section = s, !.used = 0, !.words = {}]
    BY <1>2 DEF NextSection, Step
  <2> QED
    BY <1>1, <2>1, LaterSound DEF Locals
<1>3. CASE FinishFill
  <2>1. Included = Ids(page.selected)
    BY DEF Included, SetOf, Ids
  <2>2. page.pc = "fill" /\ page.cands = {}
    BY <1>3 DEF FinishFill
  <2> DEFINE front == [i \in DOMAIN page.selected |-> <<page.selected[i].id, 0>>]
  <2>3. \/ page' = [page EXCEPT !.pc = "expand", !.visited = Included, !.frontier = front]
        \/ page' = [page EXCEPT !.pc = "done"]
    BY <1>3 DEF FinishFill, Step
  <2> HIDE DEF front
  <2>4. ASSUME NEW p \in {[page EXCEPT !.pc = "expand", !.visited = Included, !.frontier = front],
                          [page EXCEPT !.pc = "done"]}
        PROVE  Sound(p)
    <3>1. /\ Locals \subseteq DOMAIN p /\ p.pc \in {"expand", "done"}
          /\ p.selected = page.selected /\ p.omitted = page.omitted /\ p.loaded = page.loaded
          /\ p.cands = page.cands /\ p.compressed = page.compressed /\ p.rebuilt = page.rebuilt
          /\ p.pos = page.pos /\ p.drops = page.drops /\ p.summary_for = page.summary_for
          /\ p.pc = "expand" => p.visited = Included
      BY <1>1 DEF Locals
    <3> HIDE DEF Sound
    <3> QED
      BY <1>1, <2>1, <2>2, <3>1, LaterSound
  <2> QED
    BY <2>3, <2>4
<1>4. ASSUME NEW b \in page.cands, SkipRedundant(b) \/ OmitCandidate(b) PROVE Sound(page')
  BY <1>4, OmitSound DEF SkipRedundant, OmitCandidate, Considered, Step
<1> QED
  BY <1>2, <1>3, <1>4, TakeCandidateSound, SubstituteSound

LEMMA ExpandStepsSound ==
  ASSUME Sound(page), PopFrontier \/ PullDependency \/ FinishExpand
  PROVE  Sound(page')
<1>1. Locals \subseteq DOMAIN page /\ page.pos \in Nat /\ page.pc = "expand"
      /\ \A d \in page.drops : d.reason \in DropReasons
  BY DEF Sound, WellFormed, PopFrontier, PullDependency, FinishExpand
<1>2. page.cands = {} /\ Ids(page.selected) \subseteq page.visited
  BY <1>1 DEF Sound, Undecided, Expanded
<1>3. CASE PopFrontier
  <2> DEFINE popped == [page EXCEPT !.frontier = Tail(@)]
             depth == Head(page.frontier)[2]
  <2>1. page' = popped \/ \E q : page' = [popped EXCEPT !.depth = depth, !.deps = q]
    <3>1. CASE page' = popped
      BY <3>1
    <3>2. CASE page' # popped
      <4>1. PICK k \in KindSequences :
              LET c == Head(page.frontier)[1] IN
              page' = [popped EXCEPT
                         !.depth = depth,
                         !.deps = Lineage(c) \o Outgoing(c, k[1]) \o Outgoing(c, k[2])
                                    \o Outgoing(c, k[3]) \o Outgoing(c, k[4]) \o Children(c)]
        BY <1>3, <3>2 DEF PopFrontier, Step
      <4> QED
        BY <4>1
    <3> QED
      BY <3>1, <3>2
  <2>2. CASE page' = popped
    BY <1>1, <1>2, <2>2, LaterSound DEF Locals
  <2>3. ASSUME NEW q, page' = [popped EXCEPT !.depth = depth, !.deps = q]
        PROVE  Sound(page')
    BY <1>1, <1>2, <2>3, LaterSound DEF Locals
  <2> QED
    BY <2>1, <2>2, <2>3
<1>4. CASE FinishExpand
  <2>1. page' = [page EXCEPT !.pc = IF Reconciles THEN "reconcile" ELSE "done"]
    BY <1>4 DEF FinishExpand, Step
  <2> QED
    BY <1>1, <1>2, <2>1, LaterSound DEF Locals
<1>5. CASE PullDependency
  <2> DEFINE b == Head(page.deps)
             tried == [page EXCEPT !.deps = Tail(@), !.visited = @ \union {b}]
             p == [Include(tried, b, "Dependency")
                     EXCEPT !.frontier = Append(@, <<b, page.depth + 1>>)]
  <2>1. page' = tried \/ (b \notin page.visited /\ page' = p)
    BY <1>5 DEF PullDependency, Step
  <2>2. CASE page' = tried
    BY <1>1, <1>2, <2>2, LaterSound DEF Locals
  <2>3. CASE b \notin page.visited /\ page' = p
    <3>1. /\ Locals \subseteq DOMAIN p /\ p.pc = page.pc
          /\ p.selected = Append(page.selected, [id |-> b, reason |-> "Dependency", note |-> None])
          /\ p.pos = page.pos /\ p.drops = page.drops /\ p.rebuilt = page.rebuilt
          /\ p.omitted = page.omitted /\ p.loaded = page.loaded /\ p.listed = page.listed
          /\ p.compressed = page.compressed /\ p.summary_for = page.summary_for
          /\ p.cands = page.cands /\ p.visited = page.visited \union {b}
      BY <1>1 DEF Locals, Include
    <3>2. \A i \in DOMAIN page.selected : page.selected[i].id # b
      BY <1>2, <2>3 DEF Ids
    <3> HIDE DEF p, b
    <3>3. Sound(p)
      BY <1>1, <1>2, <3>1, <3>2, IncludeSound
    <3> QED
      BY <2>3, <3>3
  <2> QED
    BY <2>1, <2>2, <2>3
<1> QED
  BY <1>3, <1>4, <1>5

-----------------------------------------------------------------------------
(* Reconciliation.                                                         *)

LEMMA ReconcileStepsSound ==
  ASSUME Sound(page), ReadEdges \/ ResolveEdge
  PROVE  Sound(page')
<1>1. Locals \subseteq DOMAIN page /\ page.pos \in Nat /\ page.pc = "reconcile"
      /\ \A d \in page.drops : d.reason \in DropReasons
  BY DEF Sound, WellFormed, ReadEdges, ResolveEdge
<1>2. page.cands = {}
  BY <1>1 DEF Sound, Undecided
<1>3. CASE ReadEdges
  <2>1. page' = [page EXCEPT !.pos = @ + 1, !.adjacent = EdgesFrom(page.selected[page.pos + 1].id)]
    BY <1>3 DEF ReadEdges, Step
  <2> DEFINE p == [page EXCEPT !.pos = @ + 1, !.adjacent = EdgesFrom(page.selected[page.pos + 1].id)]
  <2>2. /\ Locals \subseteq DOMAIN p /\ p.pc = "reconcile" /\ p.pos = page.pos + 1
        /\ p.selected = page.selected /\ p.rebuilt = page.rebuilt /\ p.drops = page.drops
        /\ p.omitted = page.omitted /\ p.loaded = page.loaded /\ p.cands = page.cands
        /\ p.compressed = page.compressed /\ p.summary_for = page.summary_for
    BY <1>1 DEF Locals
  <2>3. p.pos \in Nat
    BY <1>1, <2>2
  <2> HIDE DEF p
  <2>4. Sound(p)
    BY <1>1, <1>2, <2>2, <2>3, LaterSound
  <2> QED
    BY <2>1, <2>4 DEF p
<1>4. CASE ResolveEdge
  <2> DEFINE read == [page EXCEPT !.adjacent = Tail(@)]
  <2>1. \/ \E b, why : why \in DropReasons
             /\ page' = [read EXCEPT !.drops = Keep(@, [id |-> b, reason |-> why])]
        \/ \E n : page' = [read EXCEPT !.notes = n]
        \/ page' = read
    BY <1>4 DEF ResolveEdge, Step, DropReasons
  <2>2. ASSUME NEW b, NEW why \in DropReasons,
               page' = [read EXCEPT !.drops = Keep(@, [id |-> b, reason |-> why])]
        PROVE  Sound(page')
    <3>1. \A d \in Keep(page.drops, [id |-> b, reason |-> why]) : d.reason \in DropReasons
      BY <1>1 DEF Keep
    <3> QED
      BY <1>1, <1>2, <2>2, <3>1, LaterSound DEF Locals
  <2>3. ASSUME NEW n, page' = [read EXCEPT !.notes = n] PROVE Sound(page')
    BY <1>1, <1>2, <2>3, LaterSound DEF Locals
  <2>4. CASE page' = read
    BY <1>1, <1>2, <2>4, LaterSound DEF Locals
  <2> QED
    BY <2>1, <2>2, <2>3, <2>4
<1> QED
  BY <1>3, <1>4

LEMMA FinishReconcileSound ==
  ASSUME Sound(page), FinishReconcile
  PROVE  Sound(page')
<1>1. Locals \subseteq DOMAIN page /\ page.pos \in Nat /\ page.pc = "reconcile"
      /\ \A d \in page.drops : d.reason \in DropReasons
  BY DEF Sound, WellFormed, FinishReconcile
<1>2. page.cands = {} /\ page.rebuilt = <<>>
  BY <1>1 DEF Sound, WellFormed, Undecided
<1>3. CASE page' = [page EXCEPT !.pc = "done"]
  BY <1>1, <1>2, <1>3, LaterSound DEF Locals
<1>4. CASE page' = [page EXCEPT !.pc = "rebuild", !.pos = 0]
  <2> DEFINE p == [page EXCEPT !.pc = "rebuild", !.pos = 0]
  <2>1. /\ Locals \subseteq DOMAIN p /\ p.pc = "rebuild" /\ p.pos = 0
        /\ p.selected = page.selected /\ p.rebuilt = <<>> /\ p.drops = page.drops
        /\ p.omitted = page.omitted /\ p.loaded = page.loaded /\ p.cands = {}
        /\ p.compressed = page.compressed /\ p.summary_for = page.summary_for
    BY <1>1, <1>2 DEF Locals
  <2> HIDE DEF p
  <2>2. DOMAIN <<>> = {} /\ Len(page.selected) \in Nat /\ 1..0 = {}
    BY AppendOne DEF Sound, WellFormed, Selections
  <2>3. Rebuilding(p)
    <3>1. p.pos <= Len(p.selected)
      BY <2>1, <2>2
    <3>2. IsSeq(p.rebuilt)
      BY <1>2, <2>1 DEF Sound, WellFormed
    <3>3. DOMAIN p.rebuilt = {} /\ 1..p.pos = {}
      BY <2>1, <2>2
    <3> QED
      BY <3>1, <3>2, <3>3 DEF Rebuilding, Selections, OnceIn
  <2>4. WellFormed(p) /\ Undecided(p) /\ Expanded(p)
    BY <1>2, <2>1 DEF Sound, WellFormed, Undecided, Expanded
  <2>5. Accounted(p) /\ Covered(p) /\ OnceIn(p.selected, p.compressed)
    BY <1>2, <2>1 DEF Sound, Accounted, Covered
  <2> QED
    BY <1>4, <2>3, <2>4, <2>5 DEF Sound, p
<1> QED
  BY <1>3, <1>4 DEF FinishReconcile, Step

(* One more selection is kept, or omitted for the reason it was dropped.   *)
LEMMA RebuildSound ==
  ASSUME Sound(page), Rebuild
  PROVE  Sound(page')
<1> DEFINE n == page.pos + 1
           sel == page.selected[n]
           on == [page EXCEPT !.pos = @ + 1]
<1>1. /\ Locals \subseteq DOMAIN page /\ page.pos \in Nat /\ page.pc = "rebuild"
      /\ page.pos < Len(page.selected) /\ page.cands = {}
      /\ Selections(page.selected) /\ OnceIn(page.selected, page.compressed)
      /\ Selections(page.rebuilt) /\ OnceIn(page.rebuilt, page.compressed)
  BY DEF Sound, WellFormed, Undecided, Rebuilding, Rebuild
<1>2. Len(page.selected) \in Nat /\ DOMAIN page.selected = 1..Len(page.selected)
      /\ Len(page.rebuilt) \in Nat /\ DOMAIN page.rebuilt = 1..Len(page.rebuilt)
  BY <1>1, AppendOne DEF Selections
<1>3. n \in DOMAIN page.selected /\ page.pos \in 0..n /\ 1..n = 1..page.pos \union {n}
      /\ n \notin 1..page.pos /\ 1..page.pos \subseteq DOMAIN page.selected
  BY <1>1, <1>2
<1>4. \/ \E d \in page.drops : \E e :
           d.id = sel.id /\ page' = [Omit(on, d.id, d.reason) EXCEPT !.estimated = e]
      \/ page' = [on EXCEPT !.rebuilt = Append(@, sel)]
      \/ \E w : page' = [on EXCEPT !.rebuilt = Append(@, [sel EXCEPT !.note = w])]
  BY DEF Rebuild, Step
<1> HIDE DEF n
<1>5. ASSUME NEW d \in page.drops, NEW e, d.id = sel.id,
             page' = [Omit(on, d.id, d.reason) EXCEPT !.estimated = e]
      PROVE  Sound(page')
  <2> DEFINE p == [Omit(on, d.id, d.reason) EXCEPT !.estimated = e]
             o == [id |-> d.id, reason |-> d.reason]
  <2>1. /\ Locals \subseteq DOMAIN p /\ p.pc = "rebuild" /\ p.pos = n
        /\ p.selected = page.selected /\ p.rebuilt = page.rebuilt /\ p.drops = page.drops
        /\ p.omitted = page.omitted \union {o} /\ p.loaded = page.loaded /\ p.cands = {}
        /\ p.compressed = page.compressed /\ p.summary_for = page.summary_for
    BY <1>1 DEF Locals, Omit, n
  <2>2. o.id = sel.id /\ o.reason = d.reason /\ d.reason \in DropReasons
    BY <1>5 DEF Sound, WellFormed
  <2> HIDE DEF p, o, sel
  <2>3. Rebuilding(p)
    <3>1. p.pos <= Len(p.selected)
      BY <1>2, <1>3, <2>1
    <3>2. ASSUME NEW i \in 1..p.pos
          PROVE  \/ p.selected[i].id \in Ids(p.rebuilt)
                 \/ \E q \in p.omitted : q.id = p.selected[i].id /\ q.reason \in DropReasons
      BY <1>1, <1>3, <2>1, <2>2 DEF Sound, Rebuilding, sel
    <3>3. ASSUME NEW k \in DOMAIN p.rebuilt
          PROVE  \E i \in 1..p.pos :
                   p.rebuilt[k].id = p.selected[i].id /\ p.rebuilt[k].reason = p.selected[i].reason
      BY <1>1, <1>3, <2>1 DEF Sound, Rebuilding
    <3> QED
      BY <1>1, <2>1, <3>1, <3>2, <3>3 DEF Rebuilding
  <2>4. WellFormed(p) /\ Undecided(p) /\ Expanded(p)
    BY <1>1, <1>3, <2>1 DEF Sound, WellFormed, Undecided, Expanded, n
  <2>5. Accounted(p) /\ OnceIn(p.selected, p.compressed)
    BY <1>1, <2>1 DEF Sound, Accounted, IdsOf
  <2>6. Covered(p)
    BY <2>1, <2>2 DEF Sound, Covered, IdsOf, DropReasons
  <2> QED
    BY <1>5, <2>3, <2>4, <2>5, <2>6 DEF Sound, p
<1>6. ASSUME NEW x, x.id = sel.id, x.reason = sel.reason,
             {"id", "reason", "note"} \subseteq DOMAIN x,
             page' = [on EXCEPT !.rebuilt = Append(@, x)]
      PROVE  Sound(page')
  <2> DEFINE p == [on EXCEPT !.rebuilt = Append(@, x)]
  <2>1. /\ Locals \subseteq DOMAIN p /\ p.pc = "rebuild" /\ p.pos = n
        /\ p.selected = page.selected /\ p.rebuilt = Append(page.rebuilt, x)
        /\ p.drops = page.drops /\ p.omitted = page.omitted
        /\ p.loaded = page.loaded /\ p.cands = {}
        /\ p.compressed = page.compressed /\ p.summary_for = page.summary_for
    BY <1>1 DEF Locals, n
  <2> HIDE DEF p, on
  <2>2. \/ x.id \in page.compressed
        \/ \A k \in DOMAIN page.rebuilt :
             page.rebuilt[k].id = x.id => x.reason = "Pinned" /\ page.rebuilt[k].reason = "Pinned"
    <3> SUFFICES ASSUME x.id \notin page.compressed,
                        NEW k \in DOMAIN page.rebuilt, page.rebuilt[k].id = x.id
                 PROVE  x.reason = "Pinned" /\ page.rebuilt[k].reason = "Pinned"
      OBVIOUS
    <3>1. PICK i \in 1..page.pos :
            /\ page.rebuilt[k].id = page.selected[i].id
            /\ page.rebuilt[k].reason = page.selected[i].reason
      BY <1>1 DEF Sound, Rebuilding
    <3>2. i \in DOMAIN page.selected /\ i # n
      BY <1>3
    <3> QED
      BY <1>1, <1>3, <1>6, <3>1, <3>2 DEF OnceIn
  <2>3. Selections(p.rebuilt) /\ OnceIn(p.rebuilt, p.compressed)
        /\ Ids(p.rebuilt) = Ids(page.rebuilt) \union {x.id}
    BY <1>1, <1>6, <2>1, <2>2, IncludeOne
  <2>4. Rebuilding(p)
    <3>1. p.pos <= Len(p.selected)
      BY <1>2, <1>3, <2>1
    <3>2. ASSUME NEW i \in 1..p.pos
          PROVE  \/ p.selected[i].id \in Ids(p.rebuilt)
                 \/ \E q \in p.omitted : q.id = p.selected[i].id /\ q.reason \in DropReasons
      BY <1>1, <1>3, <1>6, <2>1, <2>3 DEF Sound, Rebuilding
    <3>3. ASSUME NEW k \in DOMAIN p.rebuilt
          PROVE  \E i \in 1..p.pos :
                   p.rebuilt[k].id = p.selected[i].id /\ p.rebuilt[k].reason = p.selected[i].reason
      <4>1. /\ DOMAIN p.rebuilt = 1..(Len(page.rebuilt) + 1)
            /\ \A j \in 1..Len(page.rebuilt) : p.rebuilt[j] = page.rebuilt[j]
            /\ p.rebuilt[Len(page.rebuilt) + 1] = x
        BY <1>1, <2>1, AppendOne DEF Selections
      <4>2. CASE k \in 1..Len(page.rebuilt)
        BY <1>1, <1>2, <1>3, <2>1, <4>1, <4>2 DEF Sound, Rebuilding
      <4>3. CASE k = Len(page.rebuilt) + 1
        BY <1>3, <1>6, <2>1, <4>1, <4>3
      <4> QED
        BY <1>2, <4>1, <4>2, <4>3
    <3> QED
      BY <2>3, <3>1, <3>2, <3>3 DEF Rebuilding
  <2>5. WellFormed(p) /\ Undecided(p) /\ Expanded(p)
    BY <1>1, <1>3, <2>1, <2>3 DEF Sound, WellFormed, Undecided, Expanded, Selections, n
  <2>6. Accounted(p) /\ Covered(p) /\ OnceIn(p.selected, p.compressed)
    BY <1>1, <2>1 DEF Sound, Accounted, Covered
  <2> QED
    BY <1>6, <2>4, <2>5, <2>6 DEF Sound, p
<1>7. {"id", "reason", "note"} \subseteq DOMAIN sel
  BY <1>1, <1>3 DEF Selections
<1>8. ASSUME NEW w, page' = [on EXCEPT !.rebuilt = Append(@, [sel EXCEPT !.note = w])]
      PROVE  Sound(page')
  <2> DEFINE x == [sel EXCEPT !.note = w]
  <2>1. x.id = sel.id /\ x.reason = sel.reason /\ {"id", "reason", "note"} \subseteq DOMAIN x
    BY <1>7
  <2> HIDE DEF x, on
  <2> QED
    BY <1>6, <1>8, <2>1 DEF x
<1>9. CASE page' = [on EXCEPT !.rebuilt = Append(@, sel)]
  BY <1>6, <1>7, <1>9
<1> QED
  BY <1>4, <1>5, <1>8, <1>9

(* The plan without what was dropped takes the place of the first one.     *)
LEMMA FinishRebuildSound ==
  ASSUME Sound(page), FinishRebuild
  PROVE  Sound(page')
<1> DEFINE p == [page EXCEPT !.pc = "done", !.selected = page.rebuilt]
<1>1. page.pc = "rebuild" /\ page.pos = Len(page.selected) /\ page' = p
  BY DEF FinishRebuild, Step
<1>2. Locals \subseteq DOMAIN page /\ Selections(page.selected) /\ page.cands = {}
      /\ Selections(page.rebuilt) /\ OnceIn(page.rebuilt, page.compressed)
  BY <1>1 DEF Sound, WellFormed, Undecided, Rebuilding
<1>3. /\ Locals \subseteq DOMAIN p /\ p.pc = "done" /\ p.pos = page.pos
      /\ p.selected = page.rebuilt /\ p.rebuilt = page.rebuilt /\ p.drops = page.drops
      /\ p.omitted = page.omitted /\ p.loaded = page.loaded /\ p.cands = {}
      /\ p.compressed = page.compressed /\ p.summary_for = page.summary_for
  BY <1>2 DEF Locals
<1> HIDE DEF p
<1>4. Ids(page.selected) \subseteq
        Ids(p.selected) \union IdsOf({o \in p.omitted : o.reason \in DropReasons})
  <2>1. DOMAIN page.selected = 1..page.pos
    BY <1>1, <1>2, AppendOne DEF Selections
  <2>2. ASSUME NEW i \in 1..page.pos
        PROVE  page.selected[i].id \in
                 Ids(p.selected) \union IdsOf({o \in p.omitted : o.reason \in DropReasons})
    BY <1>1, <1>3 DEF Sound, Rebuilding, IdsOf
  <2> QED
    BY <2>1, <2>2 DEF Ids
<1>5. IdsOf({o \in p.omitted : o.reason \in DropReasons}) \subseteq IdsOf(p.omitted)
  BY DEF IdsOf
<1>6. WellFormed(p) /\ Undecided(p) /\ Expanded(p) /\ Rebuilding(p)
  BY <1>2, <1>3 DEF Sound, WellFormed, Undecided, Expanded, Rebuilding
<1>7. Accounted(p)
  BY <1>2, <1>3, <1>4, <1>5 DEF Sound, Accounted
<1>8. Covered(p)
  BY <1>3, <1>4 DEF Sound, Covered
<1> QED
  BY <1>1, <1>2, <1>3, <1>6, <1>7, <1>8 DEF Sound

-----------------------------------------------------------------------------

PlanInv == RequestKnown /\ Sound(page)

LEMMA PlanInitInv == Init => PlanInv
BY StartSound DEF Init, PlanInv, RequestKnown

LEMMA PlanNextInv ==
  ASSUME PlanInv, [Next]_vars
  PROVE  PlanInv'
<1>1. CASE PageStep
  <2>1. Sound(page')
    BY <1>1, ResolveRequiredSound, RetrieveSound, LoadCandidateSound, StartSystemSound,
       FillSystemSound, AllocateSound, FillStepsSound, ExpandStepsSound, ReconcileStepsSound,
       FinishReconcileSound, RebuildSound, FinishRebuildSound
    DEF PageStep, PlanInv
  <2>2. request' = request
    BY <1>1
    DEF PageStep, ResolveRequired, Retrieve, LoadCandidate, StartSystem, FillSystem, Allocate,
        NextSection, SkipRedundant, TakeCandidate, OmitCandidate, Substitute, FinishFill,
        PopFrontier, PullDependency, FinishExpand, ReadEdges, ResolveEdge, FinishReconcile,
        Rebuild, FinishRebuild, Step
  <2> QED
    BY <2>1, <2>2 DEF PlanInv, RequestKnown, Sound, Undecided
<1>2. CASE Fail
  BY <1>2, StartSound DEF Fail, Step, PlanInv, RequestKnown, Sound, Undecided
<1>3. CASE UNCHANGED <<request, page>>
  BY <1>3 DEF PlanInv, RequestKnown, Sound, WellFormed, Undecided, Accounted, Covered, Expanded, Rebuilding
<1> QED
  BY <1>1, <1>2, <1>3 DEF Next, OtherPut, OtherDelete, OtherPutEdge, vars

(***************************************************************************)
(* Whatever the store, the request and the policy, and whatever blocks and *)
(* edges others put and delete during the call: Sound holds at every step. *)
(***************************************************************************)
THEOREM PlanInvariant == Spec => []PlanInv
BY PlanInitInv, PlanNextInv, PTL DEF Spec

(***************************************************************************)
(* Each candidate that was loaded is selected or omitted, also when what   *)
(* it contradicts, derives from or is summarized by is dropped again; none *)
(* is charged twice, but for a block required twice and a summary.         *)
(***************************************************************************)
THEOREM CandidatesOnceAlways == Spec => []CandidatesOnce
<1>1. PlanInv => CandidatesOnce
  <2> SUFFICES ASSUME PlanInv PROVE CandidatesOnce
    OBVIOUS
  <2>1. Included = Ids(page.selected) /\ {o.id : o \in page.omitted} = IdsOf(page.omitted)
    BY DEF Included, SetOf, Ids, IdsOf
  <2>2. CandidatesAccounted
    BY <2>1 DEF PlanInv, Sound, Undecided, Accounted, CandidatesAccounted, Done
  <2>3. NoRepeat
    BY DEF PlanInv, Sound, OnceIn, NoRepeat
  <2> QED
    BY <2>2, <2>3 DEF CandidatesOnce
<1> QED
  BY <1>1, PlanInvariant, PTL

(***************************************************************************)
(* The prompt never claims a summary that is not there: what was omitted as*)
(* Compressed has one that was selected, and that can be missing only      *)
(* because reconciliation dropped it and says so.                          *)
(***************************************************************************)
THEOREM CompressedIsCoveredAlways == Spec => []CompressedIsCovered
<1>1. PlanInv => CompressedIsCovered
  <2> SUFFICES ASSUME PlanInv, NEW o \in page.omitted, o.reason = "Compressed"
               PROVE  \E s \in Included \union Dropped : Summarizes(s, o.id)
    BY DEF CompressedIsCovered, Omitted
  <2>1. PICK s \in page.compressed : Summarizes(s, o.id)
    BY DEF PlanInv, Sound, Covered
  <2>2. s \in Ids(page.selected) \union IdsOf({d \in page.omitted : d.reason \in DropReasons})
    BY <2>1 DEF PlanInv, Sound, Covered
  <2>3. Included = Ids(page.selected)
    BY DEF Included, SetOf, Ids
  <2>4. IdsOf({d \in page.omitted : d.reason \in DropReasons}) \subseteq Dropped
    BY DEF Dropped, Omitted, IdsOf, DropReasons
  <2> QED
    BY <2>1, <2>2, <2>3, <2>4
<1> QED
  BY <1>1, PlanInvariant, PTL

-----------------------------------------------------------------------------
(* What a plan costs.                                                      *)

Selection == [id : BlockId, reason : Reasons, note : BlockId \union {None}]

-----------------------------------------------------------------------------
(* The tokens of some of the selections.                                   *)

Cost(seq, P) == [n \in 1..Len(seq) |-> IF n \in P THEN Tokens(seq[n].id) ELSE 0]

(* f adds the costs up. *)
Adds(f, cost, m) == f[0] = 0 /\ \A n \in 1..m : f[n] = f[n - 1] + cost[n]

LEMMA CostType ==
  ASSUME NEW seq \in Seq(Selection), NEW P
  PROVE  Cost(seq, P) \in [1..Len(seq) -> Nat] /\ Len(seq) \in Nat /\ DOMAIN seq = 1..Len(seq)
<1>1. Len(seq) \in Nat /\ DOMAIN seq = 1..Len(seq)
  OBVIOUS
<1>2. ASSUME NEW n \in 1..Len(seq) PROVE Tokens(seq[n].id) \in Nat
  <2>1. seq[n] \in Selection
    OBVIOUS
  <2>2. seq[n].id \in BlockId
    BY <2>1 DEF Selection
  <2> QED
    BY <2>2, BlockAssumption DEF Tokens
<1> QED
  BY <1>1, <1>2 DEF Cost

LEMMA TokensAdded ==
  ASSUME NEW seq \in Seq(Selection), NEW P
  PROVE  \E f \in [0..Len(seq) -> Nat] :
           Adds(f, Cost(seq, P), Len(seq)) /\ TokensAt(seq, P) = f[Len(seq)]
<1> DEFINE m == Len(seq)
           c == Cost(seq, P)
           step == [n \in 1..m |-> [v \in Nat |-> v + c[n]]]
           Is(f) == f = [n \in 0..m |->
                           IF n = 0 THEN 0
                           ELSE f[n - 1] + (IF n \in P THEN Tokens(seq[n].id) ELSE 0)]
<1>1. m \in Nat /\ c \in [1..m -> Nat]
  BY CostType
<1>2. \A n \in 1..m : c[n] = IF n \in P THEN Tokens(seq[n].id) ELSE 0
  BY DEF Cost
<1> HIDE DEF c, m
<1>3. step \in [1..m -> [Nat -> Nat]] /\ \A n \in 1..m : \A v \in Nat : step[n][v] = v + c[n]
  BY <1>1
<1> HIDE DEF step
<1>4. PICK f \in [0..m -> Nat] : Recursive(f, m, 0, step)
  <2>1. 0 \in Nat
    OBVIOUS
  <2> QED
    BY <1>1, <1>3, <2>1, RecursionExists
<1>5. f[0] = 0 /\ \A n \in 1..m : f[n] = f[n - 1] + c[n]
  <2>1. \A n \in 1..m : f[n] = step[n][f[n - 1]] /\ f[n - 1] \in Nat
    BY <1>1, <1>4 DEF Recursive
  <2> QED
    BY <1>3, <1>4, <2>1 DEF Recursive
<1>6. Is(f)
  BY <1>1, <1>2, <1>4, <1>5
<1>7. PICK g : g = (CHOOSE h : Is(h))
  OBVIOUS
<1>8. Is(g)
  BY <1>6, <1>7
<1>9. TokensAt(seq, P) = g[m]
  BY <1>7 DEF TokensAt, m
<1>10. \A n \in 0..m : g[n] = IF n = 0 THEN 0
                             ELSE g[n - 1] + (IF n \in P THEN Tokens(seq[n].id) ELSE 0)
  BY <1>8
<1>11. DOMAIN g = 0..m
  BY <1>8
<1>12. g = [n \in 0..m |-> g[n]]
  BY <1>8
<1> HIDE DEF Is
<1>13. g[0] = 0 /\ \A n \in 1..m : g[n] = g[n - 1] + c[n]
  <2>1. g[0] = 0
    <3>1. 0 \in 0..m
      BY <1>1
    <3> QED
      BY <1>10, <3>1
  <2>2. ASSUME NEW n \in 1..m PROVE g[n] = g[n - 1] + c[n]
    <3>1. n \in 0..m /\ n # 0
      BY <1>1
    <3>2. g[n] = g[n - 1] + (IF n \in P THEN Tokens(seq[n].id) ELSE 0)
      BY <1>10, <3>1
    <3> QED
      BY <1>2, <3>2
  <2> QED
    BY <2>1, <2>2
<1>14. \A n \in 0..m : g[n] \in Nat
  <2>1. \A n \in 1..m : g[n - 1] \in Nat => g[n] \in Nat
    <3> SUFFICES ASSUME NEW n \in 1..m, g[n - 1] \in Nat PROVE g[n] \in Nat
      OBVIOUS
    <3>1. c[n] \in Nat /\ g[n] = g[n - 1] + c[n]
      BY <1>1, <1>13
    <3> QED
      BY <3>1
  <2>2. g[0] \in Nat
    BY <1>13
  <2> QED
    BY <1>1, <2>1, <2>2, RecursionStays
<1>15. g \in [0..m -> Nat]
  BY <1>12, <1>14
<1> QED
  BY <1>9, <1>13, <1>15 DEF Adds, c, m

LEMMA TokensNat ==
  ASSUME NEW seq \in Seq(Selection), NEW P
  PROVE  TokensAt(seq, P) \in Nat
<1>1. Len(seq) \in 0..Len(seq)
  BY CostType
<1> QED
  BY <1>1, TokensAdded

(* What stands at two disjoint sets of positions is counted apart.         *)
LEMMA TokensSplit ==
  ASSUME NEW seq \in Seq(Selection), NEW P, NEW Q, P \intersect Q = {}
  PROVE  TokensAt(seq, P \union Q) = TokensAt(seq, P) + TokensAt(seq, Q)
<1> DEFINE m == Len(seq)
           a == Cost(seq, P \union Q)
           b == Cost(seq, P)
           c == Cost(seq, Q)
<1>1. m \in Nat /\ a \in [1..m -> Nat] /\ b \in [1..m -> Nat] /\ c \in [1..m -> Nat]
  BY CostType
<1>2. ASSUME NEW n \in 1..m PROVE a[n] = b[n] + c[n]
  <2>1. /\ a[n] = IF n \in P \union Q THEN Tokens(seq[n].id) ELSE 0
        /\ b[n] = IF n \in P THEN Tokens(seq[n].id) ELSE 0
        /\ c[n] = IF n \in Q THEN Tokens(seq[n].id) ELSE 0
    BY DEF Cost
  <2>2. a[n] \in Nat /\ b[n] \in Nat /\ c[n] \in Nat
    BY <1>1
  <2> QED
    BY <2>1, <2>2
<1>3. PICK f \in [0..m -> Nat] : Adds(f, a, m) /\ TokensAt(seq, P \union Q) = f[m]
  BY TokensAdded
<1>4. PICK g \in [0..m -> Nat] : Adds(g, b, m) /\ TokensAt(seq, P) = g[m]
  BY TokensAdded
<1>5. PICK h \in [0..m -> Nat] : Adds(h, c, m) /\ TokensAt(seq, Q) = h[m]
  BY TokensAdded
<1> HIDE DEF a, b, c, m
<1> DEFINE S == {n \in 0..m : f[n] = g[n] + h[n]}
<1>6. 0 \in S
  BY <1>1, <1>3, <1>4, <1>5 DEF Adds
<1>7. \A n \in 1..m : n - 1 \in S => n \in S
  <2> SUFFICES ASSUME NEW n \in 1..m, n - 1 \in S PROVE n \in S
    OBVIOUS
  <2>1. f[n] = f[n - 1] + a[n] /\ g[n] = g[n - 1] + b[n] /\ h[n] = h[n - 1] + c[n]
    BY <1>3, <1>4, <1>5 DEF Adds
  <2>2. n - 1 \in 0..m /\ f[n - 1] = g[n - 1] + h[n - 1] /\ a[n] = b[n] + c[n]
    BY <1>1, <1>2
  <2>3. g[n - 1] \in Nat /\ h[n - 1] \in Nat /\ b[n] \in Nat /\ c[n] \in Nat
    BY <1>1, <2>2
  <2> QED
    BY <1>1, <2>1, <2>2, <2>3
<1> HIDE DEF S
<1>8. m \in S
  <2>1. \A n \in 0..m : n \in S
    BY <1>1, <1>6, <1>7, InductionUpTo
  <2> QED
    BY <1>1, <2>1
<1> QED
  BY <1>3, <1>4, <1>5, <1>8 DEF S

(* Nothing stands at positions the plan does not have. *)
LEMMA TokensNone ==
  ASSUME NEW seq \in Seq(Selection), NEW P, P \intersect DOMAIN seq = {}
  PROVE  TokensAt(seq, P) = 0
<1> DEFINE m == Len(seq)
           c == Cost(seq, P)
<1>1. m \in Nat /\ \A n \in 1..m : c[n] = 0
  BY CostType DEF Cost
<1>2. PICK f \in [0..m -> Nat] : Adds(f, c, m) /\ TokensAt(seq, P) = f[m]
  BY TokensAdded
<1> HIDE DEF c, m
<1> DEFINE S == {n \in 0..m : f[n] = 0}
<1>3. 0 \in S
  BY <1>1, <1>2 DEF Adds
<1>4. \A n \in 1..m : n - 1 \in S => n \in S
  <2> SUFFICES ASSUME NEW n \in 1..m, n - 1 \in S PROVE n \in S
    OBVIOUS
  <2>1. f[n] = f[n - 1] + c[n] /\ f[n - 1] = 0 /\ c[n] = 0
    BY <1>1, <1>2 DEF Adds
  <2> QED
    BY <1>1, <2>1
<1> HIDE DEF S
<1>5. \A n \in 0..m : n \in S
  BY <1>1, <1>3, <1>4, InductionUpTo
<1>6. m \in S
  BY <1>1, <1>5
<1> QED
  BY <1>2, <1>6 DEF S

LEMMA TokensSame ==
  ASSUME NEW seq \in Seq(Selection), NEW P, NEW Q, P \intersect DOMAIN seq = Q \intersect DOMAIN seq
  PROVE  TokensAt(seq, P) = TokensAt(seq, Q)
<1> DEFINE D == DOMAIN seq
           R == P \intersect D
<1>1. TokensAt(seq, R \union (P \ D)) = TokensAt(seq, R) + TokensAt(seq, P \ D)
  BY TokensSplit
<1>2. TokensAt(seq, R \union (Q \ D)) = TokensAt(seq, R) + TokensAt(seq, Q \ D)
  BY TokensSplit
<1>3. TokensAt(seq, P \ D) = 0 /\ TokensAt(seq, Q \ D) = 0 /\ TokensAt(seq, R) \in Nat
  BY TokensNone, TokensNat
<1>4. R \union (P \ D) = P /\ R \union (Q \ D) = Q
  OBVIOUS
<1> QED
  BY <1>1, <1>2, <1>3, <1>4

LEMMA TokensMonotone ==
  ASSUME NEW seq \in Seq(Selection), NEW Q, NEW P \in SUBSET Q
  PROVE  TokensAt(seq, P) <= TokensAt(seq, Q)
<1>1. TokensAt(seq, P \union (Q \ P)) = TokensAt(seq, P) + TokensAt(seq, Q \ P)
  BY TokensSplit
<1>2. P \union (Q \ P) = Q
  OBVIOUS
<1>3. TokensAt(seq, P) \in Nat /\ TokensAt(seq, Q \ P) \in Nat
  BY TokensNat
<1>4. TokensAt(seq, Q) = TokensAt(seq, P) + TokensAt(seq, Q \ P)
  BY <1>1, <1>2
<1> QED
  BY <1>3, <1>4

LEMMA TokensOne ==
  ASSUME NEW seq \in Seq(Selection), NEW i \in DOMAIN seq
  PROVE  TokensAt(seq, {i}) = Tokens(seq[i].id) /\ Tokens(seq[i].id) \in Nat
<1> DEFINE m == Len(seq)
           c == Cost(seq, {i})
<1>1. /\ m \in Nat /\ c \in [1..m -> Nat] /\ i \in 1..m
      /\ \A n \in 1..m : c[n] = IF n = i THEN Tokens(seq[n].id) ELSE 0
  BY CostType DEF Cost
<1>2. PICK f \in [0..m -> Nat] : Adds(f, c, m) /\ TokensAt(seq, {i}) = f[m]
  BY TokensAdded
<1> HIDE DEF c, m
<1> DEFINE t == Tokens(seq[i].id)
           S == {n \in 0..m : f[n] = IF n < i THEN 0 ELSE t}
<1>3. t \in Nat
  BY <1>1
<1> HIDE DEF t
<1>4. 0 \in S
  BY <1>1, <1>2 DEF Adds
<1>5. \A n \in 1..m : n - 1 \in S => n \in S
  <2> SUFFICES ASSUME NEW n \in 1..m, n - 1 \in S PROVE n \in S
    OBVIOUS
  <2>1. f[n] = f[n - 1] + c[n]
    BY <1>2 DEF Adds
  <2>2. f[n - 1] = IF n - 1 < i THEN 0 ELSE t
    OBVIOUS
  <2>3. c[n] = IF n = i THEN t ELSE 0
    BY <1>1 DEF t
  <2>4. n \in Nat /\ i \in Nat /\ n \in 0..m
    BY <1>1
  <2>5. f[n] = IF n < i THEN 0 ELSE t
    <3>1. CASE n < i
      BY <1>3, <2>1, <2>2, <2>3, <2>4, <3>1
    <3>2. CASE n = i
      BY <1>3, <2>1, <2>2, <2>3, <2>4, <3>2
    <3>3. CASE n > i
      BY <1>3, <2>1, <2>2, <2>3, <2>4, <3>3
    <3> QED
      BY <2>4, <3>1, <3>2, <3>3
  <2> QED
    BY <2>4, <2>5
<1> HIDE DEF S
<1>6. \A n \in 0..m : n \in S
  BY <1>1, <1>4, <1>5, InductionUpTo
<1>7. m \in S /\ ~(m < i)
  BY <1>1, <1>6
<1> QED
  BY <1>2, <1>3, <1>7 DEF S, t

LEMMA SelectedTyped ==
  ASSUME NEW seq \in Seq(Selection)
  PROVE  \A i \in DOMAIN seq :
           seq[i] \in Selection /\ seq[i].id \in BlockId /\ seq[i].reason \in Reasons
<1> SUFFICES ASSUME NEW i \in DOMAIN seq
             PROVE  seq[i] \in Selection /\ seq[i].id \in BlockId /\ seq[i].reason \in Reasons
  OBVIOUS
<1>1. seq[i] \in Selection
  OBVIOUS
<1> QED
  BY <1>1 DEF Selection

LEMMA AppendSelection ==
  ASSUME NEW seq \in Seq(Selection), NEW x \in Selection
  PROVE  /\ Append(seq, x) \in Seq(Selection)
         /\ Len(Append(seq, x)) = Len(seq) + 1 /\ Len(seq) \in Nat
         /\ DOMAIN seq = 1..Len(seq) /\ DOMAIN Append(seq, x) = 1..(Len(seq) + 1)
         /\ DOMAIN Append(seq, x) = DOMAIN seq \union {Len(seq) + 1}
         /\ Len(seq) + 1 \notin DOMAIN seq
         /\ \A i \in DOMAIN seq : Append(seq, x)[i] = seq[i]
         /\ Append(seq, x)[Len(seq) + 1] = x
OBVIOUS

(* What is appended comes on top. *)
LEMMA TokensAppend ==
  ASSUME NEW seq \in Seq(Selection), NEW x \in Selection, NEW P
  PROVE  TokensAt(Append(seq, x), P) =
           TokensAt(seq, P) + (IF Len(seq) + 1 \in P THEN Tokens(x.id) ELSE 0)
<1> DEFINE m == Len(seq)
           new == Append(seq, x)
           b == Cost(new, P)
           c == Cost(seq, P)
<1>1. /\ m \in Nat /\ new \in Seq(Selection) /\ Len(new) = m + 1
      /\ \A i \in 1..m : new[i] = seq[i]
      /\ new[m + 1] = x
  BY AppendSelection
<1>2. c \in [1..m -> Nat] /\ b \in [1..(m + 1) -> Nat]
  BY <1>1, CostType
<1> HIDE DEF m, new
<1>3. \A n \in 1..m : b[n] = c[n]
  BY <1>1 DEF Cost, m
<1>4. b[m + 1] = IF m + 1 \in P THEN Tokens(x.id) ELSE 0
  <2>1. m + 1 \in 1..Len(new)
    BY <1>1
  <2> QED
    BY <1>1, <2>1 DEF Cost
<1> HIDE DEF b, c
<1>5. PICK f \in [0..(m + 1) -> Nat] : Adds(f, b, m + 1) /\ TokensAt(new, P) = f[m + 1]
  BY <1>1, TokensAdded DEF b
<1>6. PICK g \in [0..m -> Nat] : Adds(g, c, m) /\ TokensAt(seq, P) = g[m]
  BY TokensAdded DEF c, m
<1> DEFINE S == {n \in 0..m : f[n] = g[n]}
<1>7. 0 \in S
  BY <1>1, <1>5, <1>6 DEF Adds
<1>8. \A n \in 1..m : n - 1 \in S => n \in S
  <2> SUFFICES ASSUME NEW n \in 1..m, n - 1 \in S PROVE n \in S
    OBVIOUS
  <2>0. n \in 1..(m + 1)
    BY <1>1
  <2>1. f[n] = f[n - 1] + b[n] /\ g[n] = g[n - 1] + c[n]
    BY <1>5, <1>6, <2>0 DEF Adds
  <2> QED
    BY <1>1, <1>3, <2>1
<1> HIDE DEF S
<1>9. \A n \in 0..m : n \in S
  BY <1>1, <1>7, <1>8, InductionUpTo
<1>10. f[m] = g[m] /\ f[m + 1] = f[(m + 1) - 1] + b[m + 1] /\ (m + 1) - 1 = m
  <2>1. m \in 0..m /\ m + 1 \in 1..(m + 1) /\ (m + 1) - 1 = m
    BY <1>1
  <2>2. f[m] = g[m]
    BY <1>9, <2>1 DEF S
  <2>3. f[m + 1] = f[(m + 1) - 1] + b[m + 1]
    BY <1>5, <2>1 DEF Adds
  <2> QED
    BY <2>1, <2>2, <2>3
<1>11. f[m + 1] = g[m] + b[m + 1]
  BY <1>10
<1>12. TokensAt(new, P) = TokensAt(seq, P) + b[m + 1]
  BY <1>5, <1>6, <1>11
<1> QED
  BY <1>4, <1>12 DEF m, new

-----------------------------------------------------------------------------
(* A finite set in order: what stands at each place of EdgesFrom and Newest. *)

(* Less orders S. *)
Orders(Less, S) ==
  /\ \A a \in S : <<a, a>> \notin Less
  /\ \A a, b, c \in S : <<a, b>> \in Less /\ <<b, c>> \in Less => <<a, c>> \in Less
  /\ \A a, b \in S : a = b \/ <<a, b>> \in Less \/ <<b, a>> \in Less

Below(Less, S, b) == {x \in S : <<x, b>> \in Less}

LEMMA Ranks ==
  ASSUME NEW S, IsFiniteSet(S), NEW Less, Orders(Less, S)
  PROVE  /\ Cardinality(S) \in Nat
         /\ \A b \in S : Cardinality(Below(Less, S, b)) \in 0..(Cardinality(S) - 1)
         /\ \A a, b \in S :
              Cardinality(Below(Less, S, a)) = Cardinality(Below(Less, S, b)) => a = b
         /\ \A i \in 0..(Cardinality(S) - 1) : \E b \in S : Cardinality(Below(Less, S, b)) = i
<1> DEFINE n == Cardinality(S)
           rank(b) == Cardinality(Below(Less, S, b))
<1>1. n \in Nat
  BY FS_CardinalityType
<1>2. ASSUME NEW b \in S
      PROVE  IsFiniteSet(Below(Less, S, b)) /\ rank(b) \in Nat /\ rank(b) < n
  <2>1. Below(Less, S, b) \in SUBSET S /\ Below(Less, S, b) # S
    BY DEF Below, Orders
  <2>2. IsFiniteSet(Below(Less, S, b)) /\ rank(b) <= n /\ n # rank(b)
    BY <2>1, FS_Subset
  <2>3. rank(b) \in Nat
    BY <2>2, FS_CardinalityType
  <2> QED
    BY <1>1, <2>2, <2>3
<1>3. ASSUME NEW a \in S, NEW b \in S, <<a, b>> \in Less
      PROVE  rank(a) < rank(b)
  <2>1. Below(Less, S, a) \in SUBSET Below(Less, S, b)
    BY <1>3 DEF Below, Orders
  <2>2. a \in Below(Less, S, b) /\ a \notin Below(Less, S, a)
    BY <1>3 DEF Below, Orders
  <2>3. Below(Less, S, a) # Below(Less, S, b)
    BY <2>2
  <2>4. rank(a) <= rank(b) /\ rank(b) # rank(a)
    BY <1>2, <2>1, <2>3, FS_Subset
  <2>5. rank(a) \in Nat /\ rank(b) \in Nat
    BY <1>2
  <2> HIDE DEF rank
  <2> QED
    BY <2>4, <2>5
<1>4. ASSUME NEW a \in S, NEW b \in S, rank(a) = rank(b)
      PROVE  a = b
  <2>1. rank(a) \in Nat /\ rank(b) \in Nat
    BY <1>2
  <2>2. ~(<<a, b>> \in Less) /\ ~(<<b, a>> \in Less)
    <3>1. <<a, b>> \in Less => rank(a) < rank(b)
      BY <1>3
    <3>2. <<b, a>> \in Less => rank(b) < rank(a)
      BY <1>3
    <3> HIDE DEF rank
    <3> QED
      BY <1>4, <2>1, <3>1, <3>2
  <2> QED
    BY <2>2 DEF Orders
<1>5. ASSUME NEW i \in 0..(n - 1)
      PROVE  \E b \in S : rank(b) = i
  <2> DEFINE T == 0..(n - 1)
             f == [b \in S |-> rank(b)]
  <2>1. IsFiniteSet(T) /\ Cardinality(T) = n
    <3>1. 0 \in Int /\ n - 1 \in Int
      BY <1>1
    <3>2. IsFiniteSet(T) /\ Cardinality(T) = IF 0 > n - 1 THEN 0 ELSE (n - 1) - 0 + 1
      BY <3>1, FS_Interval
    <3> HIDE DEF n, T
    <3> QED
      BY <1>1, <3>2
  <2>2. f \in [S -> T]
    <3> SUFFICES ASSUME NEW b \in S PROVE rank(b) \in T
      OBVIOUS
    <3>1. rank(b) \in Nat /\ rank(b) < n
      BY <1>2
    <3> HIDE DEF rank, n
    <3> QED
      BY <1>1, <3>1
  <2>3. f \in Injection(S, T)
    BY <1>4, <2>2 DEF Injection, IsInjective
  <2> HIDE DEF f, T, n
  <2>4. f \in Surjection(S, T)
    BY <2>1, <2>3, FS_Injection DEF n
  <2>5. i \in T
    BY DEF T
  <2> QED
    BY <2>4, <2>5 DEF Surjection, f
<1>6. ASSUME NEW b \in S PROVE rank(b) \in 0..(n - 1)
  <2>1. rank(b) \in Nat /\ rank(b) < n
    BY <1>2
  <2> HIDE DEF rank, n
  <2> QED
    BY <1>1, <2>1
<1> QED
  BY <1>1, <1>4, <1>5, <1>6

PolicyTyped == policy.max_depth \in Nat /\ policy.max_fanout \in Nat

LEMMA NewestIsSeq ==
  ASSUME PolicyTyped, NEW S \in SUBSET BlockId
  PROVE  Newest(S) \in Seq(S)
<1> DEFINE n == Cardinality(S)
           Less == {ss \in S \X S : ss[1] > ss[2]}
           m == IF n <= policy.max_fanout THEN n ELSE policy.max_fanout
<1>1. IsFiniteSet(S) /\ n \in Nat
  BY BlockAssumption, FS_Subset, FS_CardinalityType
<1>2. \A a, b \in S : <<a, b>> \in Less <=> a > b
  OBVIOUS
<1>3. Orders(Less, S)
  <2>1. \A a \in S : a \in Nat
    BY BlockAssumption
  <2> HIDE DEF Less
  <2> QED
    BY <1>2, <2>1 DEF Orders
<1>4. \A b \in S : Below(Less, S, b) = {x \in S : x > b}
  BY <1>2 DEF Below
<1> HIDE DEF Less
<1>5. \A i \in 0..(n - 1) : \E b \in S : Cardinality(Below(Less, S, b)) = i
  BY <1>1, <1>3, Ranks
<1>6. ASSUME NEW i \in 1..n
      PROVE  (CHOOSE b \in S : Cardinality({x \in S : x > b}) = i - 1) \in S
  <2>1. i - 1 \in 0..(n - 1)
    BY <1>1
  <2>2. \E b \in S : Cardinality({x \in S : x > b}) = i - 1
    BY <1>4, <1>5, <2>1
  <2> QED
    BY <2>2
<1> HIDE DEF n
<1>7. {j \in 1..n : j <= policy.max_fanout} = 1..m /\ m \in Nat /\ 1..m \subseteq 1..n
  BY <1>1 DEF PolicyTyped
<1>8. Newest(S) = [i \in 1..m |-> CHOOSE b \in S : Cardinality({x \in S : x > b}) = i - 1]
  BY <1>7 DEF Newest, n
<1>9. Newest(S) \in [1..m -> S]
  BY <1>6, <1>7, <1>8
<1> QED
  BY <1>7, <1>9

EdgesTyped == edges \subseteq BlockId \X Kinds \X BlockId

LEMMA KindPlace ==
  ASSUME NEW k \in Kinds
  PROVE  /\ (CHOOSE i \in DOMAIN KindOrder : KindOrder[i] = k) \in Nat
         /\ KindOrder[CHOOSE i \in DOMAIN KindOrder : KindOrder[i] = k] = k
<1>1. DOMAIN KindOrder \subseteq Nat
  BY KindAssumption
<1> QED
  BY <1>1, KindAssumption

(* Every edge that leaves b is read, and no other. *)
LEMMA EdgesFromAll ==
  ASSUME EdgesTyped, NEW b \in BlockId
  PROVE  /\ EdgesFrom(b) \in Seq({e \in edges : e[1] = b})
         /\ {e \in edges : e[1] = b} = SetOf(EdgesFrom(b))
<1> DEFINE out == {e \in edges : e[1] = b}
           n == Cardinality(out)
           Less == {ss \in out \X out : Before(ss[1], ss[2])}
           rank(k) == CHOOSE i \in DOMAIN KindOrder : KindOrder[i] = k
<1>1. IsFiniteSet(out) /\ n \in Nat
  <2>1. IsFiniteSet(Kinds)
    <3> DEFINE f == [i \in {j \in DOMAIN KindOrder : KindOrder[j] \in Kinds} |-> KindOrder[i]]
               places == {j \in DOMAIN KindOrder : KindOrder[j] \in Kinds}
    <3>1. DOMAIN KindOrder = 1..Len(KindOrder) /\ Len(KindOrder) \in Nat
      BY KindAssumption
    <3>2. IsFiniteSet(1..Len(KindOrder))
      BY <3>1, FS_Interval
    <3>3. IsFiniteSet(places)
      BY <3>1, <3>2, FS_Subset
    <3>4. f \in Surjection(places, Kinds)
      BY KindAssumption DEF Surjection
    <3> QED
      BY <3>3, <3>4, FS_Surjection
  <2>2. IsFiniteSet(Kinds \X BlockId)
    BY <2>1, BlockAssumption, FS_Product
  <2> DEFINE f == [e \in out |-> <<e[2], e[3]>>]
  <2>3. \A e \in out : e = <<b, e[2], e[3]>> /\ e[2] \in Kinds /\ e[3] \in BlockId
    BY DEF EdgesTyped
  <2>4. f \in Injection(out, Kinds \X BlockId)
    BY <2>3 DEF Injection, IsInjective
  <2> HIDE DEF f, out
  <2>5. IsFiniteSet(out)
    BY <2>2, <2>4, FS_Injection
  <2> QED
    BY <2>5, FS_CardinalityType
<1>2. \A e \in out : e[1] = b /\ e = <<b, e[2], e[3]>> /\ e[2] \in Kinds /\ e[3] \in Nat
  <2>1. \A e \in out : e[1] = b /\ e = <<b, e[2], e[3]>> /\ e[2] \in Kinds /\ e[3] \in BlockId
    BY DEF EdgesTyped
  <2> HIDE DEF out
  <2> QED
    BY <2>1, BlockAssumption
<1>3. \A e, f \in out : <<e, f>> \in Less <=> Before(e, f)
  OBVIOUS
<1>4. \A e, f \in out : Before(e, f) <=> (rank(e[2]) < rank(f[2]) \/ (e[2] = f[2] /\ e[3] < f[3]))
  BY DEF Before
<1>5. \A e \in out : rank(e[2]) \in Nat /\ KindOrder[rank(e[2])] = e[2]
  BY <1>2, KindPlace
<1> HIDE DEF out, Less, rank
<1>6. Orders(Less, out)
  <2>1. \A e \in out : <<e, e>> \notin Less
    BY <1>2, <1>3, <1>4, <1>5
  <2>2. \A e, f, g \in out : <<e, f>> \in Less /\ <<f, g>> \in Less => <<e, g>> \in Less
    BY <1>2, <1>3, <1>4, <1>5
  <2>3. \A e, f \in out : e = f \/ <<e, f>> \in Less \/ <<f, e>> \in Less
    <3> SUFFICES ASSUME NEW e \in out, NEW f \in out, ~Before(e, f), ~Before(f, e)
                 PROVE  e = f
      BY <1>3
    <3>1. ~(rank(e[2]) < rank(f[2])) /\ ~(rank(f[2]) < rank(e[2]))
      BY <1>4
    <3>2. rank(e[2]) = rank(f[2])
      BY <1>5, <3>1
    <3>3. e[2] = f[2]
      BY <1>5, <3>2
    <3>4. ~(e[3] < f[3]) /\ ~(f[3] < e[3])
      BY <1>4, <3>3
    <3>5. e[3] = f[3]
      BY <1>2, <3>4
    <3> QED
      BY <1>2, <3>3, <3>5
  <2> QED
    BY <2>1, <2>2, <2>3 DEF Orders
<1>7. \A e \in out : Below(Less, out, e) = {f \in out : Before(f, e)}
  BY <1>3 DEF Below
<1>8. /\ \A e \in out : Cardinality(Below(Less, out, e)) \in 0..(n - 1)
      /\ \A e, f \in out :
           Cardinality(Below(Less, out, e)) = Cardinality(Below(Less, out, f)) => e = f
      /\ \A i \in 0..(n - 1) : \E e \in out : Cardinality(Below(Less, out, e)) = i
  BY <1>1, <1>6, Ranks
<1> HIDE DEF n
<1>9. EdgesFrom(b) =
        [i \in 1..n |-> CHOOSE e \in out : Cardinality({f \in out : Before(f, e)}) = i - 1]
  BY DEF EdgesFrom, out, n
<1>10. ASSUME NEW i \in 1..n
       PROVE  EdgesFrom(b)[i] \in out
                /\ Cardinality(Below(Less, out, EdgesFrom(b)[i])) = i - 1
  <2>1. i - 1 \in 0..(n - 1)
    BY <1>1
  <2>2. \E e \in out : Cardinality({f \in out : Before(f, e)}) = i - 1
    BY <1>7, <1>8, <2>1
  <2> QED
    BY <1>7, <1>9, <2>2
<1>11. EdgesFrom(b) \in [1..n -> out]
  BY <1>9, <1>10
<1>12. ASSUME NEW e \in out PROVE e \in SetOf(EdgesFrom(b))
  <2> DEFINE i == Cardinality(Below(Less, out, e)) + 1
  <2>1. i \in 1..n /\ i - 1 = Cardinality(Below(Less, out, e))
    BY <1>1, <1>8
  <2> HIDE DEF i
  <2>2. EdgesFrom(b)[i] = e
    BY <1>8, <1>10, <2>1
  <2> QED
    BY <1>11, <2>1, <2>2 DEF SetOf
<1>13. SetOf(EdgesFrom(b)) \subseteq out
  BY <1>11 DEF SetOf
<1>14. EdgesFrom(b) \in Seq(out)
  BY <1>1, <1>11
<1> QED
  BY <1>12, <1>13, <1>14 DEF out

-----------------------------------------------------------------------------
(* The inductive invariant.                                                *)

Edge == BlockId \X Kinds \X BlockId
NoteRecord == [id : BlockId, winner : BlockId]
DropRecord == [id : BlockId, reason : DropReasons]

Typed(p) ==
  /\ p.pc \in Phases
  /\ p.total \in Nat /\ p.estimated \in Nat /\ p.variable \in Nat /\ p.used \in Nat
  /\ p.pos \in Nat /\ p.depth \in Nat
  /\ p.selected \in Seq(Selection) /\ p.rebuilt \in Seq(Selection)
  /\ p.todo \in Seq(BlockId) /\ p.deps \in Seq(BlockId)
  /\ p.frontier \in Seq(BlockId \X Nat) /\ p.adjacent \in Seq(Edge)
  /\ p.listed \subseteq BlockId /\ p.loaded \subseteq BlockId /\ p.cands \subseteq BlockId
  /\ p.visited \subseteq BlockId /\ p.compressed \subseteq BlockId
  /\ p.summary_for \subseteq BlockId \X BlockId
  /\ p.drops \subseteq DropRecord /\ p.notes \subseteq NoteRecord

AllPinned(seq) == \A i \in DOMAIN seq : seq[i].reason = "Pinned"

(* The running total covers what is selected, and the task once it is      *)
(* charged; whatever is taken after that was tried against the budget.     *)
Spent(p) ==
  SumTokens(p.selected) + (IF p.pc \in {"required", "failed"} THEN 0 ELSE request.task) <= p.total
Capped(p) == AllPinned(p.selected) \/ (p.pc # "failed" /\ p.total <= request.budget)

RankedIn(p, S) ==
  {i \in DOMAIN p.selected :
     p.selected[i].reason = "HighRelevance" /\ Block[p.selected[i].id].section \in S}
RankedTokens(p, S) == TokensAt(p.selected, RankedIn(p, S))
Share(p, s) == (p.variable * Fraction(s)) \div (IF FractionSum > 100 THEN FractionSum ELSE 100)

(* What the fill has ranked into the variable sections comes out of the    *)
(* variable budget.  Without summaries a section is charged only in its    *)
(* turn, so one that still has candidates and is not under way has spent   *)
(* nothing.                                                                *)
VariableSpent(p) ==
  /\ p.pc \in {"required", "load", "system"} => RankedIn(p, VariableSections) = {}
  /\ p.pc = "fill" =>
       RankedTokens(p, VariableSections) + request.budget <= p.total + p.variable
  /\ p.pc \in {"fill", "expand"} => RankedTokens(p, VariableSections) <= p.variable
SectionsSpent(p) ==
  ~policy.summary_fallback =>
    /\ p.summary_for = {}
    /\ p.pc \in {"fill", "expand"} =>
         \A s \in VariableSections : RankedTokens(p, {s}) <= Share(p, s)
    /\ p.pc = "fill" =>
         \A s \in VariableSections :
           /\ s = p.section => RankedTokens(p, {s}) <= p.used
           /\ s # p.section /\ (\E b \in p.cands : Block[b].section = s) => RankedTokens(p, {s}) = 0

(* While the plan is rebuilt the estimate covers what is kept so far and   *)
(* what is still to come.                                                  *)
ToCome(p) == TokensAt(p.selected, (p.pos + 1)..Len(p.selected))
Estimates(p) ==
  /\ p.pc \notin {"rebuild", "done"} => p.estimated = SumTokens(p.selected)
  /\ p.pc = "rebuild" =>
       /\ p.estimated >= SumTokens(p.rebuilt) + ToCome(p)
       /\ Calm => p.estimated = SumTokens(p.rebuilt) + ToCome(p)
       /\ SumTokens(p.rebuilt) + ToCome(p) <= SumTokens(p.selected)
  /\ p.pc = "done" =>
       /\ p.estimated >= SumTokens(p.selected)
       /\ Calm => p.estimated = SumTokens(p.selected)
StillStored(p) ==
  Calm /\ p.pc # "done" => Ids(p.selected) \subseteq stored /\ p.cands \subseteq stored

Costed(p) ==
  /\ Typed(p) /\ Spent(p) /\ Capped(p)
  /\ VariableSpent(p) /\ SectionsSpent(p) /\ Estimates(p) /\ StillStored(p)

StoredTyped == stored \subseteq BlockId
World == StoredTyped /\ EdgesTyped /\ RequestKnown

LEMMA RequestTyped ==
  ASSUME RequestKnown
  PROVE  /\ request.budget \in Nat /\ request.task \in Nat
         /\ request.required \in Seq(BlockId) /\ request.retrieved \subseteq BlockId
         /\ request.volatile \subseteq BlockId /\ request.late \subseteq Edge
         /\ PolicyTyped /\ policy.summary_fallback \in BOOLEAN
         /\ \A s : Fraction(s) \in Nat
BY RequestAssumption DEF RequestKnown, PolicyTyped, policy, Fraction, Edge

LEMMA ShareNat ==
  ASSUME RequestKnown, NEW p, p.variable \in Nat, NEW s
  PROVE  Share(p, s) \in Nat
<1> DEFINE n == p.variable * Fraction(s)
           d == IF FractionSum > 100 THEN FractionSum ELSE 100
<1>1. n \in Nat
  BY RequestTyped
<1>2. FractionSum \in Nat
  BY RequestTyped DEF FractionSum
<1>3. d \in Nat /\ d > 0
  BY <1>2
<1> HIDE DEF n, d
<1>4. n \div d \in Nat
  BY <1>1, <1>3
<1> QED
  BY <1>4 DEF Share, n, d

LEMMA SelectionMade ==
  ASSUME NEW b \in BlockId, NEW why \in Reasons
  PROVE  /\ [id |-> b, reason |-> why, note |-> None] \in Selection
         /\ [id |-> b, reason |-> why, note |-> None].id = b
         /\ [id |-> b, reason |-> why, note |-> None].reason = why
BY DEF Selection

(* What one more selection adds to the plan and to the sections.           *)
RankedMore(p, q, S, b, why) ==
  /\ RankedTokens(p, S) \in Nat /\ RankedTokens(q, S) \in Nat
  /\ RankedTokens(q, S) <= RankedTokens(p, S) + Tokens(b)
  /\ why = "HighRelevance" /\ Block[b].section \in S =>
       RankedTokens(q, S) = RankedTokens(p, S) + Tokens(b)
  /\ ~(why = "HighRelevance" /\ Block[b].section \in S) =>
       RankedTokens(q, S) = RankedTokens(p, S) /\ RankedIn(q, S) = RankedIn(p, S)

Added(p, q, x) ==
  /\ q.selected \in Seq(Selection) /\ Tokens(x.id) \in Nat
  /\ SumTokens(p.selected) \in Nat
  /\ SumTokens(q.selected) = SumTokens(p.selected) + Tokens(x.id)
  /\ \A S : RankedMore(p, q, S, x.id, x.reason)
  /\ Ids(q.selected) = Ids(p.selected) \union {x.id}
  /\ AllPinned(q.selected) <=> AllPinned(p.selected) /\ x.reason = "Pinned"

LEMMA IncludeTokens ==
  ASSUME NEW p, NEW q, p.selected \in Seq(Selection),
         NEW x \in Selection, q.selected = Append(p.selected, x)
  PROVE  Added(p, q, x)
<1> DEFINE seq == p.selected
           n == Len(seq)
           new == Append(seq, x)
           b == x.id
           why == x.reason
<1>1. x \in Selection /\ x.id = b /\ x.reason = why /\ b \in BlockId
  BY DEF Selection
<1>2. seq \in Seq(Selection) /\ q.selected = new
  OBVIOUS
<1> HIDE DEF seq, b, why
<1>3. /\ new \in Seq(Selection)
      /\ n \in Nat /\ DOMAIN seq = 1..n /\ DOMAIN new = 1..(n + 1)
      /\ DOMAIN new = DOMAIN seq \union {n + 1} /\ n + 1 \notin DOMAIN seq
      /\ \A i \in DOMAIN seq : new[i] = seq[i]
      /\ new[n + 1] = x
  BY <1>1, <1>2, AppendSelection
<1>4. \A P : TokensAt(new, P) = TokensAt(seq, P) + (IF n + 1 \in P THEN Tokens(b) ELSE 0)
  BY <1>1, <1>2, TokensAppend
<1> HIDE DEF n, new
<1>5. Tokens(b) \in Nat
  BY <1>1, BlockAssumption DEF Tokens
<1>6. SumTokens(new) = SumTokens(seq) + Tokens(b)
  <2>1. TokensAt(seq, DOMAIN new) = TokensAt(seq, DOMAIN seq)
    <3>1. DOMAIN new \intersect DOMAIN seq = DOMAIN seq \intersect DOMAIN seq
      BY <1>3
    <3> QED
      BY <1>2, <3>1, TokensSame
  <2>2. n + 1 \in DOMAIN new
    BY <1>3
  <2>3. TokensAt(new, DOMAIN new) = TokensAt(seq, DOMAIN new) + Tokens(b)
    BY <1>4, <2>2
  <2> QED
    BY <2>1, <2>3 DEF SumTokens
<1>7. ASSUME NEW S
      PROVE  RankedMore(p, q, S, b, why)
  <2> DEFINE P == RankedIn(p, S)
             Q == RankedIn(q, S)
  <2>1. \A i \in DOMAIN seq : i \in Q <=> i \in P
    BY <1>2, <1>3 DEF RankedIn, seq
  <2>2. n + 1 \in Q <=> why = "HighRelevance" /\ Block[b].section \in S
    BY <1>1, <1>2, <1>3 DEF RankedIn
  <2>3. P \subseteq DOMAIN seq /\ Q \subseteq DOMAIN new
    BY <1>2 DEF RankedIn, seq
  <2> HIDE DEF P, Q
  <2>4. P \intersect DOMAIN seq = Q \intersect DOMAIN seq
    BY <2>1
  <2>5. TokensAt(seq, P) = TokensAt(seq, Q) /\ TokensAt(seq, P) \in Nat
    BY <1>2, <2>4, TokensSame, TokensNat
  <2>6. TokensAt(new, Q) = TokensAt(seq, Q) + (IF n + 1 \in Q THEN Tokens(b) ELSE 0)
    BY <1>4
  <2>7. n + 1 \notin Q => Q = P
    BY <1>3, <2>1, <2>3
  <2>8. RankedTokens(p, S) = TokensAt(seq, P) /\ RankedTokens(q, S) = TokensAt(new, Q)
    BY <1>2 DEF RankedTokens, seq, P, Q
  <2>9. n + 1 \notin Q => RankedIn(q, S) = RankedIn(p, S)
    BY <2>7 DEF P, Q
  <2> QED
    BY <1>5, <2>2, <2>5, <2>6, <2>8, <2>9 DEF RankedMore
<1>8. Ids(new) = Ids(seq) \union {b}
  <2>1. \A i \in DOMAIN new : new[i].id \in Ids(seq) \union {b}
    BY <1>1, <1>3 DEF Ids
  <2>2. \A i \in DOMAIN seq : seq[i].id \in Ids(new)
    BY <1>3 DEF Ids
  <2>3. b \in Ids(new)
    BY <1>1, <1>3 DEF Ids
  <2> QED
    BY <2>1, <2>2, <2>3 DEF Ids
<1>9. AllPinned(new) <=> AllPinned(seq) /\ why = "Pinned"
  BY <1>1, <1>3 DEF AllPinned
<1>10. SumTokens(seq) \in Nat
  BY <1>2, TokensNat DEF SumTokens
<1> QED
  BY <1>2, <1>3, <1>5, <1>6, <1>7, <1>8, <1>9, <1>10 DEF seq, b, why, Added

(* A selection that fits, of a candidate in its turn, a required block or  *)
(* a dependency.                                                           *)
LEMMA IncludeCosted ==
  ASSUME RequestKnown, Costed(page), page.pc \in {"required", "system", "fill", "expand"},
         NEW p, Typed(p), NEW b \in BlockId, NEW why \in Reasons, Fits(b),
         p.selected = Append(page.selected, [id |-> b, reason |-> why, note |-> None]),
         p.total = page.total + Tokens(b), p.estimated = page.estimated + Tokens(b),
         p.pc = page.pc, p.variable = page.variable, p.section = page.section,
         p.summary_for = page.summary_for, p.cands \subseteq page.cands,
         Calm => b \in stored,
         why = "HighRelevance" =>
           \/ p.pc = "system" /\ Block[b].section = "system"
           \/ /\ p.pc = "fill" /\ p.used = page.used + Tokens(b)
              /\ p.used <= Share(page, page.section)
              /\ ~policy.summary_fallback => Block[b].section = page.section,
         why # "HighRelevance" => p.used = page.used
  PROVE  Costed(p)
<1>1. /\ page.selected \in Seq(Selection) /\ p.selected \in Seq(Selection) /\ Tokens(b) \in Nat
      /\ page.total \in Nat /\ page.variable \in Nat /\ page.used \in Nat /\ p.used \in Nat
      /\ page.estimated \in Nat /\ request.budget \in Nat /\ request.task \in Nat
      /\ p.total \in Nat
  BY RequestTyped, BlockAssumption DEF Costed, Typed, Tokens
<1>2. p.total <= request.budget
  BY DEF Fits
<1>3. /\ SumTokens(page.selected) \in Nat
      /\ SumTokens(p.selected) = SumTokens(page.selected) + Tokens(b)
      /\ \A S : RankedMore(page, p, S, b, why)
      /\ Ids(p.selected) = Ids(page.selected) \union {b}
  <2> DEFINE x == [id |-> b, reason |-> why, note |-> None]
  <2>1. x \in Selection /\ x.id = b /\ x.reason = why /\ p.selected = Append(page.selected, x)
    BY SelectionMade
  <2> HIDE DEF x
  <2>2. Added(page, p, x)
    BY <1>1, <2>1, IncludeTokens
  <2> QED
    BY <2>1, <2>2 DEF Added
<1>4. Spent(p)
  <2> DEFINE a == SumTokens(page.selected)
             x == IF page.pc \in {"required", "failed"} THEN 0 ELSE request.task
             d == Tokens(b)
  <2>1. a + x <= page.total /\ x \in Nat /\ a \in Nat /\ d \in Nat /\ page.total \in Nat
    BY <1>1, <1>3 DEF Costed, Spent
  <2>2. Spent(p) <=> SumTokens(p.selected) + x <= p.total
    BY DEF Spent
  <2>3. SumTokens(p.selected) = a + d /\ p.total = page.total + d
    BY <1>3
  <2> HIDE DEF a, x, d
  <2> QED
    BY <2>1, <2>2, <2>3
<1>5. Capped(p)
  BY <1>2 DEF Capped
<1>6. "system" \notin VariableSections
  BY DEF VariableSections
<1>7. VariableSpent(p)
  <2>1. p.pc \in {"required", "load", "system"} => RankedIn(p, VariableSections) = {}
    BY <1>3, <1>6 DEF Costed, VariableSpent, RankedMore
  <2>2. p.pc = "fill" =>
          RankedTokens(p, VariableSections) + request.budget <= p.total + p.variable
    <3>1. RankedTokens(p, VariableSections) <= RankedTokens(page, VariableSections) + Tokens(b)
      BY <1>1, <1>3 DEF RankedMore
    <3>2. RankedTokens(p, VariableSections) \in Nat
      BY <1>1, <1>3 DEF RankedMore
    <3> QED
      <4>1. CASE p.pc = "fill"
        <5>1. RankedTokens(page, VariableSections) + request.budget <= page.total + page.variable
          BY <4>1 DEF Costed, VariableSpent
        <5>2. RankedTokens(page, VariableSections) \in Nat
          BY <1>3 DEF RankedMore
        <5> DEFINE x == RankedTokens(p, VariableSections)
                   y == RankedTokens(page, VariableSections)
                   d == Tokens(b)  u == page.total  v == page.variable  w == request.budget
        <5>3. /\ x <= y + d /\ y + w <= u + v
              /\ x \in Nat /\ y \in Nat /\ d \in Nat /\ u \in Nat /\ v \in Nat /\ w \in Nat
          BY <1>1, <3>1, <3>2, <5>1, <5>2
        <5>4. p.total + p.variable = (u + d) + v
          OBVIOUS
        <5> HIDE DEF x, y, d, u, v, w
        <5>5. x + w <= (u + d) + v
          BY <5>3
        <5> QED
          BY <5>4, <5>5 DEF x, w
      <4> QED
        BY <4>1
  <2>3. p.pc \in {"fill", "expand"} => RankedTokens(p, VariableSections) <= p.variable
    <3>1. RankedTokens(p, VariableSections) \in Nat
      BY <1>1, <1>3 DEF RankedMore
    <3>2. CASE p.pc = "fill"
      BY <1>1, <1>2, <2>2, <3>1, <3>2
    <3>3. CASE p.pc = "expand"
      <4>1. why # "HighRelevance"
        BY <3>3
      <4> QED
        BY <1>1, <1>3, <3>3, <4>1 DEF Costed, VariableSpent, RankedMore
    <3> QED
      BY <3>2, <3>3
  <2> QED
    BY <2>1, <2>2, <2>3 DEF VariableSpent
<1>8. SectionsSpent(p)
  <2> SUFFICES ASSUME ~policy.summary_fallback PROVE
        /\ p.summary_for = {}
        /\ p.pc \in {"fill", "expand"} =>
             \A s \in VariableSections : RankedTokens(p, {s}) <= Share(p, s)
        /\ p.pc = "fill" =>
             \A s \in VariableSections :
               /\ s = p.section => RankedTokens(p, {s}) <= p.used
               /\ s # p.section /\ (\E c \in p.cands : Block[c].section = s)
                    => RankedTokens(p, {s}) = 0
    BY DEF SectionsSpent
  <2>1. p.summary_for = {}
    BY DEF Costed, SectionsSpent
  <2>2. \A s : Share(p, s) = Share(page, s) /\ Share(page, s) \in Nat
    BY <1>1, ShareNat DEF Share
  <2>3. ASSUME p.pc \in {"fill", "expand"}, NEW s \in VariableSections
        PROVE  RankedTokens(p, {s}) <= Share(p, s)
    <3>1. RankedTokens(page, {s}) <= Share(page, s) /\ RankedTokens(page, {s}) \in Nat
      BY <1>3, <2>3 DEF Costed, SectionsSpent, RankedMore
    <3>2. CASE why = "HighRelevance" /\ Block[b].section = s
      <4>1. p.pc = "fill" /\ s = page.section /\ p.used = page.used + Tokens(b)
            /\ p.used <= Share(page, s)
        BY <1>6, <3>2
      <4>2. RankedTokens(page, {s}) <= page.used
        BY <4>1 DEF Costed, SectionsSpent
      <4>3. RankedTokens(p, {s}) = RankedTokens(page, {s}) + Tokens(b)
        BY <1>3, <3>2 DEF RankedMore
      <4> QED
        BY <1>1, <2>2, <3>1, <4>1, <4>2, <4>3
    <3>3. CASE ~(why = "HighRelevance" /\ Block[b].section = s)
      <4>1. RankedTokens(p, {s}) = RankedTokens(page, {s})
        BY <1>3, <3>3 DEF RankedMore
      <4> QED
        BY <2>2, <3>1, <4>1
    <3> QED
      BY <3>2, <3>3
  <2>4. ASSUME p.pc = "fill", NEW s \in VariableSections, s = p.section
        PROVE  RankedTokens(p, {s}) <= p.used
    <3>1. RankedTokens(page, {s}) <= page.used /\ RankedTokens(page, {s}) \in Nat
      BY <1>3, <2>4 DEF Costed, SectionsSpent, RankedMore
    <3>2. CASE why = "HighRelevance"
      <4>1. p.used = page.used + Tokens(b)
        BY <2>4, <3>2
      <4>2. RankedTokens(p, {s}) <= RankedTokens(page, {s}) + Tokens(b)
        BY <1>1, <1>3 DEF RankedMore
      <4>3. RankedTokens(p, {s}) \in Nat
        BY <1>1, <1>3 DEF RankedMore
      <4> QED
        BY <1>1, <3>1, <4>1, <4>2, <4>3
    <3>3. CASE why # "HighRelevance"
      <4>1. RankedTokens(p, {s}) = RankedTokens(page, {s})
        BY <1>3, <3>3 DEF RankedMore
      <4> QED
        BY <1>1, <3>1, <3>3, <4>1
    <3> QED
      BY <3>2, <3>3
  <2>5. ASSUME p.pc = "fill", NEW s \in VariableSections, s # p.section,
               \E c \in p.cands : Block[c].section = s
        PROVE  RankedTokens(p, {s}) = 0
    <3>1. RankedTokens(page, {s}) = 0
      BY <2>5 DEF Costed, SectionsSpent
    <3>2. ~(why = "HighRelevance" /\ Block[b].section = s)
      BY <2>5
    <3>3. RankedTokens(p, {s}) = RankedTokens(page, {s})
      BY <1>3, <3>2 DEF RankedMore
    <3> QED
      BY <3>1, <3>3
  <2> QED
    BY <2>1, <2>3, <2>4, <2>5
<1>9. Estimates(p)
  BY <1>1, <1>3 DEF Costed, Estimates
<1>10. StillStored(p)
  BY <1>3 DEF Costed, StillStored
<1> QED
  BY <1>4, <1>5, <1>7, <1>8, <1>9, <1>10 DEF Costed

(* A step that selects nothing and leaves the counts as they are.          *)
LEMMA DecideCosted ==
  ASSUME Costed(page), page.pc \in {"load", "system", "fill", "expand", "reconcile"},
         NEW p, Typed(p), p.pc \in {"load", "system", "fill", "expand", "reconcile", "done"},
         p.selected = page.selected, p.total = page.total, p.estimated = page.estimated,
         p.variable = page.variable, p.summary_for = page.summary_for,
         p.pc \in {"load", "system"} => page.pc \in {"load", "system"},
         p.pc = "fill" =>
           page.pc = "fill" /\ p.section = page.section /\ p.used = page.used
             /\ p.cands \subseteq page.cands,
         p.pc = "expand" => page.pc \in {"fill", "expand"},
         Calm /\ p.pc # "done" => p.cands \subseteq stored
  PROVE  Costed(p)
<1>1. \A S : RankedIn(p, S) = RankedIn(page, S) /\ RankedTokens(p, S) = RankedTokens(page, S)
  BY DEF RankedIn, RankedTokens
<1>2. \A s : Share(p, s) = Share(page, s)
  BY DEF Share
<1>3. Spent(p) /\ Capped(p)
  BY DEF Costed, Spent, Capped
<1>4. VariableSpent(p)
  BY <1>1 DEF Costed, VariableSpent
<1>5. SectionsSpent(p)
  BY <1>1, <1>2 DEF Costed, SectionsSpent
<1>6. Estimates(p)
  <2>1. page.estimated = SumTokens(page.selected) /\ SumTokens(page.selected) \in Nat
    BY TokensNat DEF Costed, Typed, Estimates, SumTokens
  <2> QED
    BY <2>1 DEF Estimates
<1>7. StillStored(p)
  BY DEF Costed, StillStored
<1> QED
  BY <1>3, <1>4, <1>5, <1>6, <1>7 DEF Costed

LEMMA NothingSelected ==
  /\ <<>> \in Seq(Selection) /\ DOMAIN <<>> = {} /\ Ids(<<>>) = {}
  /\ \A P : TokensAt(<<>>, P) = 0
  /\ SumTokens(<<>>) = 0
<1>1. <<>> \in Seq(Selection) /\ DOMAIN <<>> = {}
  OBVIOUS
<1>2. ASSUME NEW P PROVE TokensAt(<<>>, P) = 0
  BY <1>1, TokensNone
<1> QED
  BY <1>1, <1>2 DEF SumTokens, Ids

LEMMA StartCosted ==
  ASSUME RequestKnown
  PROVE  Costed(Start) /\ Costed(Failed)
<1>1. ASSUME NEW p, Typed(p), p.pc \in {"required", "failed"},
             p.selected = <<>>, p.total = 0, p.estimated = 0, p.variable = 0,
             p.summary_for = {}, p.cands = {}
      PROVE  Costed(p)
  <2>1. \A S : RankedIn(p, S) = {}
    BY <1>1, NothingSelected DEF RankedIn
  <2>2. Spent(p) /\ Capped(p) /\ Estimates(p)
    BY <1>1, NothingSelected DEF Spent, Capped, Estimates, AllPinned
  <2>3. VariableSpent(p) /\ SectionsSpent(p)
    BY <1>1, <2>1 DEF VariableSpent, SectionsSpent
  <2>4. StillStored(p)
    BY <1>1, NothingSelected DEF StillStored
  <2> QED
    BY <1>1, <2>2, <2>3, <2>4 DEF Costed
<1>2. /\ Start.pc = "required"
      /\ Start.selected = <<>> /\ Start.rebuilt = <<>> /\ Start.total = 0 /\ Start.estimated = 0
      /\ Start.variable = 0 /\ Start.used = 0 /\ Start.pos = 0 /\ Start.depth = 0
      /\ Start.todo = request.required /\ Start.deps = <<>> /\ Start.frontier = <<>>
      /\ Start.adjacent = <<>> /\ Start.listed = {} /\ Start.loaded = {} /\ Start.cands = {}
      /\ Start.visited = {} /\ Start.compressed = {} /\ Start.summary_for = {}
      /\ Start.drops = {} /\ Start.notes = {}
  BY DEF Start
<1>3. /\ Failed.pc = "failed"
      /\ Failed.selected = <<>> /\ Failed.rebuilt = <<>> /\ Failed.total = 0 /\ Failed.estimated = 0
      /\ Failed.variable = 0 /\ Failed.used = 0 /\ Failed.pos = 0 /\ Failed.depth = 0
      /\ Failed.todo = request.required /\ Failed.deps = <<>> /\ Failed.frontier = <<>>
      /\ Failed.adjacent = <<>> /\ Failed.listed = {} /\ Failed.loaded = {} /\ Failed.cands = {}
      /\ Failed.visited = {} /\ Failed.compressed = {} /\ Failed.summary_for = {}
      /\ Failed.drops = {} /\ Failed.notes = {}
  BY DEF Failed, Start
<1>4. Typed(Start)
  BY <1>2, RequestTyped DEF Typed, Phases
<1>5. Typed(Failed)
  BY <1>3, RequestTyped DEF Typed, Phases
<1> HIDE DEF Start, Failed
<1> QED
  BY <1>1, <1>2, <1>3, <1>4, <1>5

(* A selection keeps the types.                                            *)
LEMMA IncludeTyped ==
  ASSUME Typed(page), NEW p, NEW b \in BlockId, NEW why \in Reasons,
         p.selected = Append(page.selected, [id |-> b, reason |-> why, note |-> None]),
         p.total = page.total + Tokens(b), p.estimated = page.estimated + Tokens(b),
         p.pc = page.pc, p.variable = page.variable, p.pos = page.pos, p.depth = page.depth,
         p.rebuilt = page.rebuilt, p.adjacent = page.adjacent, p.listed = page.listed,
         p.loaded = page.loaded, p.summary_for = page.summary_for, p.drops = page.drops,
         p.notes = page.notes, p.cands \subseteq page.cands,
         p.used \in Nat, p.todo \in Seq(BlockId), p.deps \in Seq(BlockId),
         p.frontier \in Seq(BlockId \X Nat),
         p.visited \subseteq BlockId, p.compressed \subseteq BlockId
  PROVE  Typed(p)
<1>1. Tokens(b) \in Nat
  BY BlockAssumption DEF Tokens
<1>2. p.total \in Nat /\ p.estimated \in Nat
  <2>1. page.total \in Nat /\ page.estimated \in Nat
    BY DEF Typed
  <2> QED
    BY <1>1, <2>1
<1>3. p.selected \in Seq(Selection)
  <2> DEFINE x == [id |-> b, reason |-> why, note |-> None]
  <2>1. x \in Selection /\ page.selected \in Seq(Selection) /\ p.selected = Append(page.selected, x)
    BY SelectionMade DEF Typed
  <2> HIDE DEF x
  <2> QED
    BY <2>1, AppendSelection
<1>4. /\ p.pc \in Phases /\ p.variable \in Nat /\ p.pos \in Nat /\ p.depth \in Nat
      /\ p.rebuilt \in Seq(Selection) /\ p.adjacent \in Seq(Edge)
      /\ p.listed \subseteq BlockId /\ p.loaded \subseteq BlockId /\ p.cands \subseteq BlockId
      /\ p.summary_for \subseteq BlockId \X BlockId
      /\ p.drops \subseteq DropRecord /\ p.notes \subseteq NoteRecord
  BY DEF Typed
<1> QED
  BY <1>2, <1>3, <1>4 DEF Typed

Known == World /\ Sound(page) /\ Costed(page) /\ Locals \subseteq DOMAIN page

LEMMA ResolveRequiredCosted ==
  ASSUME Known, ResolveRequired
  PROVE  Costed(page')
<1> DEFINE b == Head(page.todo)
           p == [Include(page, b, "Pinned") EXCEPT !.todo = Tail(@)]
<1>1. page.pc = "required" /\ page.todo # <<>> /\ RequestKnown
  BY DEF ResolveRequired, Known, World
<1>2. CASE page' = Failed
  BY <1>1, <1>2, StartCosted
<1>3. CASE page' = p /\ b \in stored /\ Fits(b)
  <2>1. b \in BlockId /\ Tail(page.todo) \in Seq(BlockId)
    BY <1>1 DEF Known, Costed, Typed
  <2>2. /\ p.selected = Append(page.selected, [id |-> b, reason |-> "Pinned", note |-> None])
        /\ p.total = page.total + Tokens(b) /\ p.estimated = page.estimated + Tokens(b)
        /\ p.pc = page.pc /\ p.variable = page.variable /\ p.section = page.section
        /\ p.summary_for = page.summary_for /\ p.cands = page.cands /\ p.used = page.used
        /\ p.pos = page.pos /\ p.depth = page.depth /\ p.rebuilt = page.rebuilt
        /\ p.todo = Tail(page.todo) /\ p.deps = page.deps /\ p.frontier = page.frontier
        /\ p.adjacent = page.adjacent /\ p.listed = page.listed /\ p.loaded = page.loaded
        /\ p.visited = page.visited /\ p.compressed = page.compressed
        /\ p.drops = page.drops /\ p.notes = page.notes
    BY DEF Known, Locals, Include
  <2> HIDE DEF p, b
  <2>3. "Pinned" \in Reasons /\ Tokens(b) \in Nat
    BY <2>1, BlockAssumption DEF Reasons, Tokens
  <2>4. /\ Typed(page) /\ page.used \in Nat /\ page.deps \in Seq(BlockId)
        /\ page.frontier \in Seq(BlockId \X Nat)
        /\ page.visited \subseteq BlockId /\ page.compressed \subseteq BlockId
    BY DEF Known, Costed, Typed
  <2>5. Typed(p)
    BY <2>1, <2>2, <2>3, <2>4, IncludeTyped
  <2>6. Costed(p)
    BY <1>1, <1>3, <2>1, <2>2, <2>3, <2>5, IncludeCosted DEF Known
  <2> QED
    BY <1>3, <2>6
<1> QED
  BY <1>2, <1>3 DEF ResolveRequired, Step

LEMMA RetrieveCosted ==
  ASSUME Known, Retrieve
  PROVE  Costed(page')
<1> DEFINE p == [page EXCEPT !.pc = "load", !.total = @ + request.task,
                             !.listed = request.retrieved \ SetOf(request.required)]
<1>1. page.pc = "required" /\ RequestKnown /\ page' = p
  BY DEF Retrieve, Known, World, Step
<1>2. /\ p.pc = "load" /\ p.total = page.total + request.task
      /\ p.listed = request.retrieved \ SetOf(request.required)
      /\ p.estimated = page.estimated /\ p.variable = page.variable /\ p.used = page.used
      /\ p.pos = page.pos /\ p.depth = page.depth /\ p.selected = page.selected
      /\ p.rebuilt = page.rebuilt /\ p.todo = page.todo /\ p.deps = page.deps
      /\ p.frontier = page.frontier /\ p.adjacent = page.adjacent /\ p.loaded = page.loaded
      /\ p.cands = page.cands /\ p.visited = page.visited /\ p.compressed = page.compressed
      /\ p.summary_for = page.summary_for /\ p.drops = page.drops /\ p.notes = page.notes
      /\ p.section = page.section
  BY DEF Known, Locals
<1> HIDE DEF p
<1>3. request.task \in Nat /\ request.retrieved \subseteq BlockId
  BY <1>1, RequestTyped
<1>4. page.total \in Nat /\ SumTokens(page.selected) \in Nat /\ SumTokens(page.selected) <= page.total
  BY <1>1, TokensNat DEF Known, Costed, Typed, Spent, SumTokens
<1>5. Typed(p)
  <2>1. p.total \in Nat /\ p.pc \in Phases /\ p.listed \subseteq BlockId
    BY <1>2, <1>3, <1>4 DEF Phases
  <2> QED
    BY <1>2, <2>1 DEF Known, Costed, Typed
<1>6. Spent(p)
  BY <1>2, <1>3, <1>4 DEF Spent
<1>7. AllPinned(page.selected) /\ page.cands = {}
  BY <1>1 DEF Known, Sound, Undecided, AllPinned
<1>8. RankedIn(p, VariableSections) = {}
  BY <1>2, <1>7 DEF RankedIn, AllPinned
<1>9. Capped(p) /\ VariableSpent(p) /\ SectionsSpent(p)
  BY <1>1, <1>2, <1>7, <1>8 DEF Known, Costed, Capped, VariableSpent, SectionsSpent
<1>10. Estimates(p) /\ StillStored(p)
  BY <1>1, <1>2, <1>7 DEF Known, Costed, Estimates, StillStored
<1> QED
  BY <1>1, <1>5, <1>6, <1>9, <1>10 DEF Costed

LEMMA LoadCandidateCosted ==
  ASSUME Known, LoadCandidate
  PROVE  Costed(page')
<1>1. PICK b \in page.listed :
        /\ page.pc = "load"
        /\ page' = [page EXCEPT !.listed = @ \ {b},
                                !.loaded = @ \union ({b} \intersect stored),
                                !.cands = @ \union ({b} \intersect stored)]
  BY DEF LoadCandidate, Step
<1> DEFINE p == [page EXCEPT !.listed = @ \ {b},
                             !.loaded = @ \union ({b} \intersect stored),
                             !.cands = @ \union ({b} \intersect stored)]
<1>2. /\ p.listed = page.listed \ {b} /\ p.loaded = page.loaded \union ({b} \intersect stored)
      /\ p.cands = page.cands \union ({b} \intersect stored)
      /\ p.pc = page.pc /\ p.total = page.total /\ p.estimated = page.estimated
      /\ p.variable = page.variable /\ p.used = page.used /\ p.pos = page.pos
      /\ p.depth = page.depth /\ p.selected = page.selected /\ p.rebuilt = page.rebuilt
      /\ p.todo = page.todo /\ p.deps = page.deps /\ p.frontier = page.frontier
      /\ p.adjacent = page.adjacent /\ p.visited = page.visited
      /\ p.compressed = page.compressed /\ p.summary_for = page.summary_for
      /\ p.drops = page.drops /\ p.notes = page.notes /\ p.section = page.section
  BY DEF Known, Locals
<1> HIDE DEF p
<1>3. Typed(p)
  <2>1. p.listed \subseteq BlockId /\ p.loaded \subseteq BlockId /\ p.cands \subseteq BlockId
    BY <1>2 DEF Known, World, StoredTyped, Costed, Typed
  <2> QED
    BY <1>2, <2>1 DEF Known, Costed, Typed
<1>4. Calm /\ p.pc # "done" => p.cands \subseteq stored
  BY <1>1, <1>2 DEF Known, Costed, StillStored
<1>5. Costed(p)
  BY <1>1, <1>2, <1>3, <1>4, DecideCosted DEF Known
<1> QED
  BY <1>1, <1>5 DEF p

LEMMA StartSystemCosted ==
  ASSUME Known, StartSystem
  PROVE  Costed(page')
<1> DEFINE p == [page EXCEPT !.pc = "system"]
<1>1. page.pc = "load" /\ page' = p
  BY DEF StartSystem, Step
<1>2. /\ p.pc = "system"
      /\ p.total = page.total /\ p.estimated = page.estimated /\ p.variable = page.variable
      /\ p.used = page.used /\ p.pos = page.pos /\ p.depth = page.depth
      /\ p.selected = page.selected /\ p.rebuilt = page.rebuilt /\ p.todo = page.todo
      /\ p.deps = page.deps /\ p.frontier = page.frontier /\ p.adjacent = page.adjacent
      /\ p.listed = page.listed /\ p.loaded = page.loaded /\ p.cands = page.cands
      /\ p.visited = page.visited /\ p.compressed = page.compressed
      /\ p.summary_for = page.summary_for /\ p.drops = page.drops /\ p.notes = page.notes
      /\ p.section = page.section
  BY DEF Known, Locals
<1> HIDE DEF p
<1>3. Typed(p)
  BY <1>2 DEF Known, Costed, Typed, Phases
<1>4. Calm /\ p.pc # "done" => p.cands \subseteq stored
  BY <1>1, <1>2 DEF Known, Costed, StillStored
<1>5. Costed(p)
  BY <1>1, <1>2, <1>3, <1>4, DecideCosted DEF Known
<1> QED
  BY <1>1, <1>5

(* A candidate that is left out, whatever is said of it.                   *)
LEMMA OmitCosted ==
  ASSUME Known, page.pc \in {"system", "fill"}, NEW b, NEW why,
         page' = Omit(Decided(b), b, why)
  PROVE  Costed(page')
<1> DEFINE p == Omit(Decided(b), b, why)
<1>2. /\ p.cands = page.cands \ {b}
      /\ p.pc = page.pc /\ p.total = page.total /\ p.estimated = page.estimated
      /\ p.variable = page.variable /\ p.used = page.used /\ p.pos = page.pos
      /\ p.depth = page.depth /\ p.selected = page.selected /\ p.rebuilt = page.rebuilt
      /\ p.todo = page.todo /\ p.deps = page.deps /\ p.frontier = page.frontier
      /\ p.adjacent = page.adjacent /\ p.listed = page.listed /\ p.loaded = page.loaded
      /\ p.visited = page.visited /\ p.compressed = page.compressed
      /\ p.summary_for = page.summary_for /\ p.drops = page.drops /\ p.notes = page.notes
      /\ p.section = page.section
  BY DEF Known, Locals, Omit, Decided
<1> HIDE DEF p
<1>3. Typed(p)
  BY <1>2 DEF Known, Costed, Typed
<1>4. Calm /\ p.pc # "done" => p.cands \subseteq stored
  BY <1>2 DEF Known, Costed, StillStored
<1>5. Costed(p)
  BY <1>2, <1>3, <1>4, DecideCosted DEF Known
<1> QED
  BY <1>5 DEF p

LEMMA FillSystemCosted ==
  ASSUME Known, FillSystem
  PROVE  Costed(page')
<1>1. PICK b \in CandidatesOf("system") :
        /\ page.pc = "system"
        /\ page' = IF Fits(b) THEN Include(Decided(b), b, "HighRelevance")
                             ELSE Omit(Decided(b), b, "Budget")
  BY DEF FillSystem, Step
<1>2. CASE ~Fits(b)
  BY <1>1, <1>2, OmitCosted
<1>3. CASE Fits(b)
  <2> DEFINE p == Include(Decided(b), b, "HighRelevance")
  <2>1. b \in page.cands /\ b \in BlockId /\ Block[b].section = "system"
        /\ "HighRelevance" \in Reasons
    BY DEF CandidatesOf, Known, Costed, Typed, Reasons
  <2>2. /\ p.selected = Append(page.selected, [id |-> b, reason |-> "HighRelevance", note |-> None])
        /\ p.total = page.total + Tokens(b) /\ p.estimated = page.estimated + Tokens(b)
        /\ p.cands = page.cands \ {b}
        /\ p.pc = page.pc /\ p.variable = page.variable /\ p.used = page.used
        /\ p.pos = page.pos /\ p.depth = page.depth /\ p.rebuilt = page.rebuilt
        /\ p.todo = page.todo /\ p.deps = page.deps /\ p.frontier = page.frontier
        /\ p.adjacent = page.adjacent /\ p.listed = page.listed /\ p.loaded = page.loaded
        /\ p.visited = page.visited /\ p.compressed = page.compressed
        /\ p.summary_for = page.summary_for /\ p.drops = page.drops /\ p.notes = page.notes
        /\ p.section = page.section
    BY DEF Known, Locals, Include, Decided
  <2> HIDE DEF p
  <2>3. Typed(page) /\ page.used \in Nat /\ page.todo \in Seq(BlockId) /\ page.deps \in Seq(BlockId)
        /\ page.frontier \in Seq(BlockId \X Nat)
        /\ page.visited \subseteq BlockId /\ page.compressed \subseteq BlockId
    BY DEF Known, Costed, Typed
  <2>4. Typed(p)
    BY <2>1, <2>2, <2>3, IncludeTyped
  <2>5. Calm => b \in stored
    BY <1>1, <2>1 DEF Known, Costed, StillStored
  <2>6. Costed(p)
    BY <1>1, <1>3, <2>1, <2>2, <2>4, <2>5, IncludeCosted DEF Known, World
  <2> QED
    BY <1>1, <1>3, <2>6 DEF p
<1> QED
  BY <1>2, <1>3

LEMMA AllocateCosted ==
  ASSUME Known, Allocate
  PROVE  Costed(page')
<1> DEFINE index == IF policy.summary_fallback THEN SummaryIndex ELSE {}
           p == [page EXCEPT !.pc = "fill", !.variable = Monus(request.budget, page.total),
                             !.summary_for = index]
<1>1. page.pc = "system" /\ CandidatesOf("system") = {} /\ RequestKnown /\ page' = p
  BY DEF Allocate, Known, World, Step
<1>2. /\ p.pc = "fill" /\ p.variable = Monus(request.budget, page.total)
      /\ p.summary_for = index
      /\ p.total = page.total /\ p.estimated = page.estimated /\ p.used = page.used
      /\ p.pos = page.pos /\ p.depth = page.depth /\ p.selected = page.selected
      /\ p.rebuilt = page.rebuilt /\ p.todo = page.todo /\ p.deps = page.deps
      /\ p.frontier = page.frontier /\ p.adjacent = page.adjacent /\ p.listed = page.listed
      /\ p.loaded = page.loaded /\ p.cands = page.cands /\ p.visited = page.visited
      /\ p.compressed = page.compressed /\ p.drops = page.drops /\ p.notes = page.notes
      /\ p.section = page.section
  BY DEF Known, Locals
<1>3. index \subseteq BlockId \X BlockId /\ (~policy.summary_fallback => index = {})
  BY DEF SummaryIndex, Known, World, StoredTyped
<1> HIDE DEF p, index
<1>4. page.total \in Nat /\ request.budget \in Nat
  BY <1>1, RequestTyped DEF Known, Costed, Typed
<1>5. /\ p.variable \in Nat /\ request.budget <= page.total + p.variable
  BY <1>2, <1>4 DEF Monus
<1>6. Typed(p)
  <2>1. p.pc \in Phases
    BY <1>2 DEF Phases
  <2> QED
    BY <1>2, <1>3, <1>5, <2>1 DEF Known, Costed, Typed
<1>7. Spent(p) /\ Capped(p)
  BY <1>1, <1>2 DEF Known, Costed, Spent, Capped
<1>8. RankedIn(page, VariableSections) = {}
  BY <1>1 DEF Known, Costed, VariableSpent
<1>9. \A S : S \subseteq VariableSections => RankedTokens(p, S) = 0
  <2>1. ASSUME NEW S, S \subseteq VariableSections PROVE RankedTokens(p, S) = 0
    <3>1. RankedIn(p, S) = {}
      BY <1>2, <1>8, <2>1 DEF RankedIn
    <3>2. p.selected \in Seq(Selection)
      BY <1>6 DEF Typed
    <3> QED
      BY <3>1, <3>2, TokensNone DEF RankedTokens
  <2> QED
    BY <2>1
<1>10. VariableSpent(p)
  <2>1. RankedTokens(p, VariableSections) = 0
    BY <1>9
  <2> QED
    BY <1>2, <1>4, <1>5, <2>1 DEF VariableSpent
<1>11. SectionsSpent(p)
  <2>1. \A s \in VariableSections : RankedTokens(p, {s}) = 0
    BY <1>9
  <2>2. \A s : Share(p, s) \in Nat
    BY <1>1, <1>5, ShareNat
  <2>3. p.used \in Nat
    BY <1>6 DEF Typed
  <2> QED
    BY <1>2, <1>3, <2>1, <2>2, <2>3 DEF SectionsSpent
<1>12. Estimates(p) /\ StillStored(p)
  BY <1>1, <1>2 DEF Known, Costed, Estimates, StillStored
<1> QED
  BY <1>1, <1>6, <1>7, <1>10, <1>11, <1>12 DEF Costed

LEMMA NextSectionCosted ==
  ASSUME Known, NextSection
  PROVE  Costed(page')
<1>1. PICK s \in {Block[b].section : b \in page.cands} :
        /\ page.pc = "fill" /\ CandidatesOf(page.section) = {}
        /\ page' = [page EXCEPT !.section = s, !.used = 0, !.words = {}]
  BY DEF NextSection, Step
<1> DEFINE p == [page EXCEPT !.section = s, !.used = 0, !.words = {}]
<1>2. /\ p.section = s /\ p.used = 0
      /\ p.pc = page.pc /\ p.total = page.total /\ p.estimated = page.estimated
      /\ p.variable = page.variable /\ p.pos = page.pos /\ p.depth = page.depth
      /\ p.selected = page.selected /\ p.rebuilt = page.rebuilt /\ p.todo = page.todo
      /\ p.deps = page.deps /\ p.frontier = page.frontier /\ p.adjacent = page.adjacent
      /\ p.listed = page.listed /\ p.loaded = page.loaded /\ p.cands = page.cands
      /\ p.visited = page.visited /\ p.compressed = page.compressed
      /\ p.summary_for = page.summary_for /\ p.drops = page.drops /\ p.notes = page.notes
  BY DEF Known, Locals
<1> HIDE DEF p
<1>3. Typed(p)
  <2>1. Typed(page)
    BY DEF Known, Costed
  <2>3. /\ p.pc \in Phases
        /\ p.total \in Nat /\ p.estimated \in Nat /\ p.variable \in Nat /\ p.used \in Nat
        /\ p.pos \in Nat /\ p.depth \in Nat
    BY <1>2, <2>1 DEF Typed, Phases
  <2>4. /\ p.selected \in Seq(Selection) /\ p.rebuilt \in Seq(Selection)
        /\ p.todo \in Seq(BlockId) /\ p.deps \in Seq(BlockId)
        /\ p.frontier \in Seq(BlockId \X Nat) /\ p.adjacent \in Seq(Edge)
    BY <1>2, <2>1 DEF Typed
  <2> QED
    BY <1>2, <2>1, <2>3, <2>4 DEF Typed
<1>4. \A S : RankedIn(p, S) = RankedIn(page, S) /\ RankedTokens(p, S) = RankedTokens(page, S)
  BY <1>2 DEF RankedIn, RankedTokens
<1>5. \A t : Share(p, t) = Share(page, t)
  BY <1>2 DEF Share
<1>6. Spent(p) /\ Capped(p) /\ VariableSpent(p)
  BY <1>2, <1>4 DEF Known, Costed, Spent, Capped, VariableSpent
<1>7. SectionsSpent(p)
  <2>1. s # page.section /\ \E b \in page.cands : Block[b].section = s
    BY <1>1 DEF CandidatesOf
  <2>2. ASSUME ~policy.summary_fallback, NEW t \in VariableSections,
               \/ t = s
               \/ t # s /\ \E b \in p.cands : Block[b].section = t
        PROVE  RankedTokens(p, {t}) = 0
    <3>1. t # page.section /\ \E b \in page.cands : Block[b].section = t
      BY <1>1, <1>2, <2>1, <2>2 DEF CandidatesOf
    <3> QED
      BY <1>1, <1>4, <2>2, <3>1 DEF Known, Costed, SectionsSpent
  <2> QED
    BY <1>2, <1>4, <1>5, <2>2 DEF Known, Costed, SectionsSpent
<1>8. Estimates(p) /\ StillStored(p)
  BY <1>1, <1>2 DEF Known, Costed, Estimates, StillStored
<1> QED
  BY <1>1, <1>3, <1>6, <1>7, <1>8 DEF Costed, p

(* A block that is ranked into the section under way: a candidate, or the  *)
(* summary that stands in for one.                                         *)
LEMMA TakeCosted ==
  ASSUME Known, page.pc = "fill", NEW b \in page.cands, NEW s \in BlockId, FitsSection(s),
         Calm => s \in stored,
         ~policy.summary_fallback => Block[s].section = page.section,
         NEW p,
         p.selected = Append(page.selected, [id |-> s, reason |-> "HighRelevance", note |-> None]),
         p.total = page.total + Tokens(s), p.estimated = page.estimated + Tokens(s),
         p.used = page.used + Tokens(s), p.cands = page.cands \ {b},
         page.compressed \subseteq p.compressed, p.compressed \subseteq page.compressed \union {s},
         p.pc = page.pc, p.variable = page.variable, p.pos = page.pos,
         p.depth = page.depth, p.rebuilt = page.rebuilt, p.todo = page.todo,
         p.deps = page.deps, p.frontier = page.frontier, p.adjacent = page.adjacent,
         p.listed = page.listed, p.loaded = page.loaded, p.visited = page.visited,
         p.summary_for = page.summary_for, p.drops = page.drops, p.notes = page.notes,
         p.section = page.section
  PROVE  Costed(p)
<1>1. "HighRelevance" \in Reasons /\ Tokens(s) \in Nat
  BY BlockAssumption DEF Reasons, Tokens
<1>2. /\ Typed(page) /\ page.used \in Nat /\ p.used \in Nat
      /\ page.todo \in Seq(BlockId) /\ page.deps \in Seq(BlockId)
      /\ page.frontier \in Seq(BlockId \X Nat)
      /\ page.visited \subseteq BlockId /\ p.compressed \subseteq BlockId
  <2>1. /\ Typed(page) /\ page.used \in Nat
        /\ page.todo \in Seq(BlockId) /\ page.deps \in Seq(BlockId)
        /\ page.frontier \in Seq(BlockId \X Nat)
        /\ page.visited \subseteq BlockId /\ page.compressed \subseteq BlockId
    BY DEF Known, Costed, Typed
  <2>2. p.used \in Nat
    BY <1>1, <2>1
  <2> QED
    BY <2>1, <2>2
<1>3. Typed(p)
  BY <1>1, <1>2, IncludeTyped
<1>4. Fits(s) /\ p.used <= Share(page, page.section)
  BY DEF FitsSection, Allocation, Share
<1> QED
  BY <1>1, <1>3, <1>4, IncludeCosted DEF Known, World

LEMMA FillStepCosted ==
  ASSUME Known, NEW b \in page.cands,
         SkipRedundant(b) \/ TakeCandidate(b) \/ OmitCandidate(b)
           \/ \E s \in BlockId : Substitute(b, s)
  PROVE  Costed(page')
<1>1. page.pc = "fill" /\ b \in BlockId /\ Block[b].section = page.section
      /\ (Calm => b \in stored)
  <2>1. Considered(b)
    BY DEF SkipRedundant, TakeCandidate, OmitCandidate, Substitute
  <2> QED
    BY <2>1 DEF Considered, IsBest, CandidatesOf, Known, Costed, Typed, StillStored
<1>2. CASE SkipRedundant(b)
  BY <1>1, <1>2, OmitCosted DEF SkipRedundant, Step
<1>3. CASE OmitCandidate(b)
  BY <1>1, <1>3, OmitCosted DEF OmitCandidate, Step
<1>4. CASE TakeCandidate(b)
  <2> DEFINE p == [Include(Decided(b), b, "HighRelevance")
                     EXCEPT !.used = @ + Tokens(b), !.words = @ \union {b}]
  <2>1. page' = p /\ FitsSection(b)
    BY <1>4 DEF TakeCandidate, Step
  <2>2. /\ p.selected = Append(page.selected, [id |-> b, reason |-> "HighRelevance", note |-> None])
        /\ p.total = page.total + Tokens(b) /\ p.estimated = page.estimated + Tokens(b)
        /\ p.used = page.used + Tokens(b) /\ p.cands = page.cands \ {b}
        /\ p.pc = page.pc /\ p.variable = page.variable /\ p.pos = page.pos
        /\ p.depth = page.depth /\ p.rebuilt = page.rebuilt /\ p.todo = page.todo
        /\ p.deps = page.deps /\ p.frontier = page.frontier /\ p.adjacent = page.adjacent
        /\ p.listed = page.listed /\ p.loaded = page.loaded /\ p.visited = page.visited
        /\ p.compressed = page.compressed /\ p.summary_for = page.summary_for
        /\ p.drops = page.drops /\ p.notes = page.notes /\ p.section = page.section
    BY DEF Known, Locals, Include, Decided
  <2> HIDE DEF p
  <2>3. Costed(p)
    BY <1>1, <2>1, <2>2, TakeCosted
  <2> QED
    BY <2>1, <2>3
<1>5. ASSUME NEW s \in BlockId, Substitute(b, s) PROVE Costed(page')
  <2> DEFINE p == [Omit(Include(Decided(b), s, "HighRelevance"), b, "Compressed")
                     EXCEPT !.used = @ + Tokens(s), !.compressed = @ \union {s}]
  <2>1. <<b, s>> \in page.summary_for
    BY <1>5 DEF Substitute
  <2>2. CASE page' = Omit(Decided(b), b, "Compressed") \/ page' = Omit(Decided(b), b, "Budget")
    BY <1>1, <2>2, OmitCosted
  <2>3. CASE page' = p /\ s \in stored /\ FitsSection(s)
    <3>1. /\ p.selected = Append(page.selected, [id |-> s, reason |-> "HighRelevance", note |-> None])
          /\ p.total = page.total + Tokens(s) /\ p.estimated = page.estimated + Tokens(s)
          /\ p.used = page.used + Tokens(s) /\ p.cands = page.cands \ {b}
          /\ p.compressed = page.compressed \union {s}
          /\ p.pc = page.pc /\ p.variable = page.variable /\ p.pos = page.pos
          /\ p.depth = page.depth /\ p.rebuilt = page.rebuilt /\ p.todo = page.todo
          /\ p.deps = page.deps /\ p.frontier = page.frontier /\ p.adjacent = page.adjacent
          /\ p.listed = page.listed /\ p.loaded = page.loaded /\ p.visited = page.visited
          /\ p.summary_for = page.summary_for /\ p.drops = page.drops /\ p.notes = page.notes
          /\ p.section = page.section
      BY DEF Known, Locals, Include, Omit, Decided
    <3> HIDE DEF p
    <3>2. policy.summary_fallback
      BY <2>1 DEF Known, Costed, SectionsSpent
    <3>3. Costed(p)
      BY <1>1, <2>3, <3>1, <3>2, TakeCosted
    <3> QED
      BY <2>3, <3>3
  <2> QED
    BY <1>5, <2>2, <2>3 DEF Substitute, Step
<1> QED
  BY <1>2, <1>3, <1>4, <1>5

LEMMA FinishFillCosted ==
  ASSUME Known, FinishFill
  PROVE  Costed(page')
<1> DEFINE f == [i \in DOMAIN page.selected |-> <<page.selected[i].id, 0>>]
           p == [page EXCEPT !.pc = "expand", !.visited = Included, !.frontier = f]
           q == [page EXCEPT !.pc = "done"]
<1>1. page.pc = "fill" /\ page.cands = {} /\ (page' = p \/ page' = q)
  BY DEF FinishFill, Step
<1>2. page.selected \in Seq(Selection)
  BY DEF Known, Costed, Typed
<1>3. Included \subseteq BlockId /\ f \in Seq(BlockId \X Nat)
  <2>1. \A i \in DOMAIN page.selected : page.selected[i].id \in BlockId
    BY <1>2, SelectedTyped
  <2>2. DOMAIN page.selected = 1..Len(page.selected) /\ Len(page.selected) \in Nat
    BY <1>2
  <2>3. f \in [1..Len(page.selected) -> BlockId \X Nat]
    BY <2>1, <2>2
  <2> HIDE DEF f
  <2>4. f \in Seq(BlockId \X Nat)
    BY <2>2, <2>3
  <2> QED
    BY <2>1, <2>4 DEF Included, SetOf
<1>4. /\ p.pc = "expand" /\ p.visited = Included /\ p.frontier = f
      /\ p.total = page.total /\ p.estimated = page.estimated /\ p.variable = page.variable
      /\ p.used = page.used /\ p.pos = page.pos /\ p.depth = page.depth
      /\ p.selected = page.selected /\ p.rebuilt = page.rebuilt /\ p.todo = page.todo
      /\ p.deps = page.deps /\ p.adjacent = page.adjacent /\ p.listed = page.listed
      /\ p.loaded = page.loaded /\ p.cands = page.cands /\ p.compressed = page.compressed
      /\ p.summary_for = page.summary_for /\ p.drops = page.drops /\ p.notes = page.notes
      /\ p.section = page.section
  BY DEF Known, Locals
<1>5. /\ q.pc = "done"
      /\ q.total = page.total /\ q.estimated = page.estimated /\ q.variable = page.variable
      /\ q.used = page.used /\ q.pos = page.pos /\ q.depth = page.depth
      /\ q.selected = page.selected /\ q.rebuilt = page.rebuilt /\ q.todo = page.todo
      /\ q.deps = page.deps /\ q.frontier = page.frontier /\ q.adjacent = page.adjacent
      /\ q.listed = page.listed /\ q.loaded = page.loaded /\ q.cands = page.cands
      /\ q.visited = page.visited /\ q.compressed = page.compressed
      /\ q.summary_for = page.summary_for /\ q.drops = page.drops /\ q.notes = page.notes
      /\ q.section = page.section
  BY DEF Known, Locals
<1> HIDE DEF p, q, f
<1>6. Typed(p)
  BY <1>3, <1>4 DEF Known, Costed, Typed, Phases
<1>7. Typed(q)
  BY <1>5 DEF Known, Costed, Typed, Phases
<1>8. Costed(p)
  BY <1>1, <1>4, <1>6, DecideCosted DEF Known
<1>9. Costed(q)
  BY <1>1, <1>5, <1>7, DecideCosted DEF Known
<1> QED
  BY <1>1, <1>8, <1>9

LEMMA PopFrontierCosted ==
  ASSUME Known, PopFrontier
  PROVE  Costed(page')
<1> DEFINE b == Head(page.frontier)[1]
           depth == Head(page.frontier)[2]
           deps(k) == Lineage(b) \o Outgoing(b, k[1]) \o Outgoing(b, k[2])
                        \o Outgoing(b, k[3]) \o Outgoing(b, k[4]) \o Children(b)
           popped == [page EXCEPT !.frontier = Tail(@)]
           p(k) == [popped EXCEPT !.depth = depth, !.deps = deps(k)]
<1>1. page.pc = "expand" /\ page.frontier # <<>> /\ page.frontier \in Seq(BlockId \X Nat)
  BY DEF PopFrontier, Known, Costed, Typed
<1>2. b \in BlockId /\ depth \in Nat /\ Tail(page.frontier) \in Seq(BlockId \X Nat)
  <2>1. Head(page.frontier) \in BlockId \X Nat /\ Tail(page.frontier) \in Seq(BlockId \X Nat)
    BY <1>1
  <2> QED
    BY <2>1
<1>3. page' = popped \/ \E k \in KindSequences : page' = p(k)
  BY DEF PopFrontier, Step
<1>4. /\ popped.frontier = Tail(page.frontier)
      /\ popped.pc = page.pc /\ popped.total = page.total /\ popped.estimated = page.estimated
      /\ popped.variable = page.variable /\ popped.used = page.used /\ popped.pos = page.pos
      /\ popped.depth = page.depth /\ popped.selected = page.selected /\ popped.rebuilt = page.rebuilt
      /\ popped.todo = page.todo /\ popped.deps = page.deps /\ popped.adjacent = page.adjacent
      /\ popped.listed = page.listed /\ popped.loaded = page.loaded /\ popped.cands = page.cands
      /\ popped.visited = page.visited /\ popped.compressed = page.compressed
      /\ popped.summary_for = page.summary_for /\ popped.drops = page.drops /\ popped.notes = page.notes
      /\ popped.section = page.section
  BY DEF Known, Locals
<1>5. CASE page' = popped
  <2> HIDE DEF popped
  <2>1. Typed(popped)
    BY <1>2, <1>4 DEF Known, Costed, Typed
  <2>2. Calm /\ popped.pc # "done" => popped.cands \subseteq stored
    BY <1>1, <1>4 DEF Known, Costed, StillStored
  <2>3. Costed(popped)
    BY <1>1, <1>4, <2>1, <2>2, DecideCosted DEF Known
  <2> QED
    BY <1>5, <2>3
<1>6. ASSUME NEW k \in KindSequences, page' = p(k) PROVE Costed(page')
  <2> DEFINE q == p(k)
             d == deps(k)
  <2>1. d \in Seq(BlockId)
    <3>1. \A S \in SUBSET BlockId : Newest(S) \in Seq(BlockId)
      <4> SUFFICES ASSUME NEW S \in SUBSET BlockId PROVE Newest(S) \in Seq(BlockId)
        OBVIOUS
      <4>1. Newest(S) \in Seq(S)
        BY NewestIsSeq, RequestTyped DEF Known, World
      <4> QED
        BY <4>1
    <3>2. \A n : Outgoing(b, n) \in Seq(BlockId)
      BY <3>1 DEF Outgoing
    <3>3. Children(b) \in Seq(BlockId)
      BY <3>1 DEF Children
    <3>4. Lineage(b) \in Seq(BlockId)
      <4> HIDE DEF b
      <4>1. Block[b].parents \in Seq(BlockId)
        BY <1>2, BlockAssumption
      <4>2. <<>> \in Seq(BlockId)
        OBVIOUS
      <4> QED
        BY <4>1, <4>2 DEF Lineage
    <3> HIDE DEF b
    <3> QED
      BY <3>2, <3>3, <3>4
  <2>2. /\ q.frontier = Tail(page.frontier) /\ q.depth = depth /\ q.deps = d
        /\ q.pc = page.pc /\ q.total = page.total /\ q.estimated = page.estimated
        /\ q.variable = page.variable /\ q.used = page.used /\ q.pos = page.pos
        /\ q.selected = page.selected /\ q.rebuilt = page.rebuilt /\ q.todo = page.todo
        /\ q.adjacent = page.adjacent /\ q.listed = page.listed /\ q.loaded = page.loaded
        /\ q.cands = page.cands /\ q.visited = page.visited /\ q.compressed = page.compressed
        /\ q.summary_for = page.summary_for /\ q.drops = page.drops /\ q.notes = page.notes
        /\ q.section = page.section
    BY DEF Known, Locals
  <2> HIDE DEF q, d, b, depth
  <2>3. Typed(q)
    BY <1>2, <2>1, <2>2 DEF Known, Costed, Typed
  <2>4. Calm /\ q.pc # "done" => q.cands \subseteq stored
    BY <1>1, <2>2 DEF Known, Costed, StillStored
  <2>5. Costed(q)
    BY <1>1, <2>2, <2>3, <2>4, DecideCosted DEF Known
  <2> QED
    BY <1>6, <2>5 DEF q
<1> QED
  BY <1>3, <1>5, <1>6

LEMMA PullDependencyCosted ==
  ASSUME Known, PullDependency
  PROVE  Costed(page')
<1> DEFINE b == Head(page.deps)
           tried == [page EXCEPT !.deps = Tail(@), !.visited = @ \union {b}]
           p == [Include(tried, b, "Dependency")
                   EXCEPT !.frontier = Append(@, <<b, page.depth + 1>>)]
<1>1. /\ page.pc = "expand" /\ page.deps # <<>> /\ page.deps \in Seq(BlockId)
      /\ page.depth \in Nat /\ page.frontier \in Seq(BlockId \X Nat)
      /\ page.visited \subseteq BlockId /\ page.used \in Nat
      /\ page.todo \in Seq(BlockId) /\ page.compressed \subseteq BlockId /\ Typed(page)
  BY DEF PullDependency, Known, Costed, Typed
<1>2. b \in BlockId /\ Tail(page.deps) \in Seq(BlockId)
  BY <1>1
<1>3. CASE page' = tried
  <2>1. /\ tried.deps = Tail(page.deps) /\ tried.visited = page.visited \union {b}
        /\ tried.pc = page.pc /\ tried.total = page.total /\ tried.estimated = page.estimated
        /\ tried.variable = page.variable /\ tried.used = page.used /\ tried.pos = page.pos
        /\ tried.depth = page.depth /\ tried.selected = page.selected /\ tried.rebuilt = page.rebuilt
        /\ tried.todo = page.todo /\ tried.frontier = page.frontier /\ tried.adjacent = page.adjacent
        /\ tried.listed = page.listed /\ tried.loaded = page.loaded /\ tried.cands = page.cands
        /\ tried.compressed = page.compressed /\ tried.summary_for = page.summary_for
        /\ tried.drops = page.drops /\ tried.notes = page.notes /\ tried.section = page.section
    BY DEF Known, Locals
  <2> HIDE DEF tried, b
  <2>2. Typed(tried)
    BY <1>1, <1>2, <2>1 DEF Typed
  <2>3. Calm /\ tried.pc # "done" => tried.cands \subseteq stored
    BY <1>1, <2>1 DEF Known, Costed, StillStored
  <2>4. Costed(tried)
    BY <1>1, <2>1, <2>2, <2>3, DecideCosted DEF Known
  <2> QED
    BY <1>3, <2>4
<1>4. CASE page' = p /\ b \in stored /\ Fits(b)
  <2>1. /\ p.selected = Append(page.selected, [id |-> b, reason |-> "Dependency", note |-> None])
        /\ p.total = page.total + Tokens(b) /\ p.estimated = page.estimated + Tokens(b)
        /\ p.deps = Tail(page.deps) /\ p.visited = page.visited \union {b}
        /\ p.frontier = Append(page.frontier, <<b, page.depth + 1>>)
        /\ p.pc = page.pc /\ p.variable = page.variable /\ p.used = page.used
        /\ p.pos = page.pos /\ p.depth = page.depth /\ p.rebuilt = page.rebuilt
        /\ p.todo = page.todo /\ p.adjacent = page.adjacent /\ p.listed = page.listed
        /\ p.loaded = page.loaded /\ p.cands = page.cands /\ p.compressed = page.compressed
        /\ p.summary_for = page.summary_for /\ p.drops = page.drops /\ p.notes = page.notes
        /\ p.section = page.section
    BY DEF Known, Locals, Include
  <2>2. "Dependency" \in Reasons /\ "Dependency" # "HighRelevance"
    BY DEF Reasons
  <2> HIDE DEF p, b
  <2>3. Append(page.frontier, <<b, page.depth + 1>>) \in Seq(BlockId \X Nat)
    <3>1. <<b, page.depth + 1>> \in BlockId \X Nat
      BY <1>1, <1>2
    <3> QED
      BY <1>1, <3>1
  <2>4. page.visited \union {b} \subseteq BlockId
    BY <1>1, <1>2
  <2>5. Typed(p)
    BY <1>1, <1>2, <2>1, <2>2, <2>3, <2>4, IncludeTyped
  <2>6. Costed(p)
    BY <1>1, <1>2, <1>4, <2>1, <2>2, <2>5, IncludeCosted DEF Known, World
  <2> QED
    BY <1>4, <2>6
<1> QED
  BY <1>3, <1>4 DEF PullDependency, Step

LEMMA FinishExpandCosted ==
  ASSUME Known, FinishExpand
  PROVE  Costed(page')
<1> DEFINE pc == IF Reconciles THEN "reconcile" ELSE "done"
           p == [page EXCEPT !.pc = pc]
<1>1. page.pc = "expand" /\ page' = p
  BY DEF FinishExpand, Step
<1>2. /\ p.pc = pc
      /\ p.total = page.total /\ p.estimated = page.estimated /\ p.variable = page.variable
      /\ p.used = page.used /\ p.pos = page.pos /\ p.depth = page.depth
      /\ p.selected = page.selected /\ p.rebuilt = page.rebuilt /\ p.todo = page.todo
      /\ p.deps = page.deps /\ p.frontier = page.frontier /\ p.adjacent = page.adjacent
      /\ p.listed = page.listed /\ p.loaded = page.loaded /\ p.cands = page.cands
      /\ p.visited = page.visited /\ p.compressed = page.compressed
      /\ p.summary_for = page.summary_for /\ p.drops = page.drops /\ p.notes = page.notes
      /\ p.section = page.section
  BY DEF Known, Locals
<1>3. pc \in {"reconcile", "done"} /\ pc \in Phases
  BY DEF Phases
<1> HIDE DEF p, pc
<1>4. Typed(p)
  BY <1>2, <1>3 DEF Known, Costed, Typed
<1>5. Calm /\ p.pc # "done" => p.cands \subseteq stored
  BY <1>1, <1>2 DEF Known, Costed, StillStored
<1>6. Costed(p)
  BY <1>1, <1>2, <1>3, <1>4, <1>5, DecideCosted DEF Known
<1> QED
  BY <1>1, <1>6

LEMMA ReadEdgesCosted ==
  ASSUME Known, ReadEdges
  PROVE  Costed(page')
<1> DEFINE found == EdgesFrom(page.selected[page.pos + 1].id)
           p == [page EXCEPT !.pos = @ + 1, !.adjacent = found]
<1>1. page.pc = "reconcile" /\ page.pos < Len(page.selected) /\ page' = p
  BY DEF ReadEdges, Step
<1>2. /\ p.pos = page.pos + 1 /\ p.adjacent = found
      /\ p.pc = page.pc /\ p.total = page.total /\ p.estimated = page.estimated
      /\ p.variable = page.variable /\ p.used = page.used /\ p.depth = page.depth
      /\ p.selected = page.selected /\ p.rebuilt = page.rebuilt /\ p.todo = page.todo
      /\ p.deps = page.deps /\ p.frontier = page.frontier /\ p.listed = page.listed
      /\ p.loaded = page.loaded /\ p.cands = page.cands /\ p.visited = page.visited
      /\ p.compressed = page.compressed /\ p.summary_for = page.summary_for
      /\ p.drops = page.drops /\ p.notes = page.notes /\ p.section = page.section
  BY DEF Known, Locals
<1> HIDE DEF p
<1>3. page.pos \in Nat /\ page.selected \in Seq(Selection)
  BY DEF Known, Costed, Typed
<1>4. found \in Seq(Edge)
  <2>1. page.pos + 1 \in DOMAIN page.selected
    BY <1>1, <1>3
  <2>2. page.selected[page.pos + 1].id \in BlockId
    BY <1>3, <2>1, SelectedTyped
  <2>3. found \in Seq({e \in edges : e[1] = page.selected[page.pos + 1].id})
    BY <2>2, EdgesFromAll DEF Known, World
  <2>4. {e \in edges : e[1] = page.selected[page.pos + 1].id} \subseteq Edge
    BY DEF Known, World, EdgesTyped, Edge
  <2> HIDE DEF found
  <2> QED
    BY <2>3, <2>4
<1> HIDE DEF found
<1>5. Typed(p)
  <2>1. p.pos \in Nat
    BY <1>2, <1>3
  <2> QED
    BY <1>2, <1>4, <2>1 DEF Known, Costed, Typed
<1>6. Calm /\ p.pc # "done" => p.cands \subseteq stored
  BY <1>1, <1>2 DEF Known, Costed, StillStored
<1>7. Costed(p)
  BY <1>1, <1>2, <1>5, <1>6, DecideCosted DEF Known
<1> QED
  BY <1>1, <1>7

LEMMA ResolveEdgeCosted ==
  ASSUME Known, ResolveEdge
  PROVE  Costed(page')
<1> DEFINE e == Head(page.adjacent)
           loser == Resolved(e[1], e[3])[1]
           winner == Resolved(e[1], e[3])[2]
           read == [page EXCEPT !.adjacent = Tail(@)]
<1>1. page.pc = "reconcile" /\ page.adjacent # <<>> /\ page.adjacent \in Seq(Edge)
      /\ page.drops \subseteq DropRecord /\ page.notes \subseteq NoteRecord
  BY DEF ResolveEdge, Known, Costed, Typed
<1>2. Tail(page.adjacent) \in Seq(Edge) /\ e[1] \in BlockId /\ e[3] \in BlockId
  <2>1. e \in Edge /\ Tail(page.adjacent) \in Seq(Edge)
    BY <1>1
  <2> QED
    BY <2>1 DEF Edge
<1>3. loser \in BlockId /\ winner \in BlockId
  <2> HIDE DEF e
  <2> QED
    BY <1>2 DEF Resolved
<1>4. \A S, r : Keep(S, r) \subseteq S \union {r}
  BY DEF Keep
<1>5. \E D \in SUBSET DropRecord, N \in SUBSET NoteRecord :
        page' = [read EXCEPT !.drops = D, !.notes = N]
  <2> DEFINE superseded == [id |-> e[3], reason |-> "SupersededByDerived"]
             contradicted == [id |-> loser, reason |-> "Contradicted"]
             note == [id |-> loser, winner |-> winner]
  <2>1. superseded \in DropRecord /\ contradicted \in DropRecord /\ note \in NoteRecord
    <3> HIDE DEF e, loser, winner
    <3> QED
      BY <1>2, <1>3 DEF DropRecord, DropReasons, NoteRecord
  <2>2. \/ page' = [read EXCEPT !.drops = Keep(@, superseded)]
        \/ page' = [read EXCEPT !.drops = Keep(@, contradicted)]
        \/ page' = [read EXCEPT !.notes = Keep(@, note)]
        \/ page' = read
    BY DEF ResolveEdge, Step
  <2>3. Locals \subseteq DOMAIN read /\ read.drops = page.drops /\ read.notes = page.notes
    BY DEF Known, Locals
  <2>4. \A D : [read EXCEPT !.drops = D] = [read EXCEPT !.drops = D, !.notes = page.notes]
    BY <2>3 DEF Locals
  <2>5. \A N : [read EXCEPT !.notes = N] = [read EXCEPT !.drops = page.drops, !.notes = N]
    BY <2>3 DEF Locals
  <2>6. read = [read EXCEPT !.drops = page.drops, !.notes = page.notes]
    BY <2>3 DEF Locals
  <2> HIDE DEF superseded, contradicted, note, read
  <2>7. /\ Keep(page.drops, superseded) \in SUBSET DropRecord
        /\ Keep(page.drops, contradicted) \in SUBSET DropRecord
        /\ Keep(page.notes, note) \in SUBSET NoteRecord
    BY <1>1, <1>4, <2>1
  <2>8. \/ page' = [read EXCEPT !.drops = Keep(page.drops, superseded), !.notes = page.notes]
        \/ page' = [read EXCEPT !.drops = Keep(page.drops, contradicted), !.notes = page.notes]
        \/ page' = [read EXCEPT !.drops = page.drops, !.notes = Keep(page.notes, note)]
        \/ page' = [read EXCEPT !.drops = page.drops, !.notes = page.notes]
    BY <2>2, <2>3, <2>4, <2>5, <2>6
  <2> QED
    BY <1>1, <2>7, <2>8
<1>6. PICK D \in SUBSET DropRecord, N \in SUBSET NoteRecord :
        page' = [read EXCEPT !.drops = D, !.notes = N]
  BY <1>5
<1> DEFINE p == [read EXCEPT !.drops = D, !.notes = N]
<1>7. /\ p.adjacent = Tail(page.adjacent) /\ p.drops = D /\ p.notes = N
      /\ p.pc = page.pc /\ p.total = page.total /\ p.estimated = page.estimated
      /\ p.variable = page.variable /\ p.used = page.used /\ p.pos = page.pos
      /\ p.depth = page.depth /\ p.selected = page.selected /\ p.rebuilt = page.rebuilt
      /\ p.todo = page.todo /\ p.deps = page.deps /\ p.frontier = page.frontier
      /\ p.listed = page.listed /\ p.loaded = page.loaded /\ p.cands = page.cands
      /\ p.visited = page.visited /\ p.compressed = page.compressed
      /\ p.summary_for = page.summary_for /\ p.section = page.section
  BY DEF Known, Locals
<1> HIDE DEF p, read, e, loser, winner
<1>8. Typed(p)
  BY <1>2, <1>7 DEF Known, Costed, Typed
<1>9. Calm /\ p.pc # "done" => p.cands \subseteq stored
  BY <1>1, <1>7 DEF Known, Costed, StillStored
<1>10. Costed(p)
  BY <1>1, <1>7, <1>8, <1>9, DecideCosted DEF Known
<1> QED
  BY <1>6, <1>10 DEF p

LEMMA FinishReconcileCosted ==
  ASSUME Known, FinishReconcile
  PROVE  Costed(page')
<1> DEFINE p == [page EXCEPT !.pc = "done"]
           q == [page EXCEPT !.pc = "rebuild", !.pos = 0]
<1>1. page.pc = "reconcile" /\ (page' = p \/ page' = q)
  BY DEF FinishReconcile, Step
<1>2. /\ p.pc = "done"
      /\ p.total = page.total /\ p.estimated = page.estimated /\ p.variable = page.variable
      /\ p.used = page.used /\ p.pos = page.pos /\ p.depth = page.depth
      /\ p.selected = page.selected /\ p.rebuilt = page.rebuilt /\ p.todo = page.todo
      /\ p.deps = page.deps /\ p.frontier = page.frontier /\ p.adjacent = page.adjacent
      /\ p.listed = page.listed /\ p.loaded = page.loaded /\ p.cands = page.cands
      /\ p.visited = page.visited /\ p.compressed = page.compressed
      /\ p.summary_for = page.summary_for /\ p.drops = page.drops /\ p.notes = page.notes
      /\ p.section = page.section
  BY DEF Known, Locals
<1>3. /\ q.pc = "rebuild" /\ q.pos = 0
      /\ q.total = page.total /\ q.estimated = page.estimated /\ q.variable = page.variable
      /\ q.used = page.used /\ q.depth = page.depth /\ q.selected = page.selected
      /\ q.rebuilt = page.rebuilt /\ q.todo = page.todo /\ q.deps = page.deps
      /\ q.frontier = page.frontier /\ q.adjacent = page.adjacent /\ q.listed = page.listed
      /\ q.loaded = page.loaded /\ q.cands = page.cands /\ q.visited = page.visited
      /\ q.compressed = page.compressed /\ q.summary_for = page.summary_for
      /\ q.drops = page.drops /\ q.notes = page.notes /\ q.section = page.section
  BY DEF Known, Locals
<1> HIDE DEF p, q
<1>4. Costed(p)
  <2>1. Typed(p)
    BY <1>2 DEF Known, Costed, Typed, Phases
  <2> QED
    BY <1>1, <1>2, <2>1, DecideCosted DEF Known
<1>5. Typed(q)
  <2>1. Typed(page)
    BY DEF Known, Costed
  <2>3. /\ q.pc \in Phases
        /\ q.total \in Nat /\ q.estimated \in Nat /\ q.variable \in Nat /\ q.used \in Nat
        /\ q.pos \in Nat /\ q.depth \in Nat
    BY <1>3, <2>1 DEF Typed, Phases
  <2>4. /\ q.selected \in Seq(Selection) /\ q.rebuilt \in Seq(Selection)
        /\ q.todo \in Seq(BlockId) /\ q.deps \in Seq(BlockId)
        /\ q.frontier \in Seq(BlockId \X Nat) /\ q.adjacent \in Seq(Edge)
    BY <1>3, <2>1 DEF Typed
  <2> QED
    BY <1>3, <2>1, <2>3, <2>4 DEF Typed
<1>6. page.rebuilt = <<>> /\ page.selected \in Seq(Selection)
  BY <1>1 DEF Known, Sound, WellFormed, Costed, Typed
<1>7. ToCome(q) = SumTokens(page.selected) /\ SumTokens(page.selected) \in Nat
  <2>1. (q.pos + 1)..Len(q.selected) = DOMAIN page.selected
    BY <1>3, <1>6
  <2> QED
    BY <1>3, <1>6, <2>1, TokensNat DEF ToCome, SumTokens
<1>8. Estimates(q)
  <2>1. SumTokens(q.rebuilt) = 0
    BY <1>3, <1>6, NothingSelected
  <2>2. q.estimated = SumTokens(page.selected) /\ q.selected = page.selected
    BY <1>1, <1>3 DEF Known, Costed, Estimates
  <2> QED
    BY <1>3, <1>7, <2>1, <2>2 DEF Estimates
<1>9. Spent(q) /\ Capped(q) /\ VariableSpent(q) /\ SectionsSpent(q) /\ StillStored(q)
  BY <1>1, <1>3 DEF Known, Costed, Spent, Capped, VariableSpent, SectionsSpent, StillStored
<1> QED
  BY <1>1, <1>4, <1>5, <1>8, <1>9 DEF Costed

(* What is still to come, one selection further.                           *)
LEMMA ToComeNext ==
  ASSUME NEW p, p.selected \in Seq(Selection), p.pos \in Nat, p.pos < Len(p.selected),
         NEW q, q.selected = p.selected, q.pos = p.pos + 1
  PROVE  /\ p.selected[p.pos + 1] \in Selection
         /\ Tokens(p.selected[p.pos + 1].id) \in Nat /\ ToCome(q) \in Nat
         /\ ToCome(p) = Tokens(p.selected[p.pos + 1].id) + ToCome(q)
<1> DEFINE i == p.pos + 1
           n == Len(p.selected)
<1>1. /\ i \in DOMAIN p.selected /\ n \in Nat
      /\ (p.pos + 1)..n = {i} \union ((q.pos + 1)..n)
      /\ {i} \intersect ((q.pos + 1)..n) = {}
  OBVIOUS
<1> HIDE DEF i, n
<1>2. TokensAt(p.selected, {i} \union ((q.pos + 1)..n)) =
        TokensAt(p.selected, {i}) + TokensAt(p.selected, (q.pos + 1)..n)
  BY <1>1, TokensSplit
<1>3. TokensAt(p.selected, {i}) = Tokens(p.selected[i].id) /\ Tokens(p.selected[i].id) \in Nat
  BY <1>1, TokensOne
<1>4. TokensAt(p.selected, (q.pos + 1)..n) \in Nat
  BY TokensNat
<1>5. ToCome(p) = TokensAt(p.selected, (p.pos + 1)..n) /\ ToCome(q) = TokensAt(p.selected, (q.pos + 1)..n)
  BY DEF ToCome, n
<1>6. p.selected[i] \in Selection
  BY <1>1
<1> QED
  BY <1>1, <1>2, <1>3, <1>4, <1>5, <1>6 DEF i

LEMMA RebuildCosted ==
  ASSUME Known, Rebuild
  PROVE  Costed(page')
<1> DEFINE sel == page.selected[page.pos + 1]
           reasons == {d \in page.drops : d.id = sel.id}
           noted == {n.winner : n \in {m \in page.notes : m.id = sel.id}}
           on == [page EXCEPT !.pos = @ + 1]
<1>1. /\ page.pc = "rebuild" /\ page.pos < Len(page.selected) /\ page.pos \in Nat
      /\ page.selected \in Seq(Selection) /\ page.rebuilt \in Seq(Selection)
      /\ page.estimated \in Nat /\ page.notes \subseteq NoteRecord
  BY DEF Rebuild, Known, Costed, Typed
<1>2. \/ \E d \in reasons :
           page' = [Omit(on, d.id, d.reason) EXCEPT
                      !.estimated = IF d.id \in stored THEN Monus(@, Tokens(d.id)) ELSE @]
      \/ page' = [on EXCEPT !.rebuilt = Append(@, sel)]
      \/ \E w \in noted : page' = [on EXCEPT !.rebuilt = Append(@, [sel EXCEPT !.note = w])]
  BY DEF Rebuild, Step
<1>3. /\ page.estimated >= SumTokens(page.rebuilt) + ToCome(page)
      /\ Calm => page.estimated = SumTokens(page.rebuilt) + ToCome(page)
      /\ SumTokens(page.rebuilt) + ToCome(page) <= SumTokens(page.selected)
      /\ Calm => Ids(page.selected) \subseteq stored
  BY <1>1 DEF Known, Costed, Estimates, StillStored
<1>4. SumTokens(page.rebuilt) \in Nat /\ SumTokens(page.selected) \in Nat
  BY <1>1, TokensNat DEF SumTokens
<1>5. sel \in Selection /\ sel.id \in Ids(page.selected) /\ Tokens(sel.id) \in Nat
  <2>1. page.pos + 1 \in DOMAIN page.selected
    BY <1>1
  <2>2. sel \in Selection /\ sel.id \in BlockId
    BY <1>1, <2>1, SelectedTyped
  <2> QED
    BY <2>1, <2>2, BlockAssumption DEF Ids, Tokens
<1> HIDE DEF sel
(* What both ways share. *)
<1>6. ASSUME NEW p, p.selected = page.selected, p.pos = page.pos + 1, p.total = page.total,
             p.pc = page.pc, p.variable = page.variable, p.summary_for = page.summary_for,
             p.cands = page.cands, Typed(p),
             p.estimated >= SumTokens(p.rebuilt) + ToCome(p),
             Calm => p.estimated = SumTokens(p.rebuilt) + ToCome(p),
             SumTokens(p.rebuilt) + ToCome(p) <= SumTokens(p.selected)
      PROVE  Costed(p)
  <2>1. Spent(p) /\ Capped(p) /\ VariableSpent(p) /\ SectionsSpent(p) /\ StillStored(p)
    BY <1>1, <1>6 DEF Known, Costed, Spent, Capped, VariableSpent, SectionsSpent, StillStored
  <2>2. Estimates(p)
    BY <1>1, <1>6 DEF Estimates
  <2> QED
    BY <1>6, <2>1, <2>2 DEF Costed
<1>7. ASSUME NEW d \in reasons,
             page' = [Omit(on, d.id, d.reason) EXCEPT
                        !.estimated = IF d.id \in stored THEN Monus(@, Tokens(d.id)) ELSE @]
      PROVE  Costed(page')
  <2> DEFINE p == [Omit(on, d.id, d.reason) EXCEPT
                     !.estimated = IF d.id \in stored THEN Monus(@, Tokens(d.id)) ELSE @]
  <2>1. /\ p.estimated = IF d.id \in stored THEN Monus(page.estimated, Tokens(d.id))
                         ELSE page.estimated
        /\ p.pos = page.pos + 1
        /\ p.pc = page.pc /\ p.total = page.total /\ p.variable = page.variable
        /\ p.used = page.used /\ p.depth = page.depth /\ p.selected = page.selected
        /\ p.rebuilt = page.rebuilt /\ p.todo = page.todo /\ p.deps = page.deps
        /\ p.frontier = page.frontier /\ p.adjacent = page.adjacent /\ p.listed = page.listed
        /\ p.loaded = page.loaded /\ p.cands = page.cands /\ p.visited = page.visited
        /\ p.compressed = page.compressed /\ p.summary_for = page.summary_for
        /\ p.drops = page.drops /\ p.notes = page.notes /\ p.section = page.section
    BY DEF Known, Locals, Omit
  <2>2. d.id = sel.id
    OBVIOUS
  <2> HIDE DEF p, reasons, on
  <2>3. ToCome(page) = Tokens(sel.id) + ToCome(p) /\ ToCome(p) \in Nat
    BY <1>1, <2>1, ToComeNext DEF sel
  <2>4. p.estimated \in Nat /\ p.estimated >= SumTokens(p.rebuilt) + ToCome(p)
        /\ p.rebuilt = page.rebuilt
    <3>1. CASE sel.id \in stored
      <4>1. p.estimated = Monus(page.estimated, Tokens(sel.id))
        BY <2>1, <2>2, <3>1
      <4> QED
        BY <1>1, <1>3, <1>4, <1>5, <2>1, <2>3, <4>1 DEF Monus
    <3>2. CASE sel.id \notin stored
      <4>1. p.estimated = page.estimated
        BY <2>1, <2>2, <3>2
      <4> QED
        BY <1>1, <1>3, <1>4, <1>5, <2>1, <2>3, <4>1
    <3> QED
      BY <3>1, <3>2
  <2>5. Calm => p.estimated = SumTokens(p.rebuilt) + ToCome(p)
    <3> SUFFICES ASSUME Calm PROVE p.estimated = SumTokens(p.rebuilt) + ToCome(p)
      OBVIOUS
    <3>1. p.estimated = Monus(page.estimated, Tokens(sel.id))
      BY <1>3, <1>5, <2>1, <2>2
    <3> QED
      BY <1>1, <1>3, <1>4, <1>5, <2>1, <2>3, <3>1 DEF Monus
  <2>6. SumTokens(p.rebuilt) + ToCome(p) <= SumTokens(p.selected)
    BY <1>3, <1>4, <1>5, <2>1, <2>3
  <2>7. Typed(p)
    <3>1. p.pos \in Nat
      BY <1>1, <2>1
    <3> QED
      BY <2>1, <2>4, <3>1 DEF Known, Costed, Typed
  <2>8. Costed(p)
    BY <1>6, <2>1, <2>4, <2>5, <2>6, <2>7
  <2> QED
    BY <1>7, <2>8 DEF p
<1>8. ASSUME NEW x \in Selection, x.id = sel.id, page' = [on EXCEPT !.rebuilt = Append(@, x)]
      PROVE  Costed(page')
  <2> DEFINE p == [on EXCEPT !.rebuilt = Append(@, x)]
  <2>1. /\ p.rebuilt = Append(page.rebuilt, x) /\ p.pos = page.pos + 1
        /\ p.pc = page.pc /\ p.total = page.total /\ p.estimated = page.estimated
        /\ p.variable = page.variable /\ p.used = page.used /\ p.depth = page.depth
        /\ p.selected = page.selected /\ p.todo = page.todo /\ p.deps = page.deps
        /\ p.frontier = page.frontier /\ p.adjacent = page.adjacent /\ p.listed = page.listed
        /\ p.loaded = page.loaded /\ p.cands = page.cands /\ p.visited = page.visited
        /\ p.compressed = page.compressed /\ p.summary_for = page.summary_for
        /\ p.drops = page.drops /\ p.notes = page.notes /\ p.section = page.section
    BY DEF Known, Locals
  <2> HIDE DEF p, reasons, on
  <2>2. ToCome(page) = Tokens(sel.id) + ToCome(p) /\ ToCome(p) \in Nat
    BY <1>1, <2>1, ToComeNext DEF sel
  <2>3. p.rebuilt \in Seq(Selection) /\ SumTokens(p.rebuilt) = SumTokens(page.rebuilt) + Tokens(sel.id)
    <3> DEFINE a == [page EXCEPT !.selected = page.rebuilt]
               b == [page EXCEPT !.selected = p.rebuilt]
    <3>1. a.selected = page.rebuilt /\ b.selected = p.rebuilt
      BY DEF Known, Locals
    <3> HIDE DEF a, b
    <3>2. Added(a, b, x)
      BY <1>1, <2>1, <3>1, IncludeTokens
    <3> QED
      BY <1>8, <3>1, <3>2 DEF Added
  <2>4. SumTokens(p.rebuilt) + ToCome(p) = SumTokens(page.rebuilt) + ToCome(page)
    BY <1>4, <1>5, <2>2, <2>3
  <2>5. Typed(p)
    <3>1. p.pos \in Nat
      BY <1>1, <2>1
    <3> QED
      BY <2>1, <2>3, <3>1 DEF Known, Costed, Typed
  <2>6. Costed(p)
    BY <1>3, <1>6, <2>1, <2>4, <2>5
  <2> QED
    BY <1>8, <2>6 DEF p
<1>9. ASSUME NEW w \in noted, page' = [on EXCEPT !.rebuilt = Append(@, [sel EXCEPT !.note = w])]
      PROVE  Costed(page')
  <2>1. w \in BlockId
    BY <1>1 DEF NoteRecord
  <2>2. [sel EXCEPT !.note = w] \in Selection /\ [sel EXCEPT !.note = w].id = sel.id
    BY <1>5, <2>1 DEF Selection
  <2> HIDE DEF on, noted, reasons
  <2> DEFINE x == [sel EXCEPT !.note = w]
  <2>3. x \in Selection /\ x.id = sel.id /\ page' = [on EXCEPT !.rebuilt = Append(@, x)]
    BY <1>9, <2>2
  <2> HIDE DEF x
  <2> QED
    BY <1>8, <2>3
<1> HIDE DEF on, noted, reasons
<1> QED
  BY <1>2, <1>5, <1>7, <1>8, <1>9

LEMMA FinishRebuildCosted ==
  ASSUME Known, FinishRebuild
  PROVE  Costed(page')
<1> DEFINE p == [page EXCEPT !.pc = "done", !.selected = page.rebuilt]
<1>1. page.pc = "rebuild" /\ page.pos = Len(page.selected) /\ page' = p
  BY DEF FinishRebuild, Step
<1>2. /\ p.pc = "done" /\ p.selected = page.rebuilt
      /\ p.total = page.total /\ p.estimated = page.estimated /\ p.variable = page.variable
      /\ p.used = page.used /\ p.pos = page.pos /\ p.depth = page.depth
      /\ p.rebuilt = page.rebuilt /\ p.todo = page.todo /\ p.deps = page.deps
      /\ p.frontier = page.frontier /\ p.adjacent = page.adjacent /\ p.listed = page.listed
      /\ p.loaded = page.loaded /\ p.cands = page.cands /\ p.visited = page.visited
      /\ p.compressed = page.compressed /\ p.summary_for = page.summary_for
      /\ p.drops = page.drops /\ p.notes = page.notes /\ p.section = page.section
  BY DEF Known, Locals
<1> HIDE DEF p
<1>3. /\ page.selected \in Seq(Selection) /\ page.rebuilt \in Seq(Selection) /\ page.total \in Nat
      /\ page.estimated \in Nat /\ request.task \in Nat
  BY RequestTyped DEF Known, World, Costed, Typed
<1>4. SumTokens(page.rebuilt) \in Nat /\ SumTokens(page.selected) \in Nat
  BY <1>3, TokensNat DEF SumTokens
<1>5. ToCome(page) = 0
  <2>1. ((page.pos + 1)..Len(page.selected)) \intersect DOMAIN page.selected = {}
    BY <1>1, <1>3
  <2> QED
    BY <1>3, <2>1, TokensNone DEF ToCome
<1>6. /\ page.estimated >= SumTokens(page.rebuilt)
      /\ Calm => page.estimated = SumTokens(page.rebuilt)
      /\ SumTokens(page.rebuilt) <= SumTokens(page.selected)
  BY <1>1, <1>3, <1>4, <1>5 DEF Known, Costed, Estimates
<1>7. AllPinned(page.selected) => AllPinned(page.rebuilt)
  <2> SUFFICES ASSUME AllPinned(page.selected), NEW k \in DOMAIN page.rebuilt
               PROVE  page.rebuilt[k].reason = "Pinned"
    BY DEF AllPinned
  <2>1. PICK i \in 1..page.pos : page.rebuilt[k].reason = page.selected[i].reason
    BY <1>1 DEF Known, Sound, Rebuilding
  <2>2. i \in DOMAIN page.selected
    BY <1>1, <1>3
  <2> QED
    BY <2>1, <2>2 DEF AllPinned
<1>8. Typed(p)
  BY <1>2 DEF Known, Costed, Typed, Phases
<1>9. Spent(p)
  BY <1>1, <1>2, <1>3, <1>4, <1>6 DEF Known, Costed, Spent
<1>10. Capped(p)
  BY <1>2, <1>7 DEF Known, Costed, Capped
<1>11. VariableSpent(p) /\ SectionsSpent(p) /\ Estimates(p) /\ StillStored(p)
  BY <1>1, <1>2, <1>6 DEF Known, Costed, VariableSpent, SectionsSpent, Estimates, StillStored
<1> QED
  BY <1>1, <1>8, <1>9, <1>10, <1>11 DEF Costed

-----------------------------------------------------------------------------

CostInv == PlanInv /\ World /\ Costed(page)

LEMMA CostInitInv == Init => CostInv
<1> SUFFICES ASSUME Init PROVE CostInv
  OBVIOUS
<1>1. PlanInv /\ RequestKnown
  BY PlanInitInv DEF PlanInv
<1>2. Costed(page)
  BY <1>1, StartCosted DEF Init
<1>3. StoredTyped /\ EdgesTyped
  BY StoreAssumption DEF Init, StoredTyped, EdgesTyped
<1> QED
  BY <1>1, <1>2, <1>3 DEF CostInv, World

LEMMA CostNextInv ==
  ASSUME CostInv, [Next]_vars
  PROVE  CostInv'
<1>1. PlanInv'
  BY PlanNextInv DEF CostInv
<1>2. Known /\ RequestKnown
  BY DEF CostInv, Known, World, PlanInv, Sound, WellFormed
<1>3. ASSUME UNCHANGED request, UNCHANGED stored \/ ~Calm, Costed(page') PROVE Costed(page)'
  <2>1. Typed(page)' /\ Spent(page)' /\ Capped(page)' /\ VariableSpent(page)'
    BY <1>3 DEF Costed, Spent, Capped, VariableSpent
  <2>2. SectionsSpent(page)'
    BY <1>3 DEF Costed, SectionsSpent, policy, Share, Fraction, FractionSum
  <2>3. Calm' <=> Calm
    BY <1>3 DEF Calm
  <2>4. Estimates(page)'
    <3>1. Estimates(page')
      BY <1>3 DEF Costed
    <3> QED
      BY <2>3, <3>1 DEF Estimates
  <2>5. StillStored(page)'
    <3>1. StillStored(page')
      BY <1>3 DEF Costed
    <3> QED
      BY <1>3, <2>3, <3>1 DEF StillStored
  <2> QED
    BY <2>1, <2>2, <2>4, <2>5 DEF Costed
<1>4. CASE PageStep
  <2>1. Costed(page')
    BY <1>2, <1>4, ResolveRequiredCosted, RetrieveCosted, LoadCandidateCosted, StartSystemCosted,
       FillSystemCosted, AllocateCosted, NextSectionCosted, FillStepCosted, FinishFillCosted,
       PopFrontierCosted, PullDependencyCosted, FinishExpandCosted, ReadEdgesCosted,
       ResolveEdgeCosted, FinishReconcileCosted, RebuildCosted, FinishRebuildCosted
    DEF PageStep
  <2>2. UNCHANGED <<stored, edges, request>>
    BY <1>4
    DEF PageStep, ResolveRequired, Retrieve, LoadCandidate, StartSystem, FillSystem, Allocate,
        NextSection, SkipRedundant, TakeCandidate, OmitCandidate, Substitute, FinishFill,
        PopFrontier, PullDependency, FinishExpand, ReadEdges, ResolveEdge, FinishReconcile,
        Rebuild, FinishRebuild, Step, world
  <2>3. World'
    BY <1>2, <2>2 DEF Known, World, StoredTyped, EdgesTyped, RequestKnown
  <2> QED
    BY <1>1, <1>3, <2>1, <2>2, <2>3 DEF CostInv
<1>5. CASE Fail
  <2>1. page' = Failed /\ UNCHANGED <<stored, edges, request>>
    BY <1>5 DEF Fail, Step, world
  <2> QED
    BY <1>1, <1>2, <1>3, <2>1, StartCosted DEF CostInv, Known, World, StoredTyped, EdgesTyped, RequestKnown
<1>6. CASE OtherPut \/ OtherDelete \/ OtherPutEdge
  <2>1. UNCHANGED <<request, page>> /\ ~Calm
    BY <1>6 DEF OtherPut, OtherDelete, OtherPutEdge, Calm
  <2>2. StoredTyped'
    BY <1>2, <1>6, RequestTyped DEF OtherPut, OtherDelete, OtherPutEdge, Known, World, StoredTyped
  <2>3. EdgesTyped'
    BY <1>2, <1>6, RequestTyped
    DEF OtherPut, OtherDelete, OtherPutEdge, Known, World, EdgesTyped, Edge
  <2>4. Costed(page)'
    BY <1>2, <1>3, <2>1 DEF Known
  <2> QED
    BY <1>1, <2>1, <2>2, <2>3, <2>4 DEF CostInv, World, PlanInv
<1>7. CASE UNCHANGED vars
  <2>1. UNCHANGED <<stored, edges, request, page>>
    BY <1>7 DEF vars, world
  <2>2. Costed(page')
    BY <1>2, <2>1 DEF Known
  <2> QED
    BY <1>1, <1>2, <1>3, <2>1, <2>2 DEF CostInv, Known, World, StoredTyped, EdgesTyped, RequestKnown
<1> QED
  BY <1>4, <1>5, <1>6, <1>7 DEF Next

(***************************************************************************)
(* Whatever the store, the request and the policy, and whatever others put *)
(* and delete during the call: Costed holds at every step.                 *)
(***************************************************************************)
THEOREM CostInvariant == Spec => []CostInv
BY CostInitInv, CostNextInv, PTL DEF Spec

(***************************************************************************)
(* No count of page wraps below zero; what is selected, with the task,     *)
(* stays within input_budget unless only required blocks are selected; and *)
(* what is ranked into the variable sections stays within the variable     *)
(* budget, without summaries each section within its own share.            *)
(***************************************************************************)
THEOREM BudgetsKeptAlways == Spec => []BudgetsKept
<1>1. CostInv => BudgetsKept
  <2> SUFFICES ASSUME CostInv PROVE BudgetsKept
    OBVIOUS
  <2>1. /\ Typed(page) /\ page.selected \in Seq(Selection) /\ page.total \in Nat
        /\ request.budget \in Nat /\ request.task \in Nat
    BY RequestTyped DEF CostInv, PlanInv, Costed, Typed
  <2>2. TypeOK
    <3>1. \A i \in DOMAIN page.selected :
            page.selected[i].id \in BlockId /\ page.selected[i].reason \in Reasons
              /\ page.selected[i].note \in BlockId \union {None}
      <4>1. \A i \in DOMAIN page.selected : page.selected[i] \in Selection
        BY <2>1
      <4> QED
        BY <4>1 DEF Selection
    <3>2. \A sel \in SetOf(page.selected) :
            sel.id \in BlockId /\ sel.reason \in Reasons /\ sel.note \in BlockId \union {None}
      BY <3>1 DEF SetOf
    <3> QED
      BY <2>1, <3>2 DEF CostInv, World, StoredTyped, EdgesTyped, Typed, TypeOK
  <2>3. BudgetKept
    <3>1. CASE page.pc \in {"required", "load"}
      BY <3>1 DEF CostInv, PlanInv, Sound, Undecided, BudgetKept, SetOf
    <3>2. CASE page.pc \notin {"required", "load"}
      <4>1. CASE AllPinned(page.selected)
        BY <4>1 DEF AllPinned, BudgetKept, SetOf
      <4>2. CASE ~AllPinned(page.selected)
        <5>1. SumTokens(page.selected) + request.task <= page.total /\ page.total <= request.budget
          BY <3>2, <4>2 DEF CostInv, Costed, Spent, Capped
        <5>2. SumTokens(page.selected) \in Nat
          BY <2>1, TokensNat DEF SumTokens
        <5> QED
          BY <2>1, <5>1, <5>2 DEF BudgetKept
      <4> QED
        BY <4>1, <4>2
    <3> QED
      BY <3>1, <3>2
  <2>4. SectionBudgetsKept
    <3>1. \A S : Filled(S) = RankedIn(page, S)
      BY DEF Filled, RankedIn
    <3>2. \A s : Allocation(s) = Share(page, s)
      BY DEF Allocation, Share
    <3> QED
      BY <3>1, <3>2
      DEF CostInv, Costed, VariableSpent, SectionsSpent, RankedTokens, SectionBudgetsKept
  <2> QED
    BY <2>2, <2>3, <2>4 DEF BudgetsKept
<1> QED
  BY <1>1, CostInvariant, PTL

(***************************************************************************)
(* estimated_tokens never counts less than the prompt it is returned with, *)
(* also when a dropped block is deleted before it is looked up again, and  *)
(* exactly that when nobody else writes.                                   *)
(***************************************************************************)
THEOREM EstimateKeptAlways == Spec => []EstimateKept
<1>1. CostInv => EstimateKept
  BY DEF CostInv, Costed, Estimates, EstimateKept, EstimateExact, EstimateNeverLow, Done
<1> QED
  BY <1>1, CostInvariant, PTL

=============================================================================
