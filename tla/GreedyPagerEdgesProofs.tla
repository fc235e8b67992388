----------------------- MODULE GreedyPagerEdgesProofs ------------------------
(***************************************************************************)
(* What a plan of GreedyPager makes of the edges, for every store, request *)
(* and policy, when nobody else writes during the call: which blocks       *)
(* expansion reaches and which it leaves out, and what reconciliation does *)
(* to blocks that should not stand together.                               *)
(***************************************************************************)
EXTENDS GreedyPagerProofs

-----------------------------------------------------------------------------
(* The inductive invariant: expansion.                                     *)

(* The blocks that expansion still has to look at. *)
Pending(p) == {p.frontier[i][1] : i \in DOMAIN p.frontier}

(* level says how many followed edges each selected block is away from the *)
(* blocks that made the cut.                                               *)
Levels(p, level) ==
  /\ \A b \in Ids(p.selected) : level[b] <= EffectiveDepth
  /\ \A i \in DOMAIN p.selected :
       LET b == p.selected[i].id IN
       IF p.selected[i].reason = "Dependency"
         THEN \E a \in Ids(p.selected) : b \in Followed(a) /\ level[b] = level[a] + 1
         ELSE level[b] = 0

(* Breadth first: the frontier is in the order of the levels and holds at  *)
(* most two of them, and what is being pulled is followed from a block of  *)
(* the level under way.                                                    *)
Queued(p, level) ==
  /\ \A i \in DOMAIN p.frontier :
       p.frontier[i][1] \in Ids(p.selected) /\ p.frontier[i][2] = level[p.frontier[i][1]]
  /\ \A i, j \in DOMAIN p.frontier : i < j => p.frontier[i][2] <= p.frontier[j][2]
  /\ p.deps = <<>> =>
       \A i \in DOMAIN p.frontier : \A b \in Ids(p.selected) : level[b] <= p.frontier[i][2] + 1
  /\ p.deps # <<>> =>
       /\ p.depth < EffectiveDepth
       /\ \A i \in DOMAIN p.frontier : p.frontier[i][2] >= p.depth
       /\ \A b \in Ids(p.selected) : level[b] <= p.depth + 1
       /\ \E a \in Ids(p.selected) : level[a] = p.depth /\ SetOf(p.deps) \subseteq Followed(a)

(* What a block of less than the last level leads to was tried, unless its *)
(* turn is still to come.                                                  *)
Explored(p, level) ==
  \A b \in Ids(p.selected) : level[b] < EffectiveDepth =>
    \A t \in Followed(b) :
      \/ b \in Pending(p)
      \/ t \in SetOf(p.deps) /\ level[b] = p.depth
      \/ t \in p.visited /\ (t \in Ids(p.selected) => level[t] <= level[b] + 1)

(* What was tried is in, gone or too large. *)
Tried(p) ==
  \A t \in p.visited :
    t \in Ids(p.selected) \/ t \notin stored \/ p.total + Tokens(t) > request.budget

Traversed(p) ==
  /\ p.pc \in {"required", "load", "system", "fill"} =>
       p.deps = <<>> /\ \A i \in DOMAIN p.selected : p.selected[i].reason # "Dependency"
  /\ p.pc \in {"expand", "reconcile", "rebuild"} =>
       /\ Tried(p)
       /\ \E level \in [BlockId -> Nat] : Levels(p, level) /\ Queued(p, level) /\ Explored(p, level)
  /\ p.pc \in {"reconcile", "rebuild"} => p.deps = <<>> /\ p.frontier = <<>>

-----------------------------------------------------------------------------
(* The inductive invariant: reconciliation.                                *)

PinnedIn(seq) == {seq[i].id : i \in {j \in DOMAIN seq : seq[j].reason = "Pinned"}}
Suppresses(seq, e) ==
  /\ policy.derived_from = "suppress_source" /\ e[2] = "derived_from"
  /\ e[1] # e[3] /\ e[3] \in Ids(seq) \ PinnedIn(seq)
Opposes(seq, e) ==
  policy.contradicts # "off" /\ e[2] = "contradicts" /\ e[1] # e[3] /\ e[3] \in Ids(seq)
Older(e) == IF e[1] < e[3] THEN e[1] ELSE e[3]

(* Edge e between selected blocks has had its effect. *)
Settled(p, e) ==
  /\ Suppresses(p.selected, e) => e[3] \in IdsOf(p.drops)
  /\ Opposes(p.selected, e) =>
       IF policy.contradicts = "prefer_newer" /\ Older(e) \notin PinnedIn(p.selected)
         THEN Older(e) \in IdsOf(p.drops) ELSE Older(e) \in IdsOf(p.notes)

NotesHold(p) ==
  \A n \in p.notes : n.winner > n.id /\ Opposed(n.id, n.winner) /\ n.winner \in Ids(p.selected)
Unnoted(seq) == \A i \in DOMAIN seq : seq[i].note = None

(* What is kept of the first pos selections has the notes on it. *)
Kept(p) ==
  /\ \A k \in DOMAIN p.rebuilt :
       LET sel == p.rebuilt[k] IN
       /\ sel.id \notin IdsOf(p.drops)
       /\ sel.id \in IdsOf(p.notes) => sel.note # None
       /\ sel.note # None => \E n \in p.notes : n.id = sel.id /\ n.winner = sel.note
  /\ \A i \in 1..p.pos :
       LET sel == p.selected[i] IN
       sel.id \notin IdsOf(p.drops) =>
         \E k \in DOMAIN p.rebuilt : p.rebuilt[k].id = sel.id /\ p.rebuilt[k].reason = sel.reason

(* The plan that is returned. *)
Agreed(p) ==
  LET seq == p.selected IN
  /\ policy.contradicts # "off" =>
       \A i, j \in DOMAIN seq :
         LET a == seq[i].id
             b == seq[j].id
         IN Opposed(a, b) /\ a < b =>
              /\ seq[i].note # None
              /\ policy.contradicts = "prefer_newer" => a \in PinnedIn(seq)
  /\ \A i \in DOMAIN seq : seq[i].note # None =>
       /\ seq[i].note > seq[i].id /\ Opposed(seq[i].id, seq[i].note)
       /\ \/ seq[i].note \in Ids(seq)
          \/ \E o \in p.omitted : o.id = seq[i].note /\ o.reason \in DropReasons
  /\ policy.derived_from = "suppress_source" =>
       \A e \in edges : 
         e[2] = "derived_from" /\ e[1] # e[3] /\ e[1] \in Ids(seq) /\ e[3] \in Ids(seq) =>
           e[3] \in PinnedIn(seq)

Reconciling(p) ==
  /\ p.pc \notin {"rebuild", "done"} => Unnoted(p.selected)
  /\ p.pc \notin {"reconcile", "rebuild", "done"} =>
       p.pos = 0 /\ p.adjacent = <<>> /\ p.drops = {} /\ p.notes = {}
  /\ p.pc \in {"reconcile", "rebuild"} => NotesHold(p) /\ Unnoted(p.selected)
  /\ p.pc = "reconcile" =>
       /\ p.pos <= Len(p.selected)
       /\ SetOf(p.adjacent) \subseteq {e \in edges : e[1] \in Ids(p.selected)}
       /\ \A e \in edges \ SetOf(p.adjacent) :
            (\E i \in 1..p.pos : p.selected[i].id = e[1]) => Settled(p, e)
  /\ p.pc = "rebuild" =>
       /\ \A e \in edges : e[1] \in Ids(p.selected) => Settled(p, e)
       /\ Kept(p)
  /\ p.pc = "done" /\ policy.enabled => Agreed(p)

EdgesDone(p) == Traversed(p) /\ Reconciling(p)

-----------------------------------------------------------------------------
(* Sequences of blocks and edges.                                          *)

LEMMA HeadAndTail ==
  ASSUME NEW S, NEW s \in Seq(S), s # <<>>
  PROVE  /\ Tail(s) \in Seq(S) /\ Head(s) \in S /\ Head(s) = s[1]
         /\ Len(s) \in Nat /\ Len(s) > 0 /\ DOMAIN s = 1..Len(s)
         /\ DOMAIN Tail(s) = 1..(Len(s) - 1)
         /\ \A i \in DOMAIN Tail(s) : i \in Nat /\ i > 0 /\ i + 1 \in DOMAIN s /\ Tail(s)[i] = s[i + 1]
         /\ SetOf(s) = {Head(s)} \union SetOf(Tail(s))
<1>1. /\ Tail(s) \in Seq(S) /\ Head(s) \in S /\ Head(s) = s[1]
      /\ Len(s) \in Nat /\ Len(s) > 0 /\ DOMAIN s = 1..Len(s)
      /\ DOMAIN Tail(s) = 1..(Len(s) - 1)
      /\ \A i \in DOMAIN Tail(s) : i \in Nat /\ i > 0 /\ i + 1 \in DOMAIN s /\ Tail(s)[i] = s[i + 1]
  OBVIOUS
<1>2. \A x \in SetOf(Tail(s)) : x \in SetOf(s)
  BY <1>1 DEF SetOf
<1>3. Head(s) \in SetOf(s)
  BY <1>1 DEF SetOf
<1>4. ASSUME NEW i \in DOMAIN s PROVE s[i] = Head(s) \/ s[i] \in SetOf(Tail(s))
  <2>1. CASE i = 1
    BY <1>1, <2>1
  <2>2. CASE i # 1
    <3>1. i - 1 \in DOMAIN Tail(s) /\ (i - 1) + 1 = i
      BY <1>1, <2>2
    <3> QED
      BY <1>1, <3>1 DEF SetOf
  <2> QED
    BY <2>1, <2>2
<1>5. SetOf(s) \subseteq {Head(s)} \union SetOf(Tail(s))
  BY <1>4 DEF SetOf
<1> QED
  BY <1>1, <1>2, <1>3, <1>5

LEMMA AppendToSeq ==
  ASSUME NEW S, NEW s \in Seq(S), NEW x \in S
  PROVE  /\ DOMAIN Append(s, x) = DOMAIN s \union {Len(s) + 1}
         /\ \A i \in DOMAIN s : Append(s, x)[i] = s[i]
         /\ Append(s, x)[Len(s) + 1] = x
OBVIOUS

LEMMA SetOfConcat ==
  ASSUME NEW S, NEW s \in Seq(S), NEW t \in Seq(S)
  PROVE  s \o t \in Seq(S) /\ SetOf(s \o t) = SetOf(s) \union SetOf(t)
<1> DEFINE u == s \o t
<1>1. /\ u \in Seq(S) /\ Len(s) \in Nat /\ Len(t) \in Nat /\ Len(u) = Len(s) + Len(t)
      /\ DOMAIN s = 1..Len(s) /\ DOMAIN t = 1..Len(t) /\ DOMAIN u = 1..Len(u)
      /\ \A i \in 1..Len(s) : u[i] = s[i]
      /\ \A i \in 1..Len(t) : u[Len(s) + i] = t[i]
  OBVIOUS
<1> HIDE DEF u
<1>2. ASSUME NEW i \in DOMAIN s PROVE s[i] \in SetOf(u)
  <2>1. i \in DOMAIN u
    BY <1>1
  <2> QED
    BY <1>1, <2>1 DEF SetOf
<1>3. ASSUME NEW i \in DOMAIN t PROVE t[i] \in SetOf(u)
  <2>1. Len(s) + i \in DOMAIN u
    BY <1>1
  <2> QED
    BY <1>1, <2>1 DEF SetOf
<1>4. ASSUME NEW i \in DOMAIN u PROVE u[i] \in SetOf(s) \union SetOf(t)
  <2>1. CASE i \in DOMAIN s
    BY <1>1, <2>1 DEF SetOf
  <2>2. CASE i \notin DOMAIN s
    <3>1. i - Len(s) \in DOMAIN t /\ u[i] = t[i - Len(s)]
      <4>1. i - Len(s) \in 1..Len(t) /\ Len(s) + (i - Len(s)) = i
        BY <1>1, <2>2
      <4> QED
        BY <1>1, <4>1
    <3> QED
      BY <3>1 DEF SetOf
  <2> QED
    BY <2>1, <2>2
<1>5. SetOf(u) = SetOf(s) \union SetOf(t)
  <2>1. SetOf(u) \subseteq SetOf(s) \union SetOf(t)
    BY <1>4 DEF SetOf
  <2>2. SetOf(s) \subseteq SetOf(u) /\ SetOf(t) \subseteq SetOf(u)
    BY <1>2, <1>3 DEF SetOf
  <2> QED
    BY <2>1, <2>2
<1> QED
  BY <1>1, <1>5 DEF u

-----------------------------------------------------------------------------
(* What is followed from a block.                                          *)

LEMMA KindsPulled ==
  ASSUME NEW k \in KindSequences
  PROVE  PulledKinds = {k[1], k[2], k[3], k[4]}
<1>1. PulledKinds = {"parent", "derived_from", "supports", "tool_invocation"}
  BY DEF PulledKinds, Kinds
<1>2. Cardinality(PulledKinds) = 4
  <2>1. IsFiniteSet({"parent"}) /\ Cardinality({"parent"}) = 1
    BY FS_Singleton
  <2>2. IsFiniteSet({"parent", "derived_from"}) /\ Cardinality({"parent", "derived_from"}) = 2
    <3>1. {"parent"} \union {"derived_from"} = {"parent", "derived_from"}
      OBVIOUS
    <3>2. "derived_from" \notin {"parent"}
      OBVIOUS
    <3>3. /\ IsFiniteSet({"parent"} \union {"derived_from"})
          /\ Cardinality({"parent"} \union {"derived_from"}) = 1 + 1
      BY <2>1, <3>2, FS_AddElement
    <3> QED
      BY <3>1, <3>3
  <2>3. /\ IsFiniteSet({"parent", "derived_from", "supports"})
        /\ Cardinality({"parent", "derived_from", "supports"}) = 3
    <3>1. {"parent", "derived_from"} \union {"supports"} = {"parent", "derived_from", "supports"}
      OBVIOUS
    <3>2. "supports" \notin {"parent", "derived_from"}
      OBVIOUS
    <3>3. /\ IsFiniteSet({"parent", "derived_from"} \union {"supports"})
          /\ Cardinality({"parent", "derived_from"} \union {"supports"}) = 2 + 1
      BY <2>2, <3>2, FS_AddElement
    <3> QED
      BY <3>1, <3>3
  <2>4. "tool_invocation" \notin {"parent", "derived_from", "supports"}
    OBVIOUS
  <2>5. Cardinality({"parent", "derived_from", "supports"} \union {"tool_invocation"}) = 3 + 1
    BY <2>3, <2>4, FS_AddElement
  <2>6. {"parent", "derived_from", "supports"} \union {"tool_invocation"} = PulledKinds
    BY <1>1
  <2> QED
    BY <2>5, <2>6
<1>3. /\ k \in [1..4 -> PulledKinds]
      /\ \A i, j \in 1..4 : i # j => k[i] # k[j]
  BY <1>2 DEF KindSequences, SetToSeqs
<1>4. /\ k[1] \in PulledKinds /\ k[2] \in PulledKinds /\ k[3] \in PulledKinds /\ k[4] \in PulledKinds
      /\ k[1] # k[2] /\ k[1] # k[3] /\ k[1] # k[4] /\ k[2] # k[3] /\ k[2] # k[4] /\ k[3] # k[4]
  BY <1>3
<1> QED
  BY <1>1, <1>4

LEMMA FollowedSeqs ==
  ASSUME World, NEW b \in BlockId
  PROVE  /\ \A k : Outgoing(b, k) \in Seq(BlockId)
         /\ Children(b) \in Seq(BlockId) /\ Lineage(b) \in Seq(BlockId)
<1>1. ASSUME NEW S \in SUBSET BlockId PROVE Newest(S) \in Seq(BlockId)
  <2>1. Newest(S) \in Seq(S)
    BY NewestIsSeq, RequestTyped DEF World
  <2> QED
    BY <2>1
<1>2. \A k : Outgoing(b, k) \in Seq(BlockId)
  BY <1>1 DEF Outgoing
<1>3. Children(b) \in Seq(BlockId)
  BY <1>1 DEF Children
<1>4. Block[b].parents \in Seq(BlockId) /\ <<>> \in Seq(BlockId)
  BY BlockAssumption
<1>5. Lineage(b) \in Seq(BlockId)
  BY <1>4 DEF Lineage
<1> QED
  BY <1>2, <1>3, <1>5

LEMMA FollowedBlocks ==
  ASSUME World, NEW b \in BlockId
  PROVE  Followed(b) \subseteq BlockId
<1>1. \A s \in Seq(BlockId) : SetOf(s) \subseteq BlockId
  BY DEF SetOf
<1> QED
  BY <1>1, FollowedSeqs DEF Followed

(* Whatever the order of the kinds. *)
DepsOf(b, k) ==
  Lineage(b) \o Outgoing(b, k[1]) \o Outgoing(b, k[2])
    \o Outgoing(b, k[3]) \o Outgoing(b, k[4]) \o Children(b)

LEMMA DepsFollowed ==
  ASSUME World, NEW b \in BlockId, NEW k \in KindSequences
  PROVE  DepsOf(b, k) \in Seq(BlockId) /\ SetOf(DepsOf(b, k)) = Followed(b)
<1> DEFINE l == Lineage(b)
           c == Children(b)
           o1 == Outgoing(b, k[1])
           o2 == Outgoing(b, k[2])
           o3 == Outgoing(b, k[3])
           o4 == Outgoing(b, k[4])
<1>1. /\ l \in Seq(BlockId) /\ c \in Seq(BlockId) /\ o1 \in Seq(BlockId) /\ o2 \in Seq(BlockId)
      /\ o3 \in Seq(BlockId) /\ o4 \in Seq(BlockId)
  BY FollowedSeqs
<1>2. UNION {SetOf(Outgoing(b, x)) : x \in PulledKinds} =
        SetOf(o1) \union SetOf(o2) \union SetOf(o3) \union SetOf(o4)
  <2>1. PulledKinds = {k[1], k[2], k[3], k[4]}
    BY KindsPulled
  <2> QED
    BY <2>1
<1>3. DepsOf(b, k) = l \o o1 \o o2 \o o3 \o o4 \o c
  BY DEF DepsOf
<1>4. Followed(b) = SetOf(l) \union SetOf(c) \union
                      (SetOf(o1) \union SetOf(o2) \union SetOf(o3) \union SetOf(o4))
  BY <1>2 DEF Followed
<1> HIDE DEF l, c, o1, o2, o3, o4
<1>5. ASSUME NEW s \in Seq(BlockId), NEW t \in Seq(BlockId)
      PROVE  s \o t \in Seq(BlockId) /\ SetOf(s \o t) = SetOf(s) \union SetOf(t)
  BY SetOfConcat
<1> DEFINE d1 == l \o o1
           d2 == d1 \o o2
           d3 == d2 \o o3
           d4 == d3 \o o4
           d5 == d4 \o c
<1>6. d1 \in Seq(BlockId) /\ SetOf(d1) = SetOf(l) \union SetOf(o1)
  BY <1>1, <1>5
<1>7. DepsOf(b, k) = d5
  BY <1>3
<1> HIDE DEF d1
<1>8. d2 \in Seq(BlockId) /\ SetOf(d2) = SetOf(d1) \union SetOf(o2)
  BY <1>1, <1>5, <1>6
<1> HIDE DEF d2
<1>9. d3 \in Seq(BlockId) /\ SetOf(d3) = SetOf(d2) \union SetOf(o3)
  BY <1>1, <1>5, <1>8
<1> HIDE DEF d3
<1>10. d4 \in Seq(BlockId) /\ SetOf(d4) = SetOf(d3) \union SetOf(o4)
  BY <1>1, <1>5, <1>9
<1> HIDE DEF d4
<1>11. d5 \in Seq(BlockId) /\ SetOf(d5) = SetOf(d4) \union SetOf(c)
  BY <1>1, <1>5, <1>10
<1> HIDE DEF d5
<1> QED
  BY <1>4, <1>6, <1>7, <1>8, <1>9, <1>10, <1>11

-----------------------------------------------------------------------------
(* Before the expansion: a step selects at most one block, as no dependency *)
(* and without a note.                                                     *)

Early == {"required", "load", "system", "fill"}

SelectsMore(p, b, why) ==
  p.selected = Append(page.selected, [id |-> b, reason |-> why, note |-> None])
ChoosesFrom(p) ==
  /\ p.pc \in Early
  /\ p.deps = page.deps /\ p.pos = page.pos /\ p.adjacent = page.adjacent
  /\ p.drops = page.drops /\ p.notes = page.notes
  /\ \/ p.selected = page.selected
     \/ \E b \in BlockId : SelectsMore(p, b, "Pinned") \/ SelectsMore(p, b, "HighRelevance")
Chooses(p) == page.pc \in Early /\ (p = Failed \/ ChoosesFrom(p))

LEMMA RequiredChooses ==
  ASSUME Known, ResolveRequired \/ Retrieve \/ LoadCandidate \/ StartSystem
  PROVE  Chooses(page')
<1>1. CASE ResolveRequired
  <2> DEFINE b == Head(page.todo)
             p == [Include(page, b, "Pinned") EXCEPT !.todo = Tail(@)]
  <2>1. page.pc = "required" /\ (page' = Failed \/ (page' = p /\ b \in stored))
    BY <1>1 DEF ResolveRequired, Step
  <2>2. /\ p.pc = page.pc /\ p.deps = page.deps /\ p.pos = page.pos /\ p.adjacent = page.adjacent
        /\ p.drops = page.drops /\ p.notes = page.notes
        /\ p.selected = Append(page.selected, [id |-> b, reason |-> "Pinned", note |-> None])
    BY DEF Known, Locals, Include
  <2> HIDE DEF p, b
  <2>3. b \in stored => ChoosesFrom(p)
    BY <2>1, <2>2 DEF ChoosesFrom, SelectsMore, Early, Known, World, StoredTyped
  <2> QED
    BY <2>1, <2>3 DEF Chooses, Early
<1>2. CASE Retrieve
  <2> DEFINE p == [page EXCEPT !.pc = "load", !.total = @ + request.task,
                               !.listed = request.retrieved \ SetOf(request.required)]
  <2>1. page.pc = "required" /\ page' = p
    BY <1>2 DEF Retrieve, Step
  <2>2. /\ p.pc = "load" /\ p.deps = page.deps /\ p.pos = page.pos /\ p.adjacent = page.adjacent
        /\ p.drops = page.drops /\ p.notes = page.notes /\ p.selected = page.selected
    BY DEF Known, Locals
  <2> HIDE DEF p
  <2> QED
    BY <2>1, <2>2 DEF ChoosesFrom, Chooses, Early
<1>3. CASE LoadCandidate
  <2>1. PICK b \in page.listed :
          page' = [page EXCEPT !.listed = @ \ {b},
                               !.loaded = @ \union ({b} \intersect stored),
                               !.cands = @ \union ({b} \intersect stored)]
    BY <1>3 DEF LoadCandidate, Step
  <2> DEFINE p == [page EXCEPT !.listed = @ \ {b},
                               !.loaded = @ \union ({b} \intersect stored),
                               !.cands = @ \union ({b} \intersect stored)]
  <2>2. page.pc = "load"
    BY <1>3 DEF LoadCandidate
  <2>3. /\ p.pc = page.pc /\ p.deps = page.deps /\ p.pos = page.pos /\ p.adjacent = page.adjacent
        /\ p.drops = page.drops /\ p.notes = page.notes /\ p.selected = page.selected
    BY DEF Known, Locals
  <2>4. page' = p
    BY <2>1
  <2> HIDE DEF p
  <2> QED
    BY <2>2, <2>3, <2>4 DEF ChoosesFrom, Chooses, Early
<1>4. CASE StartSystem
  <2> DEFINE p == [page EXCEPT !.pc = "system"]
  <2>1. page.pc = "load" /\ page' = p
    BY <1>4 DEF StartSystem, Step
  <2>2. /\ p.pc = "system" /\ p.deps = page.deps /\ p.pos = page.pos /\ p.adjacent = page.adjacent
        /\ p.drops = page.drops /\ p.notes = page.notes /\ p.selected = page.selected
    BY DEF Known, Locals
  <2> HIDE DEF p
  <2> QED
    BY <2>1, <2>2 DEF ChoosesFrom, Chooses, Early
<1> QED
  BY <1>1, <1>2, <1>3, <1>4

LEMMA SystemChooses ==
  ASSUME Known, FillSystem \/ Allocate \/ NextSection
  PROVE  Chooses(page')
<1>1. CASE FillSystem
  <2>1. PICK b \in page.cands :
          \/ page' = Include(Decided(b), b, "HighRelevance")
          \/ page' = Omit(Decided(b), b, "Budget")
    BY <1>1 DEF FillSystem, CandidatesOf, Step
  <2> DEFINE p == Include(Decided(b), b, "HighRelevance")
             q == Omit(Decided(b), b, "Budget")
  <2>2. page.pc = "system" /\ b \in BlockId
    BY <1>1 DEF FillSystem, Known, Costed, Typed
  <2>3. /\ p.pc = page.pc /\ p.deps = page.deps /\ p.pos = page.pos /\ p.adjacent = page.adjacent
        /\ p.drops = page.drops /\ p.notes = page.notes
        /\ p.selected = Append(page.selected, [id |-> b, reason |-> "HighRelevance", note |-> None])
    BY DEF Known, Locals, Include, Decided
  <2>4. /\ q.pc = page.pc /\ q.deps = page.deps /\ q.pos = page.pos /\ q.adjacent = page.adjacent
        /\ q.drops = page.drops /\ q.notes = page.notes /\ q.selected = page.selected
    BY DEF Known, Locals, Omit, Decided
  <2>5. page' = p \/ page' = q
    BY <2>1
  <2> HIDE DEF p, q
  <2>6. ChoosesFrom(p)
    BY <2>2, <2>3 DEF ChoosesFrom, SelectsMore, Early
  <2>7. ChoosesFrom(q)
    BY <2>2, <2>4 DEF ChoosesFrom, Early
  <2> QED
    BY <2>2, <2>5, <2>6, <2>7 DEF Chooses, Early
<1>2. CASE Allocate
  <2> DEFINE p == [page EXCEPT
                     !.pc = "fill", !.variable = Monus(request.budget, page.total),
                     !.summary_for = IF policy.summary_fallback THEN SummaryIndex ELSE {}]
  <2>1. page.pc = "system" /\ page' = p
    BY <1>2 DEF Allocate, Step
  <2>2. /\ p.pc = "fill" /\ p.deps = page.deps /\ p.pos = page.pos /\ p.adjacent = page.adjacent
        /\ p.drops = page.drops /\ p.notes = page.notes /\ p.selected = page.selected
    BY DEF Known, Locals
  <2> HIDE DEF p
  <2> QED
    BY <2>1, <2>2 DEF ChoosesFrom, Chooses, Early
<1>3. CASE NextSection
  <2>1. PICK s : page' = [page EXCEPT !.section = s, !.used = 0, !.words = {}]
    BY <1>3 DEF NextSection, Step
  <2> DEFINE p == [page EXCEPT !.section = s, !.used = 0, !.words = {}]
  <2>2. page.pc = "fill" /\ page' = p
    BY <1>3, <2>1 DEF NextSection
  <2>3. /\ p.pc = page.pc /\ p.deps = page.deps /\ p.pos = page.pos /\ p.adjacent = page.adjacent
        /\ p.drops = page.drops /\ p.notes = page.notes /\ p.selected = page.selected
    BY DEF Known, Locals
  <2> HIDE DEF p
  <2> QED
    BY <2>2, <2>3 DEF ChoosesFrom, Chooses, Early
<1> QED
  BY <1>1, <1>2, <1>3

FillsWith(b) ==
  \/ SkipRedundant(b) \/ TakeCandidate(b) \/ OmitCandidate(b)
  \/ \E s \in BlockId : Substitute(b, s)

LEMMA FillChooses ==
  ASSUME Known, NEW b \in page.cands, FillsWith(b)
  PROVE  Chooses(page')
<1> DEFINE omitted(why) == Omit(Decided(b), b, why)
           taken == [Include(Decided(b), b, "HighRelevance")
                       EXCEPT !.used = @ + Tokens(b), !.words = @ \union {b}]
           covered(s) == [Omit(Include(Decided(b), s, "HighRelevance"), b, "Compressed")
                            EXCEPT !.used = @ + Tokens(s), !.compressed = @ \union {s}]
<1>1. page.pc = "fill" /\ b \in BlockId
  BY DEF FillsWith, SkipRedundant, TakeCandidate, OmitCandidate, Substitute, Considered,
         Known, Costed, Typed
<1>2. \/ \E why : page' = omitted(why)
      \/ page' = taken
      \/ \E s \in BlockId : page' = covered(s)
  BY DEF FillsWith, SkipRedundant, TakeCandidate, OmitCandidate, Substitute, Step
<1>3. ASSUME NEW why PROVE ChoosesFrom(omitted(why))
  <2> DEFINE p == omitted(why)
  <2>1. /\ p.pc = page.pc /\ p.deps = page.deps /\ p.pos = page.pos /\ p.adjacent = page.adjacent
        /\ p.drops = page.drops /\ p.notes = page.notes /\ p.selected = page.selected
    BY DEF Known, Locals, Omit, Decided
  <2> HIDE DEF p
  <2>2. ChoosesFrom(p)
    BY <1>1, <2>1 DEF ChoosesFrom, Early
  <2> QED
    BY <2>2 DEF p
<1>4. ChoosesFrom(taken)
  <2>1. /\ taken.pc = page.pc /\ taken.deps = page.deps /\ taken.pos = page.pos
        /\ taken.adjacent = page.adjacent /\ taken.drops = page.drops /\ taken.notes = page.notes
        /\ taken.selected = Append(page.selected, [id |-> b, reason |-> "HighRelevance", note |-> None])
    BY DEF Known, Locals, Include, Decided
  <2> HIDE DEF taken
  <2> QED
    BY <1>1, <2>1 DEF ChoosesFrom, SelectsMore, Early
<1>5. ASSUME NEW s \in BlockId PROVE ChoosesFrom(covered(s))
  <2> DEFINE p == covered(s)
  <2>1. /\ p.pc = page.pc /\ p.deps = page.deps /\ p.pos = page.pos /\ p.adjacent = page.adjacent
        /\ p.drops = page.drops /\ p.notes = page.notes
        /\ p.selected = Append(page.selected, [id |-> s, reason |-> "HighRelevance", note |-> None])
    BY DEF Known, Locals, Include, Omit, Decided
  <2> HIDE DEF p
  <2>2. ChoosesFrom(p)
    BY <1>1, <2>1 DEF ChoosesFrom, SelectsMore, Early
  <2> QED
    BY <2>2 DEF p
<1> HIDE DEF omitted, taken, covered
<1> QED
  BY <1>1, <1>2, <1>3, <1>4, <1>5 DEF Chooses, Early

LEMMA StartEdgesDone == EdgesDone(Start) /\ EdgesDone(Failed)
<1>1. ASSUME NEW p, p.pc \in {"required", "failed"}, p.selected = <<>>, p.deps = <<>>, p.pos = 0,
             p.adjacent = <<>>, p.drops = {}, p.notes = {}
      PROVE  EdgesDone(p)
  <2>1. DOMAIN p.selected = {}
    BY <1>1
  <2> QED
    BY <1>1, <2>1 DEF EdgesDone, Traversed, Reconciling, Unnoted
<1>2. /\ Start.pc = "required" /\ Start.selected = <<>> /\ Start.deps = <<>> /\ Start.pos = 0
      /\ Start.adjacent = <<>> /\ Start.drops = {} /\ Start.notes = {}
  BY DEF Start
<1>3. /\ Failed.pc = "failed" /\ Failed.selected = <<>> /\ Failed.deps = <<>> /\ Failed.pos = 0
      /\ Failed.adjacent = <<>> /\ Failed.drops = {} /\ Failed.notes = {}
  BY DEF Failed, Start
<1> QED
  BY <1>1, <1>2, <1>3

LEMMA ChoosesEdgesDone ==
  ASSUME Known, EdgesDone(page), NEW p, Chooses(p)
  PROVE  EdgesDone(p)
<1>1. CASE p = Failed
  BY <1>1, StartEdgesDone
<1>2. CASE ChoosesFrom(p)
  <2>1. /\ page.pc \in Early /\ p.pc \in Early /\ page.selected \in Seq(Selection)
        /\ page.deps = <<>> /\ page.pos = 0 /\ page.adjacent = <<>>
        /\ page.drops = {} /\ page.notes = {} /\ Unnoted(page.selected)
        /\ \A i \in DOMAIN page.selected : page.selected[i].reason # "Dependency"
    <3>1. page.pc \in {"required", "load", "system", "fill"} /\ p.pc \in Early
      BY <1>2 DEF Chooses, ChoosesFrom, Early
    <3>2. page.pc \notin {"reconcile", "rebuild", "done"}
      BY <3>1
    <3>3. page.deps = <<>> /\ \A i \in DOMAIN page.selected : page.selected[i].reason # "Dependency"
      BY <3>1 DEF EdgesDone, Traversed
    <3>4. /\ page.pos = 0 /\ page.adjacent = <<>> /\ page.drops = {} /\ page.notes = {}
          /\ Unnoted(page.selected)
      BY <3>2 DEF EdgesDone, Reconciling
    <3> QED
      BY <3>1, <3>3, <3>4 DEF Early, Known, Costed, Typed
  <2>2. Unnoted(p.selected) /\ \A i \in DOMAIN p.selected : p.selected[i].reason # "Dependency"
    <3>1. CASE p.selected = page.selected
      BY <2>1, <3>1
    <3>2. ASSUME NEW b \in BlockId, NEW why \in {"Pinned", "HighRelevance"}, SelectsMore(p, b, why)
          PROVE  Unnoted(p.selected) /\ \A i \in DOMAIN p.selected : p.selected[i].reason # "Dependency"
      <4> DEFINE x == [id |-> b, reason |-> why, note |-> None]
      <4>1. p.selected = Append(page.selected, x) /\ x.note = None /\ x.reason # "Dependency"
        BY <3>2 DEF SelectsMore
      <4>2. x \in Selection
        BY DEF Selection, Reasons
      <4> HIDE DEF x
      <4>3. /\ DOMAIN p.selected = DOMAIN page.selected \union {Len(page.selected) + 1}
            /\ \A i \in DOMAIN page.selected : p.selected[i] = page.selected[i]
            /\ p.selected[Len(page.selected) + 1] = x
        BY <2>1, <4>1, <4>2, AppendSelection
      <4> QED
        BY <2>1, <4>1, <4>3 DEF Unnoted
    <3> QED
      BY <1>2, <3>1, <3>2 DEF ChoosesFrom
  <2>3. p.deps = <<>> /\ p.pos = 0 /\ p.adjacent = <<>> /\ p.drops = {} /\ p.notes = {}
    BY <1>2, <2>1 DEF ChoosesFrom
  <2> QED
    BY <2>1, <2>2, <2>3 DEF EdgesDone, Traversed, Reconciling, Early
<1> QED
  BY <1>1, <1>2 DEF Chooses

-----------------------------------------------------------------------------
(* Expansion.                                                              *)

LEMMA IncludedIds ==
  /\ Included = Ids(page.selected)
  /\ Pinned = PinnedIn(page.selected)
BY DEF Included, Pinned, Ids, PinnedIn, SetOf

LEMMA IdsTyped ==
  ASSUME NEW seq \in Seq(Selection)
  PROVE  Ids(seq) \subseteq BlockId
BY SelectedTyped DEF Ids

LEMMA DepthTyped == World => EffectiveDepth \in 0..MAX_DEPTH_CEILING
<1> SUFFICES ASSUME World PROVE EffectiveDepth \in 0..MAX_DEPTH_CEILING
  OBVIOUS
<1>1. policy.max_depth \in Nat
  BY RequestTyped DEF World, PolicyTyped
<1> QED
  BY <1>1 DEF EffectiveDepth, MAX_DEPTH_CEILING

LEMMA FinishFillEdges ==
  ASSUME Known, EdgesDone(page), FinishFill
  PROVE  EdgesDone(page')
<1> DEFINE f == [i \in DOMAIN page.selected |-> <<page.selected[i].id, 0>>]
           p == [page EXCEPT !.pc = "expand", !.visited = Included, !.frontier = f]
           q == [page EXCEPT !.pc = "done"]
<1>1. page.pc = "fill" /\ (page' = p \/ (page' = q /\ ~policy.enabled))
  BY DEF FinishFill, Step
<1>2. page.selected \in Seq(Selection) /\ EffectiveDepth \in Nat
  BY DepthTyped DEF Known, Costed, Typed
<1>3. /\ page.deps = <<>> /\ page.pos = 0 /\ page.adjacent = <<>> /\ page.drops = {} /\ page.notes = {}
      /\ Unnoted(page.selected)
      /\ \A i \in DOMAIN page.selected : page.selected[i].reason # "Dependency"
  BY <1>1 DEF EdgesDone, Traversed, Reconciling
<1>4. /\ p.pc = "expand" /\ p.visited = Ids(page.selected) /\ p.frontier = f
      /\ p.selected = page.selected /\ p.deps = page.deps /\ p.pos = page.pos
      /\ p.adjacent = page.adjacent /\ p.drops = page.drops /\ p.notes = page.notes
  BY IncludedIds DEF Known, Locals
<1>5. q.pc = "done"
  BY DEF Known, Locals
<1>6. DOMAIN f = DOMAIN page.selected /\ \A i \in DOMAIN f : f[i][1] = page.selected[i].id /\ f[i][2] = 0
  OBVIOUS
<1> HIDE DEF p, q, f
<1>7. EdgesDone(p)
  <2> DEFINE level == [b \in BlockId |-> 0]
  <2>1. level \in [BlockId -> Nat] /\ \A b \in Ids(page.selected) : level[b] = 0
    BY <1>2, IdsTyped
  <2> HIDE DEF level
  <2>2. Levels(p, level)
    BY <1>2, <1>3, <1>4, <2>1 DEF Levels, Ids
  <2>3. Queued(p, level)
    <3>1. \A i \in DOMAIN f : f[i][1] \in Ids(page.selected) /\ f[i][2] = level[f[i][1]]
      BY <1>6, <2>1 DEF Ids
    <3> QED
      BY <1>3, <1>4, <1>6, <2>1, <3>1 DEF Queued
  <2>4. Explored(p, level)
    <3>1. \A b \in Ids(p.selected) : b \in Pending(p)
      BY <1>4, <1>6 DEF Ids, Pending
    <3> QED
      BY <3>1 DEF Explored
  <2>5. Tried(p)
    BY <1>4 DEF Tried
  <2> QED
    BY <1>3, <1>4, <2>1, <2>2, <2>3, <2>4, <2>5 DEF EdgesDone, Traversed, Reconciling
<1>8. ~policy.enabled => EdgesDone(q)
  BY <1>5 DEF EdgesDone, Traversed, Reconciling
<1> QED
  BY <1>1, <1>7, <1>8

(* What expansion leaves alone. *)
LEMMA StillExpanding ==
  ASSUME Reconciling(page), page.pc = "expand", NEW p, p.pc = page.pc, p.pos = page.pos,
         p.adjacent = page.adjacent, p.drops = page.drops, p.notes = page.notes, Unnoted(p.selected)
  PROVE  Reconciling(p)
BY DEF Reconciling

LEMMA PopFrontierEdges ==
  ASSUME Known, Calm, EdgesDone(page), PopFrontier
  PROVE  EdgesDone(page')
<1> DEFINE b == Head(page.frontier)[1]
           depth == Head(page.frontier)[2]
           deps(k) == DepsOf(b, k)
           popped == [page EXCEPT !.frontier = Tail(@)]
           p(k) == [popped EXCEPT !.depth = depth, !.deps = deps(k)]
           IdsNow == Ids(page.selected)
<1>1. /\ page.pc = "expand" /\ page.deps = <<>> /\ page.frontier # <<>>
      /\ page.frontier \in Seq(BlockId \X Nat) /\ page.selected \in Seq(Selection)
  BY DEF PopFrontier, Known, Costed, Typed
<1>2. PICK level \in [BlockId -> Nat] :
        Levels(page, level) /\ Queued(page, level) /\ Explored(page, level)
  BY <1>1 DEF EdgesDone, Traversed
<1>3. Tried(page) /\ Reconciling(page) /\ Unnoted(page.selected)
  BY <1>1 DEF EdgesDone, Traversed, Reconciling
<1>4. /\ Tail(page.frontier) \in Seq(BlockId \X Nat) /\ Head(page.frontier) = page.frontier[1]
      /\ 1 \in DOMAIN page.frontier
      /\ DOMAIN page.frontier \subseteq Nat
      /\ \A i \in DOMAIN Tail(page.frontier) :
           i \in Nat /\ i > 0 /\ i + 1 \in DOMAIN page.frontier /\ Tail(page.frontier)[i] = page.frontier[i + 1]
      /\ SetOf(page.frontier) = {Head(page.frontier)} \union SetOf(Tail(page.frontier))
  BY <1>1, HeadAndTail
<1>5. /\ b \in IdsNow /\ depth = level[b] /\ b \in BlockId /\ depth \in Nat
      /\ IdsNow \subseteq stored /\ IdsNow \subseteq BlockId
  <2>1. b \in IdsNow /\ depth = level[b]
    BY <1>2, <1>4 DEF Queued
  <2>2. IdsNow \subseteq BlockId /\ IdsNow \subseteq stored
    BY <1>1, IdsTyped DEF Known, Costed, StillStored
  <2> QED
    BY <2>1, <2>2
<1>6. \/ page' = popped /\ depth >= EffectiveDepth
      \/ \E k \in KindSequences : page' = p(k) /\ depth < EffectiveDepth
  <2>1. \/ page' = popped /\ (depth >= EffectiveDepth \/ b \notin stored)
        \/ \E k \in KindSequences : page' = p(k) /\ ~(depth >= EffectiveDepth)
    BY DEF PopFrontier, Step, DepsOf
  <2>2. EffectiveDepth \in Nat
    BY DepthTyped DEF Known
  <2> HIDE DEF b, depth, popped, p
  <2> QED
    BY <1>5, <2>1, <2>2
(* The rest of the frontier. *)
<1>7. ASSUME NEW q, q.frontier = Tail(page.frontier), q.selected = page.selected
      PROVE  /\ \A i \in DOMAIN q.frontier :
                  q.frontier[i][1] \in IdsNow /\ q.frontier[i][2] = level[q.frontier[i][1]]
             /\ \A i, j \in DOMAIN q.frontier : i < j => q.frontier[i][2] <= q.frontier[j][2]
             /\ \A i \in DOMAIN q.frontier : q.frontier[i][2] >= depth
             /\ \A x \in IdsNow : level[x] <= depth + 1
             /\ \A x \in Pending(page) : x = b \/ x \in Pending(q)
  <2>1. ASSUME NEW i \in DOMAIN q.frontier
        PROVE  q.frontier[i][1] \in IdsNow /\ q.frontier[i][2] = level[q.frontier[i][1]]
    <3>1. i + 1 \in DOMAIN page.frontier /\ q.frontier[i] = page.frontier[i + 1]
      BY <1>4, <1>7
    <3>2. \A j \in DOMAIN page.frontier :
            page.frontier[j][1] \in IdsNow /\ page.frontier[j][2] = level[page.frontier[j][1]]
      BY <1>2 DEF Queued
    <3> HIDE DEF IdsNow
    <3> QED
      BY <3>1, <3>2
  <2>2. \A i, j \in DOMAIN q.frontier : i < j => q.frontier[i][2] <= q.frontier[j][2]
    <3> SUFFICES ASSUME NEW i \in DOMAIN q.frontier, NEW j \in DOMAIN q.frontier, i < j
                 PROVE  q.frontier[i][2] <= q.frontier[j][2]
      OBVIOUS
    <3>1. /\ i + 1 \in DOMAIN page.frontier /\ j + 1 \in DOMAIN page.frontier /\ i + 1 < j + 1
          /\ q.frontier[i] = page.frontier[i + 1] /\ q.frontier[j] = page.frontier[j + 1]
      <4>1. i \in DOMAIN Tail(page.frontier) /\ j \in DOMAIN Tail(page.frontier)
        BY <1>7
      <4>2. i \in Nat /\ j \in Nat
        BY <1>4, <4>1
      <4>3. i + 1 \in DOMAIN page.frontier /\ q.frontier[i] = page.frontier[i + 1]
        BY <1>4, <1>7, <4>1
      <4>4. j + 1 \in DOMAIN page.frontier /\ q.frontier[j] = page.frontier[j + 1]
        BY <1>4, <1>7, <4>1
      <4>5. i + 1 < j + 1
        BY <4>2
      <4> QED
        BY <4>3, <4>4, <4>5
    <3> QED
      BY <1>2, <3>1 DEF Queued
  <2>3. \A i \in DOMAIN q.frontier : q.frontier[i][2] >= depth
    <3> SUFFICES ASSUME NEW i \in DOMAIN q.frontier PROVE q.frontier[i][2] >= depth
      OBVIOUS
    <3>1. /\ i + 1 \in DOMAIN page.frontier /\ 1 < i + 1 /\ q.frontier[i] = page.frontier[i + 1]
          /\ page.frontier[i + 1][2] \in Nat
      <4>1. i \in Nat /\ i > 0 /\ i + 1 \in DOMAIN page.frontier /\ q.frontier[i] = page.frontier[i + 1]
        <5>1. i \in DOMAIN Tail(page.frontier) /\ q.frontier = Tail(page.frontier)
          BY <1>7
        <5> QED
          BY <1>4, <5>1
      <4>2. page.frontier[i + 1] \in BlockId \X Nat
        BY <1>1, <4>1
      <4> QED
        BY <4>1, <4>2
    <3>2. page.frontier[1][2] <= page.frontier[i + 1][2]
      BY <1>2, <1>4, <3>1 DEF Queued
    <3> QED
      BY <1>4, <1>5, <3>1, <3>2
  <2>4. \A x \in IdsNow : level[x] <= depth + 1
    BY <1>1, <1>2, <1>4 DEF Queued
  <2>5. \A x \in Pending(page) : x = b \/ x \in Pending(q)
    <3>1. \A r : Pending(r) = {e[1] : e \in SetOf(r.frontier)}
      BY DEF Pending, SetOf
    <3>2. Pending(page) = {e[1] : e \in SetOf(page.frontier)} /\ Pending(q) = {e[1] : e \in SetOf(q.frontier)}
      BY <3>1
    <3> QED
      BY <1>4, <1>7, <3>2
  <2> QED
    BY <2>1, <2>2, <2>3, <2>4, <2>5
<1>8. ASSUME page' = popped, depth >= EffectiveDepth
      PROVE  EdgesDone(page')
  <2>1. /\ popped.frontier = Tail(page.frontier) /\ popped.selected = page.selected
        /\ popped.pc = page.pc /\ popped.deps = page.deps /\ popped.depth = page.depth
        /\ popped.visited = page.visited /\ popped.total = page.total /\ popped.pos = page.pos
        /\ popped.adjacent = page.adjacent /\ popped.drops = page.drops /\ popped.notes = page.notes
    BY DEF Known, Locals
  <2> HIDE DEF popped, p
  <2>2. Levels(popped, level)
    BY <1>2, <2>1 DEF Levels
  <2>3. Queued(popped, level)
    <3>1. /\ \A i \in DOMAIN popped.frontier :
               popped.frontier[i][1] \in IdsNow /\ popped.frontier[i][2] = level[popped.frontier[i][1]]
          /\ \A i, j \in DOMAIN popped.frontier : i < j => popped.frontier[i][2] <= popped.frontier[j][2]
          /\ \A i \in DOMAIN popped.frontier : popped.frontier[i][2] >= depth
          /\ \A x \in IdsNow : level[x] <= depth + 1
      BY <1>7, <2>1
    <3>2. ASSUME NEW i \in DOMAIN popped.frontier, NEW x \in IdsNow
          PROVE  level[x] <= popped.frontier[i][2] + 1
      <4>1. level[x] \in Nat /\ popped.frontier[i][2] \in Nat
        BY <1>2, <1>5, <3>1
      <4>2. popped.frontier[i][2] >= depth /\ level[x] <= depth + 1
        BY <3>1
      <4> HIDE DEF depth
      <4> QED
        BY <1>5, <4>1, <4>2
    <3> QED
      BY <1>1, <2>1, <3>1, <3>2 DEF Queued
  <2>4. Explored(popped, level)
    <3> SUFFICES ASSUME NEW x \in IdsNow, level[x] < EffectiveDepth, NEW t \in Followed(x)
                 PROVE  \/ x \in Pending(popped)
                        \/ t \in SetOf(popped.deps) /\ level[x] = popped.depth
                        \/ t \in popped.visited /\ (t \in IdsNow => level[t] <= level[x] + 1)
      BY <2>1 DEF Explored
    <3>1. x # b
      <4>1. EffectiveDepth \in Nat
        BY DepthTyped DEF Known
      <4> QED
        BY <1>5, <1>8, <4>1
    <3>2. x \in Pending(page) => x \in Pending(popped)
      BY <1>7, <2>1, <3>1
    <3> QED
      BY <1>2, <2>1, <3>2 DEF Explored
  <2>5. Tried(popped)
    BY <1>3, <2>1 DEF Tried
  <2>6. Reconciling(popped)
    BY <1>1, <1>3, <2>1, StillExpanding
  <2>7. EdgesDone(popped)
    BY <1>1, <1>2, <2>1, <2>2, <2>3, <2>4, <2>5, <2>6 DEF EdgesDone, Traversed
  <2> QED
    BY <1>8, <2>7
<1>9. ASSUME NEW k \in KindSequences, page' = p(k), depth < EffectiveDepth
      PROVE  EdgesDone(page')
  <2> DEFINE q == p(k)
             d == deps(k)
  <2>1. d \in Seq(BlockId) /\ SetOf(d) = Followed(b)
    <3> HIDE DEF b
    <3> QED
      BY <1>5, DepsFollowed DEF Known
  <2>2. /\ q.frontier = Tail(page.frontier) /\ q.selected = page.selected
        /\ q.pc = page.pc /\ q.deps = d /\ q.depth = depth
        /\ q.visited = page.visited /\ q.total = page.total /\ q.pos = page.pos
        /\ q.adjacent = page.adjacent /\ q.drops = page.drops /\ q.notes = page.notes
    BY DEF Known, Locals
  <2> HIDE DEF q, d, p, popped
  <2>3. Levels(q, level)
    BY <1>2, <2>2 DEF Levels
  <2>4. Queued(q, level)
    <3>1. /\ \A i \in DOMAIN q.frontier :
               q.frontier[i][1] \in IdsNow /\ q.frontier[i][2] = level[q.frontier[i][1]]
          /\ \A i, j \in DOMAIN q.frontier : i < j => q.frontier[i][2] <= q.frontier[j][2]
          /\ \A i \in DOMAIN q.frontier : q.frontier[i][2] >= depth
          /\ \A x \in IdsNow : level[x] <= depth + 1
      BY <1>7, <2>2
    <3>2. ASSUME NEW i \in DOMAIN q.frontier, NEW x \in IdsNow
          PROVE  level[x] <= q.frontier[i][2] + 1
      <4>1. level[x] \in Nat /\ q.frontier[i][2] \in Nat
        BY <1>2, <1>5, <3>1
      <4>2. q.frontier[i][2] >= depth /\ level[x] <= depth + 1
        BY <3>1
      <4> HIDE DEF depth
      <4> QED
        BY <1>5, <4>1, <4>2
    <3>3. \E a \in IdsNow : level[a] = depth /\ SetOf(d) \subseteq Followed(a)
      BY <1>5, <2>1
    <3> HIDE DEF depth, b
    <3> QED
      BY <1>9, <2>2, <3>1, <3>2, <3>3 DEF Queued
  <2>5. Explored(q, level)
    <3> SUFFICES ASSUME NEW x \in IdsNow, level[x] < EffectiveDepth, NEW t \in Followed(x)
                 PROVE  \/ x \in Pending(q)
                        \/ t \in SetOf(q.deps) /\ level[x] = q.depth
                        \/ t \in q.visited /\ (t \in IdsNow => level[t] <= level[x] + 1)
      BY <2>2 DEF Explored
    <3>1. CASE x = b
      BY <1>5, <2>1, <2>2, <3>1
    <3>2. CASE x # b
      <4>1. x \in Pending(page) => x \in Pending(q)
        BY <1>7, <2>2, <3>2
      <4>2. SetOf(page.deps) = {}
        BY <1>1 DEF SetOf
      <4>3. \/ x \in Pending(page)
            \/ t \in page.visited /\ (t \in IdsNow => level[t] <= level[x] + 1)
        BY <1>2, <4>2 DEF Explored
      <4> QED
        BY <2>2, <4>1, <4>3
    <3> QED
      BY <3>1, <3>2
  <2>6. Tried(q)
    BY <1>3, <2>2 DEF Tried
  <2>7. Reconciling(q)
    BY <1>1, <1>3, <2>2, StillExpanding
  <2>8. EdgesDone(q)
    BY <1>1, <1>2, <2>2, <2>3, <2>4, <2>5, <2>6, <2>7 DEF EdgesDone, Traversed
  <2> QED
    BY <1>9, <2>8 DEF q
<1> QED
  BY <1>6, <1>8, <1>9

LEMMA PullDependencyEdges ==
  ASSUME Known, Calm, EdgesDone(page), PullDependency
  PROVE  EdgesDone(page')
<1> DEFINE b == Head(page.deps)
           tried == [page EXCEPT !.deps = Tail(@), !.visited = @ \union {b}]
           p == [Include(tried, b, "Dependency")
                   EXCEPT !.frontier = Append(@, <<b, page.depth + 1>>)]
           IdsNow == Ids(page.selected)
<1>1. /\ page.pc = "expand" /\ page.deps # <<>> /\ page.deps \in Seq(BlockId)
      /\ page.depth \in Nat /\ page.frontier \in Seq(BlockId \X Nat) /\ page.total \in Nat
      /\ page.selected \in Seq(Selection) /\ IdsNow \subseteq page.visited
  BY DEF PullDependency, Known, Costed, Typed, Sound, Expanded
<1>2. PICK level \in [BlockId -> Nat] :
        Levels(page, level) /\ Queued(page, level) /\ Explored(page, level)
  BY <1>1 DEF EdgesDone, Traversed
<1>3. Tried(page) /\ Reconciling(page) /\ Unnoted(page.selected)
  BY <1>1 DEF EdgesDone, Traversed, Reconciling
<1>4. /\ Tail(page.deps) \in Seq(BlockId) /\ b \in BlockId
      /\ SetOf(page.deps) = {b} \union SetOf(Tail(page.deps))
  BY <1>1, HeadAndTail
<1>5. /\ page.depth < EffectiveDepth
      /\ \A i \in DOMAIN page.frontier : page.frontier[i][2] >= page.depth
      /\ \A x \in IdsNow : level[x] <= page.depth + 1
      /\ \E a \in IdsNow : level[a] = page.depth /\ SetOf(page.deps) \subseteq Followed(a)
  BY <1>1, <1>2 DEF Queued
<1>6. PICK from \in IdsNow : level[from] = page.depth /\ SetOf(page.deps) \subseteq Followed(from)
  BY <1>5
<1>7. IdsNow \subseteq BlockId /\ EffectiveDepth \in Nat
  BY <1>1, IdsTyped, DepthTyped DEF Known
<1>8. \/ page' = p /\ b \notin page.visited /\ b \in stored /\ Fits(b)
      \/ page' = tried /\ (b \in page.visited \/ b \notin stored \/ ~Fits(b))
  BY DEF PullDependency, Step
<1>9. ASSUME page' = tried, b \in page.visited \/ b \notin stored \/ ~Fits(b)
      PROVE  EdgesDone(page')
  <2>1. /\ tried.deps = Tail(page.deps) /\ tried.visited = page.visited \union {b}
        /\ tried.pc = page.pc /\ tried.selected = page.selected /\ tried.frontier = page.frontier
        /\ tried.depth = page.depth /\ tried.total = page.total /\ tried.pos = page.pos
        /\ tried.adjacent = page.adjacent /\ tried.drops = page.drops /\ tried.notes = page.notes
    BY DEF Known, Locals
  <2> HIDE DEF tried, b, p
  <2>2. Levels(tried, level)
    BY <1>2, <2>1 DEF Levels
  <2>3. Queued(tried, level)
    <3>1. ASSUME NEW i \in DOMAIN page.frontier, NEW x \in IdsNow
          PROVE  level[x] <= page.frontier[i][2] + 1
      <4>1. page.frontier[i] \in BlockId \X Nat
        BY <1>1
      <4>2. level[x] \in Nat /\ page.frontier[i][2] \in Nat
        BY <1>2, <1>7, <4>1
      <4>3. page.frontier[i][2] >= page.depth /\ level[x] <= page.depth + 1
        BY <1>5
      <4> QED
        BY <1>1, <4>2, <4>3
    <3>2. SetOf(Tail(page.deps)) \subseteq Followed(from)
      BY <1>4, <1>6
    <3>3. /\ \A i \in DOMAIN page.frontier :
               page.frontier[i][1] \in IdsNow /\ page.frontier[i][2] = level[page.frontier[i][1]]
          /\ \A i, j \in DOMAIN page.frontier : i < j => page.frontier[i][2] <= page.frontier[j][2]
      BY <1>2 DEF Queued
    <3> QED
      BY <1>5, <1>6, <2>1, <3>1, <3>2, <3>3 DEF Queued
  <2>4. Explored(tried, level)
    <3> SUFFICES ASSUME NEW x \in IdsNow, level[x] < EffectiveDepth, NEW t \in Followed(x)
                 PROVE  \/ x \in Pending(tried)
                        \/ t \in SetOf(tried.deps) /\ level[x] = tried.depth
                        \/ t \in tried.visited /\ (t \in IdsNow => level[t] <= level[x] + 1)
      BY <2>1 DEF Explored
    <3>1. Pending(tried) = Pending(page)
      BY <2>1 DEF Pending
    <3>2. \/ x \in Pending(page)
          \/ t \in SetOf(page.deps) /\ level[x] = page.depth
          \/ t \in page.visited /\ (t \in IdsNow => level[t] <= level[x] + 1)
      BY <1>2 DEF Explored
    <3>3. t = b /\ level[x] = page.depth => t \in tried.visited /\ (t \in IdsNow => level[t] <= level[x] + 1)
      BY <1>5, <2>1
    <3> QED
      BY <1>4, <2>1, <3>1, <3>2, <3>3
  <2>5. Tried(tried)
    <3>1. page.total + Tokens(b) \in Int /\ request.budget \in Int
      BY <1>1, <1>4, BlockAssumption, RequestTyped DEF Tokens, Known, World
    <3>2. b \in IdsNow \/ b \notin stored \/ page.total + Tokens(b) > request.budget
      BY <1>3, <1>9, <3>1 DEF Tried, Fits
    <3> QED
      BY <1>3, <2>1, <3>2 DEF Tried
  <2>6. Reconciling(tried)
    BY <1>1, <1>3, <2>1, StillExpanding
  <2>7. EdgesDone(tried)
    BY <1>1, <1>2, <2>1, <2>2, <2>3, <2>4, <2>5, <2>6 DEF EdgesDone, Traversed
  <2> QED
    BY <1>9, <2>7
<1>10. ASSUME page' = p, b \notin page.visited, b \in stored, Fits(b)
       PROVE  EdgesDone(page')
  <2> DEFINE x == [id |-> b, reason |-> "Dependency", note |-> None]
             entry == <<b, page.depth + 1>>
             n == Len(page.selected)
             m == Len(page.frontier)
             new == [level EXCEPT ![b] = page.depth + 1]
  <2>1. /\ p.selected = Append(page.selected, x) /\ p.frontier = Append(page.frontier, entry)
        /\ p.total = page.total + Tokens(b)
        /\ p.deps = Tail(page.deps) /\ p.visited = page.visited \union {b}
        /\ p.pc = page.pc /\ p.depth = page.depth /\ p.pos = page.pos
        /\ p.adjacent = page.adjacent /\ p.drops = page.drops /\ p.notes = page.notes
    BY DEF Known, Locals, Include
  <2>2. x \in Selection /\ x.id = b /\ x.reason = "Dependency" /\ x.note = None
    BY <1>4 DEF Selection, Reasons
  <2>3. entry \in BlockId \X Nat /\ entry[1] = b /\ entry[2] = page.depth + 1
    BY <1>1, <1>4
  <2> HIDE DEF p, tried, b, x, entry
  <2>4. /\ DOMAIN p.selected = DOMAIN page.selected \union {n + 1} /\ n + 1 \notin DOMAIN page.selected
        /\ \A i \in DOMAIN page.selected : p.selected[i] = page.selected[i]
        /\ p.selected[n + 1] = x
    BY <1>1, <2>1, <2>2, AppendSelection
  <2>5. /\ DOMAIN p.frontier = DOMAIN page.frontier \union {m + 1}
        /\ \A i \in DOMAIN page.frontier : p.frontier[i] = page.frontier[i] /\ i \in Nat /\ i <= m
        /\ p.frontier[m + 1] = entry /\ m \in Nat
    <3>1. m \in Nat /\ DOMAIN page.frontier = 1..m
      BY <1>1 DEF m
    <3>2. /\ DOMAIN p.frontier = DOMAIN page.frontier \union {m + 1} /\ p.frontier[m + 1] = entry
          /\ \A i \in DOMAIN page.frontier : p.frontier[i] = page.frontier[i]
      <4>1. page.frontier \in Seq(BlockId \X Nat) /\ entry \in BlockId \X Nat
        BY <1>1, <2>3
      <4>2. /\ DOMAIN Append(page.frontier, entry) = DOMAIN page.frontier \union {m + 1}
            /\ Append(page.frontier, entry)[m + 1] = entry
            /\ \A i \in DOMAIN page.frontier : Append(page.frontier, entry)[i] = page.frontier[i]
        BY <4>1, AppendToSeq DEF m
      <4> QED
        BY <2>1, <4>2
    <3> QED
      BY <3>1, <3>2
  <2>6. Ids(p.selected) = IdsNow \union {b}
    BY <2>2, <2>4 DEF Ids
  <2>7. b \notin IdsNow /\ from # b
    BY <1>1, <1>6, <1>10
  <2>8. /\ new \in [BlockId -> Nat] /\ new[b] = page.depth + 1
        /\ \A a \in IdsNow : new[a] = level[a]
    BY <1>1, <1>4, <1>7, <2>7
  <2> HIDE DEF new, m, n
  <2>9. Levels(p, new)
    <3>1. \A a \in Ids(p.selected) : new[a] <= EffectiveDepth
      <4>1. page.depth + 1 <= EffectiveDepth
        BY <1>1, <1>5, <1>7
      <4> QED
        BY <1>2, <2>6, <2>8, <4>1 DEF Levels
    <3>2. ASSUME NEW i \in DOMAIN page.selected
          PROVE  IF p.selected[i].reason = "Dependency"
                   THEN \E a \in Ids(p.selected) :
                          p.selected[i].id \in Followed(a) /\ new[p.selected[i].id] = new[a] + 1
                   ELSE new[p.selected[i].id] = 0
      <4>1. p.selected[i] = page.selected[i] /\ page.selected[i].id \in IdsNow
        BY <2>4 DEF Ids
      <4>2. IF page.selected[i].reason = "Dependency"
              THEN \E a \in IdsNow :
                     page.selected[i].id \in Followed(a) /\ level[page.selected[i].id] = level[a] + 1
              ELSE level[page.selected[i].id] = 0
        BY <1>2 DEF Levels
      <4>3. new[page.selected[i].id] = level[page.selected[i].id]
        BY <2>8, <4>1
      <4>4. CASE page.selected[i].reason = "Dependency"
        <5>1. PICK a \in IdsNow :
                page.selected[i].id \in Followed(a) /\ level[page.selected[i].id] = level[a] + 1
          BY <4>2, <4>4
        <5>2. new[a] = level[a] /\ a \in Ids(p.selected)
          BY <2>6, <2>8
        <5> QED
          BY <4>1, <4>3, <4>4, <5>1, <5>2
      <4> QED
        BY <4>1, <4>2, <4>3, <4>4
    <3>3. from \in Ids(p.selected) /\ b \in Followed(from) /\ new[b] = new[from] + 1
      BY <1>4, <1>6, <2>6, <2>8
    <3> QED
      BY <2>2, <2>4, <3>1, <3>2, <3>3 DEF Levels
  <2>10. Queued(p, new)
    <3>1. ASSUME NEW i \in DOMAIN p.frontier
          PROVE  /\ p.frontier[i][1] \in Ids(p.selected) /\ p.frontier[i][2] = new[p.frontier[i][1]]
                 /\ p.frontier[i][2] \in Nat
                 /\ p.frontier[i][2] >= page.depth /\ p.frontier[i][2] <= page.depth + 1
      <4>1. CASE i = m + 1
        BY <1>1, <2>3, <2>5, <2>6, <2>8, <4>1
      <4>2. CASE i \in DOMAIN page.frontier
        <5>1. page.frontier[i][1] \in IdsNow /\ page.frontier[i][2] = level[page.frontier[i][1]]
          BY <1>2, <4>2 DEF Queued
        <5>2. /\ level[page.frontier[i][1]] \in Nat
              /\ level[page.frontier[i][1]] <= page.depth + 1 /\ page.frontier[i][2] >= page.depth
          BY <1>2, <1>5, <1>7, <4>2, <5>1
        <5> QED
          BY <2>5, <2>6, <2>8, <4>2, <5>1, <5>2
      <4> QED
        BY <2>5, <4>1, <4>2
    <3>2. ASSUME NEW i \in DOMAIN p.frontier, NEW j \in DOMAIN p.frontier, i < j
          PROVE  p.frontier[i][2] <= p.frontier[j][2]
      <4>1. CASE j = m + 1
        <5>1. p.frontier[j][2] = page.depth + 1
          BY <2>3, <2>5, <4>1
        <5> QED
          BY <3>1, <5>1
      <4>2. CASE i \in DOMAIN page.frontier /\ j \in DOMAIN page.frontier
        BY <1>2, <2>5, <3>2, <4>2 DEF Queued
      <4>3. CASE i = m + 1 /\ j \in DOMAIN page.frontier
        <5>1. j \in Nat /\ j <= m /\ m \in Nat
          BY <2>5, <4>3
        <5> QED
          BY <3>2, <4>3, <5>1
      <4> QED
        BY <2>5, <4>1, <4>2, <4>3
    <3>3. ASSUME NEW a \in Ids(p.selected) PROVE new[a] <= page.depth + 1 /\ new[a] \in Nat
      BY <1>1, <1>2, <1>4, <1>5, <1>7, <2>6, <2>8
    <3>4. ASSUME NEW i \in DOMAIN p.frontier, NEW a \in Ids(p.selected)
          PROVE  new[a] <= p.frontier[i][2] + 1
      <4>1. p.frontier[i][2] \in Nat /\ p.frontier[i][2] >= page.depth
        BY <3>1
      <4>2. new[a] <= page.depth + 1 /\ new[a] \in Nat
        BY <3>3
      <4> QED
        BY <1>1, <4>1, <4>2
    <3>5. from \in Ids(p.selected) /\ new[from] = page.depth /\ SetOf(p.deps) \subseteq Followed(from)
      BY <1>4, <1>6, <2>1, <2>6, <2>8
    <3> QED
      BY <1>5, <2>1, <3>1, <3>2, <3>3, <3>4, <3>5 DEF Queued
  <2>11. Explored(p, new)
    <3> SUFFICES ASSUME NEW a \in Ids(p.selected), new[a] < EffectiveDepth, NEW t \in Followed(a)
                 PROVE  \/ a \in Pending(p)
                        \/ t \in SetOf(p.deps) /\ new[a] = p.depth
                        \/ t \in p.visited /\ (t \in Ids(p.selected) => new[t] <= new[a] + 1)
      BY DEF Explored
    <3>1. Pending(page) \subseteq Pending(p) /\ b \in Pending(p)
      <4>1. \A i \in DOMAIN page.frontier : page.frontier[i][1] \in Pending(p)
        BY <2>5 DEF Pending
      <4>2. p.frontier[m + 1][1] = b /\ m + 1 \in DOMAIN p.frontier
        BY <2>3, <2>5
      <4>3. b \in Pending(p)
        BY <4>2 DEF Pending
      <4> QED
        BY <4>1, <4>3 DEF Pending
    <3>2. CASE a = b
      BY <3>1, <3>2
    <3>3. CASE a \in IdsNow
      <4>1. \/ a \in Pending(page)
            \/ t \in SetOf(page.deps) /\ level[a] = page.depth
            \/ t \in page.visited /\ (t \in IdsNow => level[t] <= level[a] + 1)
        BY <1>2, <2>8, <3>3 DEF Explored
      <4>2. CASE t = b
        <5>1. new[b] = page.depth + 1 /\ new[a] = level[a] /\ b \in p.visited
          BY <2>1, <2>8, <3>3
        <5> QED
          BY <1>1, <1>10, <2>1, <3>1, <4>1, <4>2, <5>1
      <4>3. CASE t # b
        <5>1. t \in SetOf(page.deps) => t \in SetOf(p.deps)
          BY <1>4, <2>1, <4>3
        <5>2. t \in IdsNow => new[t] = level[t]
          BY <2>8
        <5>3. new[a] = level[a]
          BY <2>8, <3>3
        <5> QED
          BY <2>1, <2>6, <3>1, <4>1, <4>3, <5>1, <5>2, <5>3
      <4> QED
        BY <4>2, <4>3
    <3> QED
      BY <2>6, <3>2, <3>3
  <2>12. Tried(p)
    <3> SUFFICES ASSUME NEW t \in p.visited, t \in stored, t \notin Ids(p.selected)
                 PROVE  p.total + Tokens(t) > request.budget
      BY DEF Tried
    <3>1. t \in page.visited /\ t \notin IdsNow
      BY <2>1, <2>6
    <3>2. page.total + Tokens(t) > request.budget
      BY <1>3, <3>1 DEF Tried
    <3>3. Tokens(t) \in Nat /\ Tokens(b) \in Nat /\ request.budget \in Nat
      BY <1>4, BlockAssumption, RequestTyped DEF Tokens, Known, World, StoredTyped
    <3> QED
      BY <1>1, <2>1, <3>2, <3>3
  <2>13. Unnoted(p.selected)
    BY <1>3, <2>2, <2>4 DEF Unnoted
  <2>14. Reconciling(p)
    BY <1>1, <1>3, <2>1, <2>13, StillExpanding
  <2>15. EdgesDone(p)
    BY <1>1, <2>1, <2>8, <2>9, <2>10, <2>11, <2>12, <2>14 DEF EdgesDone, Traversed
  <2> QED
    BY <1>10, <2>15
<1> QED
  BY <1>8, <1>9, <1>10

LEMMA FinishExpandEdges ==
  ASSUME Known, EdgesDone(page), FinishExpand
  PROVE  EdgesDone(page')
<1> DEFINE pc == IF Reconciles THEN "reconcile" ELSE "done"
           p == [page EXCEPT !.pc = pc]
<1>1. /\ page.pc = "expand" /\ page.deps = <<>> /\ page.frontier = <<>> /\ page' = p
      /\ page.selected \in Seq(Selection)
  BY DEF FinishExpand, Step, Known, Costed, Typed
<1>2. /\ p.pc = pc /\ p.selected = page.selected /\ p.deps = page.deps /\ p.frontier = page.frontier
      /\ p.depth = page.depth /\ p.visited = page.visited /\ p.total = page.total
      /\ p.pos = page.pos /\ p.adjacent = page.adjacent /\ p.drops = page.drops
      /\ p.notes = page.notes /\ p.omitted = page.omitted
  BY DEF Known, Locals
<1>3. /\ page.pos = 0 /\ page.adjacent = <<>> /\ page.notes = {} /\ Unnoted(page.selected)
      /\ Tried(page)
      /\ \E level \in [BlockId -> Nat] :
           Levels(page, level) /\ Queued(page, level) /\ Explored(page, level)
  BY <1>1 DEF EdgesDone, Traversed, Reconciling
<1>4. pc \in {"reconcile", "done"} /\ (pc = "done" <=> ~Reconciles)
  OBVIOUS
<1> HIDE DEF p, pc
<1>5. Traversed(p)
  <2>1. \A level : /\ Levels(page, level) <=> Levels(p, level)
                   /\ Queued(page, level) <=> Queued(p, level)
                   /\ Explored(page, level) <=> Explored(p, level)
    BY <1>2 DEF Levels, Queued, Explored, Pending
  <2>2. Tried(p)
    BY <1>2, <1>3 DEF Tried
  <2> QED
    BY <1>1, <1>2, <1>3, <1>4, <2>1, <2>2 DEF Traversed
<1>6. Reconciling(p)
  <2>1. SetOf(p.adjacent) = {} /\ (1..p.pos) = {} /\ p.pos <= Len(p.selected)
    BY <1>1, <1>2, <1>3 DEF SetOf
  <2>2. CASE pc = "reconcile"
    <3>1. NotesHold(p)
      BY <1>2, <1>3 DEF NotesHold
    <3> QED
      BY <1>2, <1>3, <2>1, <2>2, <3>1 DEF Reconciling
  <2>3. CASE pc = "done"
    <3>1. policy.contradicts = "off" /\ policy.derived_from # "suppress_source"
      BY <1>4, <2>3 DEF Reconciles
    <3>2. Agreed(p)
      BY <1>2, <1>3, <3>1 DEF Agreed, Unnoted
    <3> QED
      BY <1>2, <2>3, <3>2 DEF Reconciling
  <2> QED
    BY <1>4, <2>2, <2>3
<1> QED
  BY <1>1, <1>5, <1>6 DEF EdgesDone

-----------------------------------------------------------------------------
(* Reconciliation.                                                         *)

LEMMA TraversedStays ==
  ASSUME Traversed(page), page.pc \in {"reconcile", "rebuild"}, NEW p,
         p.pc \in {"reconcile", "rebuild", "done"},
         p.selected = page.selected, p.deps = page.deps, p.frontier = page.frontier,
         p.depth = page.depth, p.visited = page.visited, p.total = page.total
  PROVE  Traversed(p)
<1>1. \A level : /\ Levels(page, level) <=> Levels(p, level)
                 /\ Queued(page, level) <=> Queued(p, level)
                 /\ Explored(page, level) <=> Explored(p, level)
  BY DEF Levels, Queued, Explored, Pending
<1>2. Tried(page) => Tried(p)
  BY DEF Tried
<1> QED
  BY <1>1, <1>2 DEF Traversed

LEMMA ReadEdgesEdges ==
  ASSUME Known, EdgesDone(page), ReadEdges
  PROVE  EdgesDone(page')
<1> DEFINE id == page.selected[page.pos + 1].id
           p == [page EXCEPT !.pos = @ + 1, !.adjacent = EdgesFrom(id)]
<1>1. /\ page.pc = "reconcile" /\ page.pos < Len(page.selected) /\ page' = p
      /\ page.adjacent = <<>> /\ page.pos \in Nat /\ page.selected \in Seq(Selection)
  BY DEF ReadEdges, Step, Known, Costed, Typed
<1>2. /\ p.pos = page.pos + 1 /\ p.adjacent = EdgesFrom(id)
      /\ p.pc = page.pc /\ p.selected = page.selected /\ p.deps = page.deps
      /\ p.frontier = page.frontier /\ p.depth = page.depth /\ p.visited = page.visited
      /\ p.total = page.total /\ p.drops = page.drops /\ p.notes = page.notes
  BY DEF Known, Locals
<1> HIDE DEF p
<1>3. /\ NotesHold(page) /\ Unnoted(page.selected)
      /\ \A e \in edges \ SetOf(page.adjacent) :
           (\E i \in 1..page.pos : page.selected[i].id = e[1]) => Settled(page, e)
  BY <1>1 DEF EdgesDone, Reconciling
<1>4. page.pos + 1 \in DOMAIN page.selected /\ id \in Ids(page.selected) /\ id \in BlockId
  <2>1. page.pos + 1 \in DOMAIN page.selected
    BY <1>1
  <2> QED
    BY <1>1, <2>1, SelectedTyped DEF Ids
<1> HIDE DEF id
<1>5. {e \in edges : e[1] = id} = SetOf(EdgesFrom(id))
  BY <1>4, EdgesFromAll DEF Known, World
<1>6. \A e : Settled(page, e) <=> Settled(p, e)
  BY <1>2 DEF Settled
<1>7. ASSUME NEW e \in edges \ SetOf(p.adjacent), NEW i \in 1..p.pos, p.selected[i].id = e[1]
      PROVE  Settled(p, e)
  <2>1. e[1] # id
    BY <1>2, <1>5, <1>7
  <2>2. i # page.pos + 1
    BY <1>2, <1>7, <2>1 DEF id
  <2>3. i \in 1..page.pos
    BY <1>1, <1>2, <2>2
  <2>4. SetOf(page.adjacent) = {}
    BY <1>1 DEF SetOf
  <2> QED
    BY <1>2, <1>3, <1>6, <1>7, <2>3, <2>4
<1>8. NotesHold(p)
  BY <1>2, <1>3 DEF NotesHold
<1>9. p.pos <= Len(p.selected) /\ SetOf(p.adjacent) \subseteq {e \in edges : e[1] \in Ids(p.selected)}
  BY <1>1, <1>2, <1>4, <1>5
<1>10. Reconciling(p)
  BY <1>1, <1>2, <1>3, <1>7, <1>8, <1>9 DEF Reconciling
<1>11. Traversed(p)
  BY <1>1, <1>2, TraversedStays DEF EdgesDone
<1> QED
  BY <1>1, <1>10, <1>11 DEF EdgesDone

LEMMA SettledStays ==
  ASSUME NEW p, NEW q, p.selected = q.selected, p.drops \subseteq q.drops, p.notes \subseteq q.notes,
         NEW e, Settled(p, e)
  PROVE  Settled(q, e)
<1>1. IdsOf(p.drops) \subseteq IdsOf(q.drops) /\ IdsOf(p.notes) \subseteq IdsOf(q.notes)
  BY DEF IdsOf
<1> QED
  BY <1>1 DEF Settled

(* The first edge still to resolve has had its effect in p. *)
LEMMA NextEdgeSettled ==
  ASSUME Known, EdgesDone(page), page.pc = "reconcile", page.adjacent # <<>>,
         NEW p, p.adjacent = Tail(page.adjacent), p.pc = page.pc, p.pos = page.pos,
         p.selected = page.selected, p.deps = page.deps, p.frontier = page.frontier,
         p.depth = page.depth, p.visited = page.visited, p.total = page.total,
         page.drops \subseteq p.drops, page.notes \subseteq p.notes,
         Settled(p, Head(page.adjacent)), NotesHold(p)
  PROVE  EdgesDone(p)
<1>1. page.adjacent \in Seq(Edge)
  BY DEF Known, Costed, Typed
<1>2. SetOf(page.adjacent) = {Head(page.adjacent)} \union SetOf(p.adjacent)
  BY <1>1, HeadAndTail
<1>3. /\ Unnoted(page.selected) /\ page.pos <= Len(page.selected)
      /\ SetOf(page.adjacent) \subseteq {e \in edges : e[1] \in Ids(page.selected)}
      /\ \A e \in edges \ SetOf(page.adjacent) :
           (\E i \in 1..page.pos : page.selected[i].id = e[1]) => Settled(page, e)
  BY DEF EdgesDone, Reconciling
<1>4. ASSUME NEW e \in edges \ SetOf(p.adjacent), \E i \in 1..p.pos : p.selected[i].id = e[1]
      PROVE  Settled(p, e)
  <2>1. CASE e = Head(page.adjacent)
    BY <2>1
  <2>2. CASE e # Head(page.adjacent)
    <3>1. Settled(page, e)
      BY <1>2, <1>3, <1>4, <2>2
    <3> QED
      BY <3>1, SettledStays
  <2> QED
    BY <2>1, <2>2
<1>5. Reconciling(p)
  BY <1>2, <1>3, <1>4 DEF Reconciling
<1>6. Traversed(p)
  BY TraversedStays DEF EdgesDone
<1> QED
  BY <1>5, <1>6 DEF EdgesDone

LEMMA Keeps ==
  ASSUME NEW S, NEW r
  PROVE  S \subseteq Keep(S, r) /\ Keep(S, r) \subseteq S \union {r} /\ r.id \in IdsOf(Keep(S, r))
BY DEF Keep, IdsOf

(* When nobody deletes, the older of two selected blocks loses. *)
LEMMA OlderLoses ==
  ASSUME Known, Calm, page.pc = "reconcile", NEW e \in Edge,
         e[1] \in Ids(page.selected), e[3] \in Ids(page.selected), e[1] # e[3]
  PROVE  /\ Resolved(e[1], e[3])[1] = Older(e)
         /\ Resolved(e[1], e[3])[2] > Older(e)
         /\ Resolved(e[1], e[3]) \in {<<e[1], e[3]>>, <<e[3], e[1]>>}
<1>1. e[1] \in stored /\ e[3] \in stored
  BY DEF Known, Costed, StillStored
<1>2. e[1] \in Nat /\ e[3] \in Nat
  BY BlockAssumption DEF Edge
<1> DEFINE a == e[1]
           b == e[3]
<1>3. a >= b => Resolved(a, b) = <<b, a>> /\ Older(e) = b /\ a > b
  BY <1>1, <1>2 DEF Resolved, Older
<1>4. ~(a >= b) => Resolved(a, b) = <<a, b>> /\ Older(e) = a /\ b > a
  BY <1>1, <1>2 DEF Resolved, Older
<1> HIDE DEF a, b
<1>5. Resolved(a, b)[1] = Older(e) /\ Resolved(a, b)[2] > Older(e)
      /\ Resolved(a, b) \in {<<a, b>>, <<b, a>>}
  BY <1>3, <1>4
<1> QED
  BY <1>5 DEF a, b

LEMMA ResolveEdgeEdges ==
  ASSUME Known, Calm, EdgesDone(page), ResolveEdge
  PROVE  EdgesDone(page')
<1> DEFINE e == Head(page.adjacent)
           loser == Resolved(e[1], e[3])[1]
           winner == Resolved(e[1], e[3])[2]
           read == [page EXCEPT !.adjacent = Tail(@)]
           prefer == policy.contradicts = "prefer_newer" /\ loser \notin Pinned
           superseded == [id |-> e[3], reason |-> "SupersededByDerived"]
           contradicted == [id |-> loser, reason |-> "Contradicted"]
           note == [id |-> loser, winner |-> winner]
           p1 == [read EXCEPT !.drops = Keep(@, superseded)]
           p2 == [read EXCEPT !.drops = Keep(@, contradicted)]
           p3 == [read EXCEPT !.notes = Keep(@, note)]
<1>1. /\ page.pc = "reconcile" /\ page.adjacent # <<>> /\ page.adjacent \in Seq(Edge)
      /\ NotesHold(page)
      /\ SetOf(page.adjacent) \subseteq {x \in edges : x[1] \in Ids(page.selected)}
  BY DEF ResolveEdge, EdgesDone, Reconciling, Known, Costed, Typed
<1>2. e \in edges /\ e \in Edge /\ e[1] \in Ids(page.selected) /\ e = <<e[1], e[2], e[3]>>
  <2>1. e \in SetOf(page.adjacent) /\ e \in Edge
    BY <1>1, HeadAndTail
  <2> HIDE DEF e
  <2> QED
    BY <1>1, <2>1 DEF Edge
<1>3. \/ SuppressSource(e) /\ page' = p1
      \/ Contradiction(e) /\ prefer /\ page' = p2
      \/ Contradiction(e) /\ ~prefer /\ page' = p3
      \/ ~SuppressSource(e) /\ ~Contradiction(e) /\ page' = read
  BY DEF ResolveEdge, Step
<1>4. /\ SuppressSource(e) <=> Suppresses(page.selected, e)
      /\ Contradiction(e) <=> Opposes(page.selected, e)
      /\ Pinned = PinnedIn(page.selected)
  BY IncludedIds DEF SuppressSource, Suppresses, Contradiction, Opposes
<1>5. Contradiction(e) =>
        /\ loser = Older(e) /\ winner > loser
        /\ \/ loser = e[1] /\ winner = e[3]
           \/ loser = e[3] /\ winner = e[1]
        /\ e[2] = "contradicts" /\ e[3] \in Ids(page.selected)
  <2> SUFFICES ASSUME Contradiction(e)
               PROVE  /\ loser = Older(e) /\ winner > loser
                      /\ \/ loser = e[1] /\ winner = e[3]
                         \/ loser = e[3] /\ winner = e[1]
                      /\ e[2] = "contradicts" /\ e[3] \in Ids(page.selected)
    OBVIOUS
  <2>1. e[1] # e[3] /\ e[3] \in Ids(page.selected) /\ e[2] = "contradicts"
    BY IncludedIds DEF Contradiction
  <2> HIDE DEF e
  <2>2. /\ Resolved(e[1], e[3])[1] = Older(e) /\ Resolved(e[1], e[3])[2] > Older(e)
        /\ Resolved(e[1], e[3]) \in {<<e[1], e[3]>>, <<e[3], e[1]>>}
    BY <1>1, <1>2, <2>1, OlderLoses
  <2> QED
    BY <2>1, <2>2
<1>6. ASSUME NEW D, NEW N, page.drops \subseteq D, page.notes \subseteq N,
             NEW p, p.adjacent = Tail(page.adjacent), p.drops = D, p.notes = N, p.pc = page.pc,
             p.pos = page.pos, p.selected = page.selected, p.deps = page.deps,
             p.frontier = page.frontier, p.depth = page.depth, p.visited = page.visited,
             p.total = page.total, Settled(p, e),
             \A n \in N \ page.notes :
               n.winner > n.id /\ Opposed(n.id, n.winner) /\ n.winner \in Ids(page.selected)
      PROVE  EdgesDone(p)
  <2>1. NotesHold(p)
    BY <1>1, <1>6 DEF NotesHold
  <2> QED
    BY <1>1, <1>6, <2>1, NextEdgeSettled
<1>7. /\ superseded.id = e[3] /\ contradicted.id = loser /\ note.id = loser /\ note.winner = winner
  OBVIOUS
<1>8. /\ page.drops \subseteq Keep(page.drops, superseded)
      /\ e[3] \in IdsOf(Keep(page.drops, superseded))
      /\ page.drops \subseteq Keep(page.drops, contradicted)
      /\ loser \in IdsOf(Keep(page.drops, contradicted))
      /\ page.notes \subseteq Keep(page.notes, note) /\ loser \in IdsOf(Keep(page.notes, note))
      /\ Keep(page.notes, note) \subseteq page.notes \union {note}
  <2> HIDE DEF superseded, contradicted, note, e, loser
  <2> QED
    BY <1>7, Keeps
<1>9. CASE SuppressSource(e) /\ page' = p1
  <2>1. /\ p1.adjacent = Tail(page.adjacent) /\ p1.drops = Keep(page.drops, superseded)
        /\ p1.notes = page.notes /\ p1.pc = page.pc /\ p1.pos = page.pos
        /\ p1.selected = page.selected /\ p1.deps = page.deps /\ p1.frontier = page.frontier
        /\ p1.depth = page.depth /\ p1.visited = page.visited /\ p1.total = page.total
    BY DEF Known, Locals
  <2> HIDE DEF p1, p2, p3, read, superseded, contradicted, note, e, loser, winner
  <2>2. Settled(p1, e)
    BY <1>4, <1>8, <1>9, <2>1 DEF Settled, Suppresses, Opposes
  <2>3. EdgesDone(p1)
    BY <1>6, <1>8, <2>1, <2>2
  <2> QED
    BY <1>9, <2>3
<1>10. CASE Contradiction(e) /\ prefer /\ page' = p2
  <2>1. /\ p2.adjacent = Tail(page.adjacent) /\ p2.drops = Keep(page.drops, contradicted)
        /\ p2.notes = page.notes /\ p2.pc = page.pc /\ p2.pos = page.pos
        /\ p2.selected = page.selected /\ p2.deps = page.deps /\ p2.frontier = page.frontier
        /\ p2.depth = page.depth /\ p2.visited = page.visited /\ p2.total = page.total
    BY DEF Known, Locals
  <2> HIDE DEF p1, p2, p3, read, superseded, contradicted, note, e, loser, winner
  <2>2. Settled(p2, e)
    BY <1>4, <1>5, <1>8, <1>10, <2>1 DEF Settled, Suppresses
  <2>3. EdgesDone(p2)
    BY <1>6, <1>8, <2>1, <2>2
  <2> QED
    BY <1>10, <2>3
<1>11. CASE Contradiction(e) /\ ~prefer /\ page' = p3
  <2>1. /\ p3.adjacent = Tail(page.adjacent) /\ p3.notes = Keep(page.notes, note)
        /\ p3.drops = page.drops /\ p3.pc = page.pc /\ p3.pos = page.pos
        /\ p3.selected = page.selected /\ p3.deps = page.deps /\ p3.frontier = page.frontier
        /\ p3.depth = page.depth /\ p3.visited = page.visited /\ p3.total = page.total
    BY DEF Known, Locals
  <2> HIDE DEF p1, p2, p3, read, superseded, contradicted, note, e, loser, winner
  <2>2. Settled(p3, e)
    BY <1>4, <1>5, <1>8, <1>11, <2>1 DEF Settled, Suppresses
  <2>3. note.winner > note.id /\ Opposed(note.id, note.winner) /\ note.winner \in Ids(page.selected)
    <3>1. Opposed(loser, winner)
      <4>1. e[2] = "contradicts"
        BY <1>5, <1>11
      <4>2. <<e[1], "contradicts", e[3]>> \in edges
        BY <1>2, <4>1
      <4> QED
        BY <1>5, <1>11, <4>2 DEF Opposed
    <3> QED
      BY <1>2, <1>5, <1>7, <1>11, <3>1
  <2>4. \A n \in p3.notes \ page.notes :
          n.winner > n.id /\ Opposed(n.id, n.winner) /\ n.winner \in Ids(page.selected)
    BY <1>8, <2>1, <2>3
  <2>5. EdgesDone(p3)
    BY <1>6, <1>8, <2>1, <2>2, <2>4
  <2> QED
    BY <1>11, <2>5
<1>12. CASE ~SuppressSource(e) /\ ~Contradiction(e) /\ page' = read
  <2>1. /\ read.adjacent = Tail(page.adjacent) /\ read.drops = page.drops
        /\ read.notes = page.notes /\ read.pc = page.pc /\ read.pos = page.pos
        /\ read.selected = page.selected /\ read.deps = page.deps /\ read.frontier = page.frontier
        /\ read.depth = page.depth /\ read.visited = page.visited /\ read.total = page.total
    BY DEF Known, Locals
  <2> HIDE DEF p1, p2, p3, read, superseded, contradicted, note, e, loser, winner
  <2>2. Settled(read, e)
    BY <1>4, <1>12, <2>1 DEF Settled
  <2>3. EdgesDone(read)
    BY <1>6, <2>1, <2>2
  <2> QED
    BY <1>12, <2>3
<1> QED
  BY <1>3, <1>9, <1>10, <1>11, <1>12

(* Once every selected block's edges are read and resolved. *)
LEMMA AllSettled ==
  ASSUME Known, EdgesDone(page), page.pc = "reconcile", page.adjacent = <<>>,
         page.pos = Len(page.selected), NEW e \in edges, e[1] \in Ids(page.selected)
  PROVE  Settled(page, e)
<1>1. page.selected \in Seq(Selection)
  BY DEF Known, Costed, Typed
<1>2. PICK i \in DOMAIN page.selected : page.selected[i].id = e[1]
  BY DEF Ids
<1>3. i \in 1..page.pos /\ e \notin SetOf(page.adjacent)
  BY <1>1, <1>2 DEF SetOf
<1> QED
  BY <1>2, <1>3 DEF EdgesDone, Reconciling

(* The edge between two blocks that contradict each other. *)
LEMMA OpposedEdge ==
  ASSUME NEW S, NEW a \in S, NEW b \in S, S \subseteq BlockId, Opposed(a, b), a < b
  PROVE  \E e \in edges : /\ e[2] = "contradicts" /\ e[1] # e[3] /\ Older(e) = a
                          /\ e[1] \in S /\ e[3] \in S
<1>1. a \in Nat /\ b \in Nat
  BY BlockAssumption
<1>2. <<a, "contradicts", b>> \in edges \/ <<b, "contradicts", a>> \in edges
  BY DEF Opposed
<1>3. CASE <<a, "contradicts", b>> \in edges
  <2> DEFINE e == <<a, "contradicts", b>>
  <2>1. e[1] = a /\ e[2] = "contradicts" /\ e[3] = b /\ e \in edges
    BY <1>3
  <2> HIDE DEF e
  <2>2. Older(e) = a /\ e[1] # e[3]
    BY <1>1, <2>1 DEF Older
  <2> QED
    BY <2>1, <2>2
<1>4. CASE <<b, "contradicts", a>> \in edges
  <2> DEFINE e == <<b, "contradicts", a>>
  <2>1. e[1] = b /\ e[2] = "contradicts" /\ e[3] = a /\ e \in edges
    BY <1>4
  <2> HIDE DEF e
  <2>2. Older(e) = a /\ e[1] # e[3]
    BY <1>1, <2>1 DEF Older
  <2> QED
    BY <2>1, <2>2
<1> QED
  BY <1>2, <1>3, <1>4

LEMMA FinishReconcileEdges ==
  ASSUME Known, EdgesDone(page), FinishReconcile
  PROVE  EdgesDone(page')
<1> DEFINE p == [page EXCEPT !.pc = "done"]
           q == [page EXCEPT !.pc = "rebuild", !.pos = 0]
<1>1. /\ page.pc = "reconcile" /\ page.adjacent = <<>> /\ page.pos = Len(page.selected)
      /\ (page' = p /\ page.drops = {} /\ page.notes = {}) \/ page' = q
      /\ page.selected \in Seq(Selection)
  BY DEF FinishReconcile, Step, Known, Costed, Typed
<1>2. p.pc = "done" /\ p.selected = page.selected
  BY DEF Known, Locals
<1>3. /\ q.pc = "rebuild" /\ q.pos = 0
      /\ q.selected = page.selected /\ q.deps = page.deps /\ q.frontier = page.frontier
      /\ q.depth = page.depth /\ q.visited = page.visited /\ q.total = page.total
      /\ q.drops = page.drops /\ q.notes = page.notes /\ q.rebuilt = page.rebuilt
  BY DEF Known, Locals
<1> HIDE DEF p, q
<1>4. NotesHold(page) /\ Unnoted(page.selected)
  BY <1>1 DEF EdgesDone, Reconciling
<1>5. \A e \in edges : e[1] \in Ids(page.selected) => Settled(page, e)
  BY <1>1, AllSettled
<1>6. ASSUME page.drops = {}, page.notes = {} PROVE EdgesDone(p)
  <2> DEFINE seq == page.selected
  <2>1. IdsOf(page.drops) = {} /\ IdsOf(page.notes) = {}
    BY <1>6 DEF IdsOf
  <2>2. ASSUME policy.contradicts # "off", NEW i \in DOMAIN seq, NEW j \in DOMAIN seq,
               Opposed(seq[i].id, seq[j].id), seq[i].id < seq[j].id
        PROVE  FALSE
    <3>1. seq[i].id \in Ids(seq) /\ seq[j].id \in Ids(seq) /\ Ids(seq) \subseteq BlockId
      BY <1>1, IdsTyped DEF Ids
    <3>2. PICK e \in edges : e[2] = "contradicts" /\ e[1] # e[3] /\ e[1] \in Ids(seq) /\ e[3] \in Ids(seq)
      BY <2>2, <3>1, OpposedEdge
    <3> QED
      BY <1>5, <2>1, <2>2, <3>2 DEF Settled, Opposes
  <2>3. ASSUME policy.derived_from = "suppress_source", NEW e \in edges, e[2] = "derived_from",
               e[1] # e[3], e[1] \in Ids(seq), e[3] \in Ids(seq)
        PROVE  e[3] \in PinnedIn(seq)
    BY <1>5, <2>1, <2>3 DEF Settled, Suppresses
  <2>4. Agreed(p)
    BY <1>2, <1>4, <2>2, <2>3 DEF Agreed, Unnoted
  <2> QED
    BY <1>2, <2>4 DEF EdgesDone, Traversed, Reconciling
<1>7. EdgesDone(q)
  <2>1. Traversed(q)
    BY <1>1, <1>3, TraversedStays DEF EdgesDone
  <2>2. \A e : Settled(page, e) <=> Settled(q, e)
    BY <1>3 DEF Settled
  <2>3. Kept(q)
    <3>1. page.rebuilt = <<>>
      BY <1>1 DEF Known, Sound, WellFormed
    <3>2. DOMAIN q.rebuilt = {} /\ 1..q.pos = {}
      BY <1>3, <3>1
    <3> QED
      BY <3>2 DEF Kept
  <2>4. NotesHold(q)
    BY <1>3, <1>4 DEF NotesHold
  <2> QED
    BY <1>3, <1>4, <1>5, <2>1, <2>2, <2>3, <2>4 DEF EdgesDone, Reconciling
<1> QED
  BY <1>1, <1>6, <1>7

LEMMA RebuildEdges ==
  ASSUME Known, EdgesDone(page), Rebuild
  PROVE  EdgesDone(page')
<1> DEFINE sel == page.selected[page.pos + 1]
           reasons == {d \in page.drops : d.id = sel.id}
           noted == {n.winner : n \in {m \in page.notes : m.id = sel.id}}
           on == [page EXCEPT !.pos = @ + 1]
           dropped(d) == [Omit(on, d.id, d.reason) EXCEPT
                            !.estimated = IF d.id \in stored THEN Monus(@, Tokens(d.id)) ELSE @]
           kept(x) == [on EXCEPT !.rebuilt = Append(@, x)]
<1>1. /\ page.pc = "rebuild" /\ page.pos < Len(page.selected) /\ page.pos \in Nat
      /\ page.selected \in Seq(Selection) /\ page.rebuilt \in Seq(Selection)
      /\ page.notes \subseteq NoteRecord
  BY DEF Rebuild, Known, Costed, Typed
<1>2. \/ \E d \in reasons : page' = dropped(d)
      \/ reasons = {} /\ noted = {} /\ page' = kept(sel)
      \/ \E w \in noted : reasons = {} /\ page' = kept([sel EXCEPT !.note = w])
  BY DEF Rebuild, Step
<1>3. /\ NotesHold(page) /\ Unnoted(page.selected) /\ Kept(page) /\ Traversed(page)
      /\ \A e \in edges : e[1] \in Ids(page.selected) => Settled(page, e)
  BY <1>1 DEF EdgesDone, Reconciling
<1>4. page.pos + 1 \in DOMAIN page.selected /\ sel \in Selection /\ sel.note = None
  <2>1. page.pos + 1 \in DOMAIN page.selected
    BY <1>1
  <2> QED
    BY <1>1, <1>3, <2>1 DEF Unnoted
<1>5. (reasons = {} <=> sel.id \notin IdsOf(page.drops)) /\ (noted = {} <=> sel.id \notin IdsOf(page.notes))
  BY DEF IdsOf
<1>6. \A w \in noted : \E n \in page.notes : n.id = sel.id /\ n.winner = w
  OBVIOUS
(* What both ways share. *)
<1>7. ASSUME NEW p, p.selected = page.selected, p.pos = page.pos + 1, p.total = page.total,
             p.pc = page.pc, p.deps = page.deps, p.frontier = page.frontier, p.depth = page.depth,
             p.visited = page.visited, p.drops = page.drops, p.notes = page.notes, Kept(p)
      PROVE  EdgesDone(p)
  <2>1. Traversed(p)
    BY <1>1, <1>3, <1>7, TraversedStays
  <2>2. \A e : Settled(page, e) <=> Settled(p, e)
    BY <1>7 DEF Settled
  <2>3. NotesHold(p)
    BY <1>3, <1>7 DEF NotesHold
  <2> QED
    BY <1>1, <1>3, <1>7, <2>1, <2>2, <2>3 DEF EdgesDone, Reconciling
<1> HIDE DEF sel
<1>8. \A i \in 1..(page.pos + 1) : i \in 1..page.pos \/ i = page.pos + 1
  BY <1>1
<1>9. ASSUME NEW d \in reasons, page' = dropped(d) PROVE EdgesDone(page')
  <2> DEFINE p == dropped(d)
  <2>1. /\ p.pos = page.pos + 1 /\ p.rebuilt = page.rebuilt
        /\ p.selected = page.selected /\ p.deps = page.deps /\ p.frontier = page.frontier
        /\ p.depth = page.depth /\ p.visited = page.visited /\ p.total = page.total
        /\ p.drops = page.drops /\ p.notes = page.notes /\ p.pc = page.pc
    BY DEF Known, Locals, Omit
  <2>2. sel.id \in IdsOf(page.drops)
    BY <1>5
  <2> HIDE DEF p, dropped, kept, on, reasons, noted
  <2>3. Kept(p)
    BY <1>3, <1>8, <2>1, <2>2 DEF Kept, sel
  <2>4. EdgesDone(p)
    BY <1>7, <2>1, <2>3
  <2> QED
    BY <1>9, <2>4 DEF p
<1>10. ASSUME NEW x \in Selection, page' = kept(x), x.id = sel.id, x.reason = sel.reason,
              sel.id \notin IdsOf(page.drops),
              sel.id \in IdsOf(page.notes) => x.note # None,
              x.note # None => \E n \in page.notes : n.id = sel.id /\ n.winner = x.note
       PROVE  EdgesDone(page')
  <2> DEFINE p == kept(x)
             n == Len(page.rebuilt)
  <2>1. /\ p.pos = page.pos + 1 /\ p.rebuilt = Append(page.rebuilt, x)
        /\ p.selected = page.selected /\ p.deps = page.deps /\ p.frontier = page.frontier
        /\ p.depth = page.depth /\ p.visited = page.visited /\ p.total = page.total
        /\ p.drops = page.drops /\ p.notes = page.notes /\ p.pc = page.pc
    BY DEF Known, Locals
  <2> HIDE DEF p, dropped, kept, on, reasons, noted
  <2>2. /\ DOMAIN p.rebuilt = DOMAIN page.rebuilt \union {n + 1}
        /\ \A k \in DOMAIN page.rebuilt : p.rebuilt[k] = page.rebuilt[k]
        /\ p.rebuilt[n + 1] = x
    BY <1>1, <2>1, AppendSelection
  <2> HIDE DEF n
  <2>3. ASSUME NEW k \in DOMAIN p.rebuilt
        PROVE  /\ p.rebuilt[k].id \notin IdsOf(p.drops)
               /\ p.rebuilt[k].id \in IdsOf(p.notes) => p.rebuilt[k].note # None
               /\ p.rebuilt[k].note # None =>
                    \E m \in p.notes : m.id = p.rebuilt[k].id /\ m.winner = p.rebuilt[k].note
    <3>1. CASE k \in DOMAIN page.rebuilt
      BY <1>3, <2>1, <2>2, <3>1 DEF Kept
    <3>2. CASE k = n + 1
      BY <1>10, <2>1, <2>2, <3>2
    <3> QED
      BY <2>2, <3>1, <3>2
  <2>4. ASSUME NEW i \in 1..p.pos, p.selected[i].id \notin IdsOf(p.drops)
        PROVE  \E k \in DOMAIN p.rebuilt :
                 p.rebuilt[k].id = p.selected[i].id /\ p.rebuilt[k].reason = p.selected[i].reason
    <3>1. CASE i \in 1..page.pos
      <4>1. PICK k \in DOMAIN page.rebuilt :
              /\ page.rebuilt[k].id = page.selected[i].id
              /\ page.rebuilt[k].reason = page.selected[i].reason
        BY <1>3, <2>1, <2>4, <3>1 DEF Kept
      <4> QED
        BY <2>1, <2>2, <4>1
    <3>2. CASE i = page.pos + 1
      <4>1. p.selected[i] = sel
        BY <2>1, <3>2 DEF sel
      <4> QED
        BY <1>10, <2>2, <4>1
    <3> QED
      BY <1>8, <2>1, <3>1, <3>2
  <2>5. Kept(p)
    BY <2>3, <2>4 DEF Kept
  <2>6. EdgesDone(p)
    BY <1>7, <2>1, <2>5
  <2> QED
    BY <1>10, <2>6 DEF p
<1>11. ASSUME reasons = {}, noted = {}, page' = kept(sel) PROVE EdgesDone(page')
  <2> HIDE DEF kept, dropped, on, reasons, noted
  <2> QED
    BY <1>4, <1>5, <1>10, <1>11
<1>12. ASSUME NEW w \in noted, reasons = {}, page' = kept([sel EXCEPT !.note = w])
       PROVE  EdgesDone(page')
  <2> DEFINE x == [sel EXCEPT !.note = w]
  <2>1. w \in BlockId /\ w # None
    BY <1>1, BlockAssumption DEF NoteRecord
  <2>2. x \in Selection /\ x.id = sel.id /\ x.reason = sel.reason /\ x.note = w
    BY <1>4, <2>1 DEF Selection
  <2>3. page' = kept(x)
    BY <1>12
  <2> HIDE DEF kept, dropped, on, reasons, noted, x
  <2> QED
    BY <1>5, <1>6, <1>10, <1>12, <2>1, <2>2, <2>3
<1> HIDE DEF kept, dropped, on, reasons, noted
<1> QED
  BY <1>2, <1>9, <1>11, <1>12

LEMMA FinishRebuildEdges ==
  ASSUME Known, EdgesDone(page), FinishRebuild
  PROVE  EdgesDone(page')
<1> DEFINE p == [page EXCEPT !.pc = "done", !.selected = page.rebuilt]
           seq == page.rebuilt
<1>1. /\ page.pc = "rebuild" /\ page.pos = Len(page.selected) /\ page' = p
      /\ page.selected \in Seq(Selection)
  BY DEF FinishRebuild, Step, Known, Costed, Typed
<1>2. p.pc = "done" /\ p.selected = seq /\ p.omitted = page.omitted
  BY DEF Known, Locals
<1> HIDE DEF p
<1>3. /\ NotesHold(page) /\ Kept(page)
      /\ \A e \in edges : e[1] \in Ids(page.selected) => Settled(page, e)
  BY <1>1 DEF EdgesDone, Reconciling
<1>4. DOMAIN page.selected = 1..page.pos
  BY <1>1
<1>5. Ids(seq) \subseteq Ids(page.selected) /\ Ids(page.selected) \subseteq BlockId
  <2>1. \A k \in DOMAIN seq : \E i \in 1..page.pos : seq[k].id = page.selected[i].id
    BY <1>1 DEF Known, Sound, Rebuilding
  <2>2. Ids(page.selected) \subseteq BlockId
    BY <1>1, IdsTyped
  <2> QED
    BY <1>4, <2>1, <2>2 DEF Ids
<1>6. \A b \in Ids(seq) : b \notin IdsOf(page.drops)
  BY <1>3 DEF Kept, Ids
<1>7. \A b \in Ids(seq) : b \in PinnedIn(page.selected) => b \in PinnedIn(seq)
  <2> SUFFICES ASSUME NEW b \in Ids(seq), b \in PinnedIn(page.selected) PROVE b \in PinnedIn(seq)
    OBVIOUS
  <2>1. PICK i \in DOMAIN page.selected : page.selected[i].reason = "Pinned" /\ page.selected[i].id = b
    BY DEF PinnedIn
  <2>2. PICK k \in DOMAIN seq : seq[k].id = b /\ seq[k].reason = "Pinned"
    BY <1>3, <1>4, <1>6, <2>1 DEF Kept
  <2> QED
    BY <2>2 DEF PinnedIn
<1>8. ASSUME policy.contradicts # "off", NEW i \in DOMAIN seq, NEW j \in DOMAIN seq,
             Opposed(seq[i].id, seq[j].id), seq[i].id < seq[j].id
      PROVE  /\ seq[i].note # None
             /\ policy.contradicts = "prefer_newer" => seq[i].id \in PinnedIn(seq)
  <2> DEFINE a == seq[i].id
             b == seq[j].id
  <2>1. a \in Ids(seq) /\ b \in Ids(seq) /\ Opposed(a, b) /\ a < b
    BY <1>8 DEF Ids
  <2> HIDE DEF a, b
  <2>2. PICK e \in edges : /\ e[2] = "contradicts" /\ e[1] # e[3] /\ Older(e) = a
                           /\ e[1] \in Ids(seq) /\ e[3] \in Ids(seq)
    BY <1>5, <2>1, OpposedEdge
  <2>3. Settled(page, e) /\ Opposes(page.selected, e)
    BY <1>3, <1>5, <1>8, <2>2 DEF Opposes
  <2>4. a \in IdsOf(page.notes) /\ (policy.contradicts = "prefer_newer" => a \in PinnedIn(page.selected))
    BY <1>6, <2>1, <2>2, <2>3 DEF Settled
  <2>5. seq[i].note # None
    BY <1>3, <2>4 DEF Kept, a
  <2> QED
    BY <1>7, <2>1, <2>4, <2>5 DEF a
<1>9. ASSUME NEW i \in DOMAIN seq, seq[i].note # None
      PROVE  /\ seq[i].note > seq[i].id /\ Opposed(seq[i].id, seq[i].note)
             /\ \/ seq[i].note \in Ids(seq)
                \/ \E o \in page.omitted : o.id = seq[i].note /\ o.reason \in DropReasons
  <2>1. PICK n \in page.notes : n.id = seq[i].id /\ n.winner = seq[i].note
    BY <1>3, <1>9 DEF Kept
  <2>2. seq[i].note > seq[i].id /\ Opposed(seq[i].id, seq[i].note) /\ seq[i].note \in Ids(page.selected)
    BY <1>3, <2>1 DEF NotesHold
  <2>3. PICK m \in DOMAIN page.selected : page.selected[m].id = seq[i].note
    BY <2>2 DEF Ids
  <2>4. \/ page.selected[m].id \in Ids(seq)
        \/ \E o \in page.omitted : o.id = page.selected[m].id /\ o.reason \in DropReasons
    BY <1>1, <1>4 DEF Known, Sound, Rebuilding
  <2> QED
    BY <2>2, <2>3, <2>4
<1>10. ASSUME policy.derived_from = "suppress_source", NEW e \in edges, e[2] = "derived_from",
              e[1] # e[3], e[1] \in Ids(seq), e[3] \in Ids(seq)
       PROVE  e[3] \in PinnedIn(seq)
  <2>1. Settled(page, e)
    BY <1>3, <1>5, <1>10
  <2>2. e[3] \in PinnedIn(page.selected)
    BY <1>5, <1>6, <1>10, <2>1 DEF Settled, Suppresses
  <2> QED
    BY <1>7, <1>10, <2>2
<1>11. Agreed(p)
  BY <1>2, <1>8, <1>9, <1>10 DEF Agreed
<1> QED
  BY <1>1, <1>2, <1>11 DEF EdgesDone, Traversed, Reconciling

-----------------------------------------------------------------------------

EdgesInv == CostInv /\ (Calm => EdgesDone(page))

LEMMA EdgesInitInv == Init => EdgesInv
<1> SUFFICES ASSUME Init PROVE EdgesInv
  OBVIOUS
<1>1. page = Start
  BY DEF Init
<1> QED
  BY <1>1, CostInitInv, StartEdgesDone DEF EdgesInv

(* What is followed depends on the edges and the policy alone. *)
LEMMA FollowedSame ==
  ASSUME UNCHANGED <<edges, request>>
  PROVE  /\ \A b : Followed(b)' = Followed(b)
         /\ EffectiveDepth' = EffectiveDepth
         /\ \A a, b : Opposed(a, b)' <=> Opposed(a, b)
<1>1. policy' = policy
  BY DEF policy
<1>2. EffectiveDepth' = EffectiveDepth
  BY <1>1 DEF EffectiveDepth
<1>3. \A S : Newest(S)' = Newest(S)
  BY <1>1 DEF Newest
<1>4. \A k : Pulls(k)' = Pulls(k)
  BY <1>1 DEF Pulls
<1>5. \A b, k : Outgoing(b, k)' = Outgoing(b, k)
  BY <1>3, <1>4 DEF Outgoing
<1>6. \A b : Children(b)' = Children(b)
  BY <1>1, <1>3 DEF Children
<1>7. \A b : Lineage(b)' = Lineage(b)
  BY <1>1 DEF Lineage
<1>8. \A b : Followed(b)' = Followed(b)
  BY <1>5, <1>6, <1>7 DEF Followed
<1>9. \A a, b : Opposed(a, b)' <=> Opposed(a, b)
  BY DEF Opposed
<1> QED
  BY <1>2, <1>8, <1>9

LEMMA EdgesNextInv ==
  ASSUME EdgesInv, [Next]_vars
  PROVE  EdgesInv'
<1>1. CostInv'
  BY CostNextInv DEF EdgesInv
<1>2. Known
  BY DEF EdgesInv, CostInv, Known, World, PlanInv, Sound, WellFormed
<1>3. ASSUME UNCHANGED <<stored, edges, request>>, EdgesDone(page') PROVE EdgesDone(page)'
  <2>1. /\ \A b : Followed(b)' = Followed(b)
        /\ EffectiveDepth' = EffectiveDepth
        /\ \A a, b : Opposed(a, b)' <=> Opposed(a, b)
        /\ policy' = policy
    BY <1>3, FollowedSame DEF policy
  <2>2. \A level : /\ Levels(page, level)' <=> Levels(page', level)
                   /\ Queued(page, level)' <=> Queued(page', level)
                   /\ Explored(page, level)' <=> Explored(page', level)
    BY <2>1 DEF Levels, Queued, Explored
  <2>3. Tried(page)' <=> Tried(page')
    BY <1>3 DEF Tried
  <2>4. Traversed(page)'
    BY <1>3, <2>2, <2>3 DEF EdgesDone, Traversed
  <2>5. \A e : Settled(page, e)' <=> Settled(page', e)
    BY <2>1 DEF Settled, Suppresses, Opposes
  <2>6. NotesHold(page)' <=> NotesHold(page')
    BY <2>1 DEF NotesHold
  <2>7. Agreed(page)' <=> Agreed(page')
    BY <1>3, <2>1 DEF Agreed
  <2>8. Reconciling(page)'
    BY <1>3, <2>1, <2>5, <2>6, <2>7 DEF EdgesDone, Reconciling
  <2> QED
    BY <2>4, <2>8 DEF EdgesDone
<1>4. CASE PageStep
  <2>1. UNCHANGED <<stored, edges, request>>
    BY <1>4
    DEF PageStep, ResolveRequired, Retrieve, LoadCandidate, StartSystem, FillSystem, Allocate,
        NextSection, SkipRedundant, TakeCandidate, OmitCandidate, Substitute, FinishFill,
        PopFrontier, PullDependency, FinishExpand, ReadEdges, ResolveEdge, FinishReconcile,
        Rebuild, FinishRebuild, Step, world
  <2>2. ASSUME Calm PROVE EdgesDone(page')
    <3>1. EdgesDone(page)
      BY <2>2 DEF EdgesInv
    <3>2. ASSUME NEW b \in page.cands,
                 \/ SkipRedundant(b) \/ TakeCandidate(b) \/ OmitCandidate(b)
                 \/ \E s \in BlockId : Substitute(b, s)
          PROVE  Chooses(page')
      BY <1>2, <3>2, FillChooses DEF FillsWith
    <3> QED
      BY <1>2, <1>4, <2>2, <3>1, <3>2, RequiredChooses, SystemChooses, ChoosesEdgesDone,
         FinishFillEdges, PopFrontierEdges, PullDependencyEdges, FinishExpandEdges, ReadEdgesEdges,
         ResolveEdgeEdges, FinishReconcileEdges, RebuildEdges, FinishRebuildEdges
      DEF PageStep
  <2>3. Calm' => Calm
    BY <2>1 DEF Calm
  <2> QED
    BY <1>1, <1>3, <2>1, <2>2, <2>3 DEF EdgesInv
<1>5. CASE Fail
  <2>1. page' = Failed /\ UNCHANGED <<stored, edges, request>>
    BY <1>5 DEF Fail, Step, world
  <2> QED
    BY <1>1, <1>3, <2>1, StartEdgesDone DEF EdgesInv
<1>6. CASE OtherPut \/ OtherDelete \/ OtherPutEdge
  <2>1. UNCHANGED request /\ ~Calm
    BY <1>6 DEF OtherPut, OtherDelete, OtherPutEdge, Calm
  <2>2. ~Calm'
    BY <2>1 DEF Calm
  <2> QED
    BY <1>1, <2>2 DEF EdgesInv
<1>7. CASE UNCHANGED vars
  <2>1. UNCHANGED <<stored, edges, request, page>>
    BY <1>7 DEF vars, world
  <2>2. Calm' => Calm
    BY <2>1 DEF Calm
  <2> QED
    BY <1>1, <1>3, <2>1, <2>2 DEF EdgesInv
<1> QED
  BY <1>4, <1>5, <1>6, <1>7 DEF Next

(***************************************************************************)
(* In a store nobody changes: EdgesDone holds at every step of the call.   *)
(***************************************************************************)
THEOREM EdgesInvariant == Spec => []EdgesInv
BY EdgesInitInv, EdgesNextInv, PTL DEF Spec

-----------------------------------------------------------------------------
(* What can be reached in n followed edges.                                *)

LEMMA SeedsAre ==
  Seeds = {page.selected[i].id : i \in {j \in DOMAIN page.selected : page.selected[j].reason # "Dependency"}}
BY DEF Seeds, SetOf

LEMMA ReachSteps ==
  ASSUME World, page.selected \in Seq(Selection)
  PROVE  /\ \A n \in 0..MAX_DEPTH_CEILING : Reach[n] \subseteq BlockId
         /\ Reach[0] = Seeds
         /\ \A n \in 1..MAX_DEPTH_CEILING :
              Reach[n] = Reach[n - 1] \union UNION {Followed(b) : b \in Reach[n - 1] \intersect Included}
<1> DEFINE m == MAX_DEPTH_CEILING
           V == SUBSET BlockId
           step == [n \in 1..m |-> [S \in V |-> S \union UNION {Followed(b) : b \in S \intersect Included}]]
           Is(f) == f = [n \in 0..m |->
                           IF n = 0 THEN Seeds
                           ELSE f[n - 1] \union UNION {Followed(b) : b \in f[n - 1] \intersect Included}]
<1>1. m \in Nat /\ Seeds \in V
  <2>1. Ids(page.selected) \subseteq BlockId
    BY IdsTyped
  <2> QED
    BY <2>1, SeedsAre DEF MAX_DEPTH_CEILING, Ids
<1>2. \A S \in V : S \union UNION {Followed(b) : b \in S \intersect Included} \in V
  BY FollowedBlocks
<1> HIDE DEF m, V
<1>3. /\ step \in [1..m -> [V -> V]]
      /\ \A n \in 1..m : \A S \in V :
           step[n][S] = S \union UNION {Followed(b) : b \in S \intersect Included}
  BY <1>2
<1> HIDE DEF step
<1>4. PICK f \in [0..m -> V] : Recursive(f, m, Seeds, step)
  BY <1>1, <1>3, RecursionExists
<1>5. Is(f)
  <2>1. f = [n \in 0..m |-> f[n]]
    OBVIOUS
  <2>2. ASSUME NEW n \in 0..m
        PROVE  f[n] = IF n = 0 THEN Seeds
                      ELSE f[n - 1] \union UNION {Followed(b) : b \in f[n - 1] \intersect Included}
    <3>1. CASE n = 0
      BY <1>4, <3>1 DEF Recursive
    <3>2. CASE n # 0
      <4>1. n \in 1..m /\ n - 1 \in 0..m /\ f[n - 1] \in V
        BY <1>1, <3>2
      <4>2. f[n] = step[n][f[n - 1]]
        BY <1>4, <4>1 DEF Recursive
      <4> QED
        BY <1>3, <3>2, <4>1, <4>2
    <3> QED
      BY <3>1, <3>2
  <2> QED
    BY <2>1, <2>2
<1>6. Reach = CHOOSE h : Is(h)
  BY DEF Reach, m
<1>7. Is(Reach)
  <2> DEFINE r == CHOOSE h : Is(h)
  <2>1. Is(r)
    BY <1>5
  <2> HIDE DEF Is
  <2> QED
    BY <1>6, <2>1
<1>8. Reach[0] = Seeds
  <2>1. 0 \in 0..m
    BY <1>1
  <2> QED
    BY <1>7, <2>1
<1>9. \A n \in 1..m :
        Reach[n] = Reach[n - 1] \union UNION {Followed(b) : b \in Reach[n - 1] \intersect Included}
  <2> SUFFICES ASSUME NEW n \in 1..m
               PROVE  Reach[n] = Reach[n - 1] \union UNION {Followed(b) : b \in Reach[n - 1] \intersect Included}
    OBVIOUS
  <2>1. n \in 0..m /\ n # 0
    BY <1>1
  <2> QED
    BY <1>7, <2>1
<1> HIDE DEF Is
<1>10. \A n \in 0..m : Reach[n] \in V
  <2>1. Reach[0] \in V
    BY <1>1, <1>8
  <2>2. \A n \in 1..m : Reach[n - 1] \in V => Reach[n] \in V
    BY <1>2, <1>9
  <2> QED
    BY <1>1, <2>1, <2>2, RecursionStays
<1> QED
  BY <1>8, <1>9, <1>10 DEF m, V

(* A block of level n is reached in n followed edges. *)
LEMMA LevelReached ==
  ASSUME World, page.selected \in Seq(Selection), NEW level \in [BlockId -> Nat], Levels(page, level)
  PROVE  \A n \in 0..MAX_DEPTH_CEILING : \A b \in Ids(page.selected) : level[b] <= n => b \in Reach[n]
<1> DEFINE m == MAX_DEPTH_CEILING
           IdsNow == Ids(page.selected)
           S == {n \in 0..m : \A b \in IdsNow : level[b] <= n => b \in Reach[n]}
<1>1. /\ Reach[0] = Seeds
      /\ \A n \in 1..m :
           Reach[n] = Reach[n - 1] \union UNION {Followed(b) : b \in Reach[n - 1] \intersect IdsNow}
  BY ReachSteps, IncludedIds
<1>2. IdsNow \subseteq BlockId /\ m \in Nat
  BY IdsTyped DEF MAX_DEPTH_CEILING
<1>3. \A b \in IdsNow : b \in Seeds \/ \E a \in IdsNow : b \in Followed(a) /\ level[b] = level[a] + 1
  <2> SUFFICES ASSUME NEW b \in IdsNow
               PROVE  b \in Seeds \/ \E a \in IdsNow : b \in Followed(a) /\ level[b] = level[a] + 1
    OBVIOUS
  <2>1. PICK i \in DOMAIN page.selected : page.selected[i].id = b
    BY DEF Ids
  <2>2. CASE page.selected[i].reason = "Dependency"
    BY <2>1, <2>2 DEF Levels
  <2>3. CASE page.selected[i].reason # "Dependency"
    BY <2>1, <2>3, SeedsAre
  <2> QED
    BY <2>2, <2>3
<1> HIDE DEF m, IdsNow
<1>4. 0 \in S
  <2>1. ASSUME NEW b \in IdsNow, level[b] <= 0 PROVE b \in Reach[0]
    <3>1. \A a \in IdsNow : level[a] \in Nat
      BY <1>2
    <3>2. ~ \E a \in IdsNow : level[b] = level[a] + 1
      BY <2>1, <3>1
    <3> QED
      BY <1>1, <1>3, <3>2
  <2> QED
    BY <1>2, <2>1
<1>5. ASSUME NEW n \in 1..m, n - 1 \in S PROVE n \in S
  <2>1. Reach[n] = Reach[n - 1] \union UNION {Followed(b) : b \in Reach[n - 1] \intersect IdsNow}
    BY <1>1
  <2>2. \A b \in IdsNow : level[b] <= n - 1 => b \in Reach[n - 1]
    BY <1>5
  <2>3. ASSUME NEW b \in IdsNow, level[b] <= n PROVE b \in Reach[n]
    <3>1. CASE level[b] <= n - 1
      BY <2>1, <2>2, <3>1
    <3>2. CASE b \in Seeds
      <4>1. Seeds \subseteq Reach[n - 1]
        <5>1. \A x \in Seeds : x \in IdsNow /\ level[x] = 0
          BY SeedsAre DEF Levels, IdsNow, Ids
        <5>2. 0 <= n - 1
          OBVIOUS
        <5> QED
          BY <2>2, <5>1, <5>2
      <4> QED
        BY <2>1, <3>2, <4>1
    <3>3. ASSUME NEW a \in IdsNow, b \in Followed(a), level[b] = level[a] + 1 PROVE b \in Reach[n]
      <4>1. level[a] <= n - 1
        <5>1. level[a] \in Nat /\ level[b] \in Nat
          BY <1>2
        <5> QED
          BY <2>3, <3>3, <5>1
      <4>2. a \in Reach[n - 1]
        BY <2>2, <4>1
      <4> QED
        BY <2>1, <3>3, <4>2
    <3> QED
      BY <1>3, <3>2, <3>3
  <2>4. n \in 0..m
    BY <1>2
  <2> QED
    BY <2>3, <2>4
<1> HIDE DEF S
<1>6. \A n \in 0..m : n \in S
  BY <1>2, <1>4, <1>5, InductionUpTo
<1> QED
  BY <1>6 DEF S, m, IdsNow

(* Once expansion is done, what n followed edges reach has a level of at   *)
(* most n.                                                                 *)
LEMMA ReachedLevel ==
  ASSUME World, page.selected \in Seq(Selection), NEW level \in [BlockId -> Nat],
         Levels(page, level), Explored(page, level), page.deps = <<>>, page.frontier = <<>>
  PROVE  \A n \in 0..MAX_DEPTH_CEILING :
           n <= EffectiveDepth => \A b \in Reach[n] \intersect Ids(page.selected) : level[b] <= n
<1> DEFINE m == MAX_DEPTH_CEILING
           IdsNow == Ids(page.selected)
           S == {n \in 0..m : n <= EffectiveDepth => \A b \in Reach[n] \intersect IdsNow : level[b] <= n}
<1>1. /\ Reach[0] = Seeds
      /\ \A n \in 1..m :
           Reach[n] = Reach[n - 1] \union UNION {Followed(b) : b \in Reach[n - 1] \intersect IdsNow}
  BY ReachSteps, IncludedIds
<1>2. IdsNow \subseteq BlockId /\ m \in Nat /\ EffectiveDepth \in Nat
  BY IdsTyped, DepthTyped DEF MAX_DEPTH_CEILING
<1>3. Pending(page) = {} /\ SetOf(page.deps) = {}
  BY DEF Pending, SetOf
<1>4. \A a \in IdsNow : level[a] < EffectiveDepth =>
        \A t \in Followed(a) : t \in IdsNow => level[t] <= level[a] + 1
  BY <1>3 DEF Explored
<1> HIDE DEF m, IdsNow
<1>5. 0 \in S
  <2>1. \A b \in Seeds : level[b] <= 0
    <3>1. \A b \in Seeds : level[b] = 0
      BY SeedsAre DEF Levels
    <3> QED
      BY <3>1
  <2> QED
    BY <1>1, <1>2, <2>1
<1>6. ASSUME NEW n \in 1..m, n - 1 \in S PROVE n \in S
  <2> SUFFICES ASSUME n <= EffectiveDepth, NEW b \in Reach[n] \intersect IdsNow PROVE level[b] <= n
    <3>1. n \in 0..m
      BY <1>2
    <3> QED
      BY <3>1
  <2>1. \A a \in Reach[n - 1] \intersect IdsNow : level[a] <= n - 1
    <3>1. n - 1 <= EffectiveDepth
      BY <1>2
    <3> QED
      BY <1>6, <3>1
  <2>2. level[b] \in Nat
    BY <1>2
  <2>3. CASE b \in Reach[n - 1]
    BY <2>1, <2>2, <2>3
  <2>4. CASE b \notin Reach[n - 1]
    <3>1. PICK a \in Reach[n - 1] \intersect IdsNow : b \in Followed(a)
      BY <1>1, <2>4
    <3>2. level[a] <= n - 1 /\ level[a] \in Nat
      BY <1>2, <2>1
    <3>3. level[a] < EffectiveDepth
      BY <1>2, <3>2
    <3>4. level[b] <= level[a] + 1
      BY <1>4, <3>1, <3>3
    <3> QED
      BY <2>2, <3>2, <3>4
  <2> QED
    BY <2>3, <2>4
<1> HIDE DEF S
<1>7. \A n \in 0..m : n \in S
  BY <1>2, <1>5, <1>6, InductionUpTo
<1> QED
  BY <1>7 DEF S, m, IdsNow

(***************************************************************************)
(* In a store nobody changes, while the plan is made: each selected block  *)
(* is at most EffectiveDepth followed edges, each within the fan-out, away *)
(* from a block that is required or was ranked in.                         *)
(***************************************************************************)
THEOREM DependenciesInReachAlways == Spec => []DependenciesInReach
<1>1. EdgesInv => DependenciesInReach
  <2> SUFFICES ASSUME EdgesInv, Calm, page.pc \in {"expand", "reconcile", "rebuild"}
               PROVE  Included \subseteq Reach[EffectiveDepth]
    BY DEF DependenciesInReach
  <2>1. World /\ page.selected \in Seq(Selection) /\ EdgesDone(page)
    BY DEF EdgesInv, CostInv, Costed, Typed
  <2>2. PICK level \in [BlockId -> Nat] : Levels(page, level)
    BY <2>1 DEF EdgesDone, Traversed
  <2>3. \A b \in Ids(page.selected) : level[b] <= EffectiveDepth
    BY <2>2 DEF Levels
  <2>4. EffectiveDepth \in 0..MAX_DEPTH_CEILING
    BY <2>1, DepthTyped
  <2>5. \A n \in 0..MAX_DEPTH_CEILING : \A b \in Ids(page.selected) : level[b] <= n => b \in Reach[n]
    BY <2>1, <2>2, LevelReached
  <2> QED
    BY <2>3, <2>4, <2>5, IncludedIds
<1> QED
  BY <1>1, EdgesInvariant, PTL

(***************************************************************************)
(* In a store nobody changes, once expansion is done: what is followed     *)
(* from a block within EffectiveDepth - 1 edges of the ones that made the  *)
(* cut, by whichever path, is selected, gone or does not fit any more.     *)
(***************************************************************************)
THEOREM LeftOutOnlyForRoomAlways == Spec => []LeftOutOnlyForRoom
<1>1. EdgesInv => LeftOutOnlyForRoom
  <2> SUFFICES ASSUME EdgesInv, Calm, page.pc \in {"reconcile", "rebuild"}, EffectiveDepth > 0,
                      NEW b \in Reach[EffectiveDepth - 1] \intersect Included, NEW t \in Followed(b)
               PROVE  t \in Included \/ t \notin stored \/ ~Fits(t)
    BY DEF LeftOutOnlyForRoom
  <2>1. World /\ page.selected \in Seq(Selection) /\ page.total \in Nat /\ EdgesDone(page)
    BY DEF EdgesInv, CostInv, Costed, Typed
  <2>2. PICK level \in [BlockId -> Nat] : Levels(page, level) /\ Explored(page, level)
    BY <2>1 DEF EdgesDone, Traversed
  <2>3. page.deps = <<>> /\ page.frontier = <<>> /\ Tried(page)
    BY <2>1 DEF EdgesDone, Traversed
  <2>4. EffectiveDepth \in 0..MAX_DEPTH_CEILING
    BY <2>1, DepthTyped
  <2>5. \A n \in 0..MAX_DEPTH_CEILING :
          n <= EffectiveDepth => \A x \in Reach[n] \intersect Ids(page.selected) : level[x] <= n
    BY <2>1, <2>2, <2>3, ReachedLevel
  <2>6. EffectiveDepth - 1 \in 0..MAX_DEPTH_CEILING /\ EffectiveDepth - 1 <= EffectiveDepth
    BY <2>4 DEF MAX_DEPTH_CEILING
  <2>7. b \in Ids(page.selected) /\ b \in BlockId /\ level[b] <= EffectiveDepth - 1
    BY <2>1, <2>4, <2>5, <2>6, IncludedIds, IdsTyped
  <2>8. level[b] < EffectiveDepth
    BY <2>4, <2>7
  <2>9. Pending(page) = {} /\ SetOf(page.deps) = {}
    BY <2>3 DEF Pending, SetOf
  <2>10. t \in page.visited
    BY <2>2, <2>7, <2>8, <2>9 DEF Explored
  <2>11. t \in Ids(page.selected) \/ t \notin stored \/ page.total + Tokens(t) > request.budget
    BY <2>3, <2>10 DEF Tried
  <2>12. t \in stored => Tokens(t) \in Nat /\ request.budget \in Nat
    BY <2>1, BlockAssumption, RequestTyped DEF Tokens, World, StoredTyped
  <2> QED
    BY <2>1, <2>11, <2>12, IncludedIds DEF Fits
<1> QED
  BY <1>1, EdgesInvariant, PTL

(***************************************************************************)
(* In a store nobody changes: of two blocks of the plan that contradict    *)
(* each other the older carries a note, and under PreferNewer is there     *)
(* only because it was required; notes are true; and under SuppressSource  *)
(* a source stands next to its derivative only if it was required.         *)
(***************************************************************************)
THEOREM EdgesReconciledAlways == Spec => []EdgesReconciled
<1>1. EdgesInv => EdgesReconciled
  <2> SUFFICES ASSUME EdgesInv, Reconciled PROVE EdgesReconciled
    BY DEF EdgesReconciled, ContradictionsSettled, NotesTrue, SourcesSuppressed
  <2> DEFINE seq == page.selected
  <2>1. seq \in Seq(Selection) /\ Agreed(page) /\ World
    BY DEF EdgesInv, CostInv, Costed, Typed, Reconciled, Done, EdgesDone, Reconciling
  <2>2. Included = Ids(seq) /\ Pinned = PinnedIn(seq) /\ Ids(seq) \subseteq BlockId
    BY <2>1, IncludedIds, IdsTyped
  <2>3. \A b : NoteOn(b) = {seq[i].note : i \in {j \in DOMAIN seq : seq[j].id = b}} \ {None}
    BY DEF NoteOn, SetOf
  <2>4. ContradictionsSettled
    <3> SUFFICES ASSUME policy.contradicts # "off", NEW a \in Included, NEW b \in Included,
                        Opposed(a, b), a < b
                 PROVE  NoteOn(a) # {} /\ (policy.contradicts = "prefer_newer" => a \in Pinned)
      BY DEF ContradictionsSettled
    <3>1. PICK i \in DOMAIN seq : seq[i].id = a
      BY <2>2 DEF Ids
    <3>2. PICK j \in DOMAIN seq : seq[j].id = b
      BY <2>2 DEF Ids
    <3>3. seq[i].note # None /\ (policy.contradicts = "prefer_newer" => a \in PinnedIn(seq))
      BY <2>1, <3>1, <3>2 DEF Agreed
    <3>4. seq[i].note \in NoteOn(a)
      BY <2>3, <3>1, <3>3
    <3> QED
      BY <2>2, <3>3, <3>4
  <2>5. NotesTrue
    <3> SUFFICES ASSUME NEW b \in Included, NEW w \in NoteOn(b)
                 PROVE  w > b /\ Opposed(b, w) /\ w \in Included \union Dropped
      BY DEF NotesTrue
    <3>1. PICK i \in DOMAIN seq : seq[i].id = b /\ seq[i].note = w /\ w # None
      BY <2>3
    <3>2. /\ w > b /\ Opposed(b, w)
          /\ \/ w \in Ids(seq)
             \/ \E o \in page.omitted : o.id = w /\ o.reason \in DropReasons
      BY <2>1, <3>1 DEF Agreed
    <3>3. (\E o \in page.omitted : o.id = w /\ o.reason \in DropReasons) => w \in Dropped
      BY DEF Dropped, Omitted, DropReasons
    <3> QED
      BY <2>2, <3>2, <3>3
  <2>6. SourcesSuppressed
    <3> SUFFICES ASSUME policy.derived_from = "suppress_source", NEW a \in Included, NEW b \in Included,
                        a # b, <<a, "derived_from", b>> \in edges
                 PROVE  b \in Pinned
      BY DEF SourcesSuppressed
    <3> DEFINE e == <<a, "derived_from", b>>
    <3>1. e \in edges /\ e[1] = a /\ e[2] = "derived_from" /\ e[3] = b
      OBVIOUS
    <3> HIDE DEF e
    <3> QED
      BY <2>1, <2>2, <3>1 DEF Agreed
  <2> QED
    BY <2>4, <2>5, <2>6 DEF EdgesReconciled
<1> QED
  BY <1>1, EdgesInvariant, PTL

=============================================================================
