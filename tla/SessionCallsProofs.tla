-------------------------- MODULE SessionCallsProofs --------------------------
(***************************************************************************)
(* The calls of a session, for every number of threads, sessions and       *)
(* blocks, and whatever other callers put, delete and invalidate between   *)
(* their steps: vectors are those of their blocks, an invalidation reaches *)
(* every later index, the linear retriever misses nothing, and a summary   *)
(* names the blocks it was made of.                                        *)
(***************************************************************************)
EXTENDS SessionCalls, RecursionTheorems, FiniteSetTheorems, FunctionTheorems, TLAPS

-----------------------------------------------------------------------------
(* The inductive invariant.                                                *)

Fields == {"pc", "op", "session", "query", "ids", "todo", "batch", "vectors", "answer",
           "overtaken", "cleared", "steady"}
Retrieving == {"hnsw", "linear"}

(* What the tasks' claims are about. *)
World ==
  [blocks |-> blocks, lastId |-> lastId, index |-> index, known |-> known, settled |-> settled]

Typed(w, p) ==
  /\ DOMAIN p = Fields
  /\ p.ids \in Seq(1..w.lastId) /\ p.todo \in Seq(1..w.lastId) /\ p.batch \in Seq(Range(p.batch))
  /\ p.answer \subseteq 1..w.lastId
  /\ \A i, j \in DOMAIN p.ids : p.ids[i] = p.ids[j] => i = j

StoreTyped(w) ==
  /\ w.lastId \in Nat
  /\ DOMAIN w.blocks \subseteq 1..w.lastId
  /\ \A b \in DOMAIN w.blocks :
       /\ DOMAIN w.blocks[b] = {"sessions", "text", "parents"} /\ w.blocks[b].parents \subseteq 1..w.lastId
       /\ w.blocks[b].text \notin Text => Len(w.blocks[b].text[2]) \in Nat

(* Whoever holds a text for an id, it is the same text: ids are not used   *)
(* twice.                                                                  *)
Pairs(f) == {<<b, f[b]>> : b \in DOMAIN f}
Texts(bs) == {<<b, bs[b].text>> : b \in DOMAIN bs}
InBatch(p) == {<<p.batch[i].id, p.batch[i].text>> : i \in DOMAIN p.batch}
TaskSaid(p) == IF p.op \in Retrieving THEN Pairs(p.vectors) \union InBatch(p) ELSE {}
WorldSaid(w) ==
  Texts(w.blocks) \union Pairs(w.known) \union (IF w.index = None THEN {} ELSE Pairs(w.index.vectors))
Said(w, tasks) == WorldSaid(w) \union UNION {TaskSaid(tasks[t]) : t \in Thread}
OneText(w, S) ==
  \A x \in S : x[1] \in 1..w.lastId /\ \A y \in S : x[1] = y[1] => x[2] = y[2]

(* What a retrieval still has to look at, or has embedded.                 *)
BatchIds(p) == {p.batch[i].id : i \in DOMAIN p.batch}
Ahead(p) == Range(p.todo) \union DOMAIN p.vectors \union BatchIds(p)

Emptied(p) == p.todo = <<>> /\ p.batch = <<>>

HnswHolds(w, p) ==
  /\ p.pc \in {"check", "list", "get", "store", "install", "search", "answered"}
  /\ p.pc = "store" => p.todo = <<>> /\ p.batch # <<>>
  /\ p.pc \in {"check", "list", "install"} => Emptied(p)
  /\ \A b \in Ahead(p) \intersect DOMAIN w.blocks : p.session \in w.blocks[b].sessions
  /\ p.pc \in {"get", "store", "install"} =>
       \A x \in w.settled : x[1] = p.session => x[2] \in Ahead(p)
  /\ p.pc = "search" /\ ~p.overtaken => w.index = None \/ w.index.session = p.session
  /\ p.pc = "answered" /\ ~p.overtaken =>
       \A b \in p.answer \intersect DOMAIN w.blocks : p.session \in w.blocks[b].sessions

Misses(w, p, b) == Score(p.query, w.blocks[b].text) > 0 /\ b \notin p.answer
FoundAll(w, p) ==
  \A b \in p.steady :
    Misses(w, p, b) =>
      /\ Cardinality(p.answer) = Limit
      /\ \A c \in p.answer : Score(p.query, w.known[c]) >= Score(p.query, w.blocks[b].text)

LinearHolds(w, p) ==
  /\ p.pc \in {"list", "get", "store", "search", "answered"}
  /\ p.pc = "store" => p.todo = <<>> /\ p.batch # <<>>
  /\ p.pc \in {"list", "search"} => Emptied(p)
  /\ p.pc = "list" => p.answer = {}
  /\ \A b \in p.steady :
       b \in DOMAIN w.blocks /\ p.session \in w.blocks[b].sessions /\ w.blocks[b].text \notin Unreadable
  /\ p.pc # "list" => p.steady \subseteq Range(p.ids)
  /\ p.pc \in {"get", "store", "search"} /\ ~p.cleared =>
       p.steady \subseteq DOMAIN w.known \union Range(p.todo) \union BatchIds(p)
  /\ p.pc = "answered" /\ ~p.cleared => p.answer \subseteq DOMAIN w.known /\ FoundAll(w, p)

(* The ids a summary has gone past, and those of its texts.                *)
Passed(p) == {p.ids[i] : i \in 1..(Len(p.ids) - Len(p.todo))}
SummaryHolds(w, p) ==
  /\ p.pc \in {"list_last", "read"}
  /\ p.pc = "list_last" => p.batch = <<>>
  /\ p.pc = "read" =>
       /\ Len(p.todo) <= Len(p.ids)
       /\ \A i \in DOMAIN p.todo : p.todo[i] = p.ids[Len(p.ids) - Len(p.todo) + i]
       /\ Len(p.batch) <= Len(p.ids) - Len(p.todo)
       /\ \A b \in Passed(p) \intersect DOMAIN w.blocks : w.blocks[b].text \in Range(p.batch)
       /\ Cardinality(Passed(p) \intersect DOMAIN w.blocks) <= Len(p.batch)

Idle(p) == p.pc = "idle" /\ p.batch = <<>> /\ DOMAIN p.vectors = {} /\ p.steady = {}

TaskHolds(w, p) ==
  /\ Typed(w, p)
  /\ \/ Idle(p)
     \/ p.op = "hnsw" /\ HnswHolds(w, p)
     \/ p.op = "linear" /\ LinearHolds(w, p)
     \/ p.op = "summarize" /\ SummaryHolds(w, p)

SettledHolds(w) ==
  \A x \in w.settled :
    /\ x[2] \in DOMAIN w.blocks
    /\ x[1] \in w.blocks[x[2]].sessions /\ w.blocks[x[2]].text \notin Unreadable

IndexHolds(w) ==
  w.index # None =>
    /\ \A b \in DOMAIN w.index.vectors \intersect DOMAIN w.blocks :
         w.index.session \in w.blocks[b].sessions
    /\ \A x \in w.settled : x[1] = w.index.session => x[2] \in DOMAIN w.index.vectors

CallsInv ==
  /\ StoreTyped(World) /\ OneText(World, Said(World, task))
  /\ SettledHolds(World) /\ IndexHolds(World)
  /\ DOMAIN task = Thread
  /\ \A t \in Thread : TaskHolds(World, task[t])
  /\ ParentsWereRead

-----------------------------------------------------------------------------
(* The operators of the model.                                             *)

(* The list of some ids holds each of them once.                           *)
LEMMA AscendingLists ==
  ASSUME NEW m \in Nat, NEW S \in SUBSET (1..m)
  PROVE  /\ Ascending(S) \in Seq(S) /\ Range(Ascending(S)) = S
         /\ \A i, j \in DOMAIN Ascending(S) : Ascending(S)[i] = Ascending(S)[j] => i = j
         /\ IsFiniteSet(S)
<1> DEFINE R == {p \in S \X S : p[1] < p[2]}
           A == Ascending(S)
<1>1. IsFiniteSet(S)
  <2>1. IsFiniteSet(1..m)
    BY FS_Interval
  <2> QED
    BY <2>1, FS_Subset
<1>2. Ordering(S, R)
  <2>1. \A x, y \in S : <<x, y>> \in R <=> x < y
    OBVIOUS
  <2> HIDE DEF R
  <2> QED
    BY <2>1 DEF Ordering
<1>3. /\ Cardinality(S) \in Nat
      /\ \A x \in S : RankIn(S, R, x) \in 0..(Cardinality(S) - 1)
      /\ \A x, y \in S : RankIn(S, R, x) = RankIn(S, R, y) => x = y
      /\ \A k \in 0..(Cardinality(S) - 1) : \E x \in S : RankIn(S, R, x) = k
  <2> HIDE DEF R, A
  <2>1. RanksMatch(S, R)
    BY <1>1, <1>2, RanksAreAll
  <2> QED
    BY <2>1 DEF RanksMatch
<1>4. ASSUME NEW b \in S PROVE Cardinality({x \in S : x <= b}) = RankIn(S, R, b) + 1
  <2> DEFINE B == {y \in S : <<y, b>> \in R}
  <2>1. {x \in S : x <= b} = B \union {b} /\ b \notin B /\ B \in SUBSET S
    <3>1. B = {y \in S : y < b}
      OBVIOUS
    <3> HIDE DEF B
    <3>2. S \subseteq Int /\ b \in S
      OBVIOUS
    <3>3. \A x \in S : x <= b <=> x < b \/ x = b
      BY <3>2
    <3> QED
      <4>1. \A x \in S : x <= b <=> x \in B \union {b}
        BY <3>1, <3>2, <3>3
      <4>2. b \notin B /\ B \subseteq S
        BY <3>1, <3>2
      <4> QED
        BY <3>2, <4>1, <4>2
  <2> HIDE DEF B
  <2>2. IsFiniteSet(B)
    BY <1>1, <2>1, FS_Subset
  <2>3. Cardinality(B \union {b}) = Cardinality(B) + 1
    BY <2>1, <2>2, FS_AddElement
  <2>4. Cardinality(B) = RankIn(S, R, b)
    BY DEF B, RankIn
  <2> QED
    BY <2>1, <2>3, <2>4
<1> HIDE DEF R
<1>5. DOMAIN A = 1..Cardinality(S)
  BY DEF Ascending
<1>6. ASSUME NEW i \in 1..Cardinality(S) PROVE A[i] \in S /\ RankIn(S, R, A[i]) + 1 = i
  <2>1. i - 1 \in 0..(Cardinality(S) - 1)
    BY <1>3
  <2>2. PICK b \in S : RankIn(S, R, b) = i - 1
    BY <1>3, <2>1
  <2>3. Cardinality({x \in S : x <= b}) = i
    BY <1>4, <2>1, <2>2
  <2>4. A[i] = CHOOSE c \in S : Cardinality({x \in S : x <= c}) = i
    BY DEF Ascending
  <2>5. A[i] \in S /\ Cardinality({x \in S : x <= A[i]}) = i
    BY <2>3, <2>4
  <2> QED
    BY <1>4, <2>5
<1>7. A \in Seq(S)
  <2>1. A = [i \in 1..Cardinality(S) |-> A[i]]
    BY DEF Ascending
  <2> HIDE DEF A
  <2>2. A \in [1..Cardinality(S) -> S]
    BY <1>6, <2>1
  <2> QED
    BY <1>3, <2>2
<1>8. \A i, j \in DOMAIN A : A[i] = A[j] => i = j
  BY <1>5, <1>6
<1>9. ASSUME NEW b \in S PROVE \E i \in DOMAIN A : A[i] = b
  <2> DEFINE i == RankIn(S, R, b) + 1
  <2>1. i \in 1..Cardinality(S)
    BY <1>3
  <2>2. A[i] \in S /\ RankIn(S, R, A[i]) + 1 = i
    BY <1>6, <2>1
  <2>3. RankIn(S, R, A[i]) = RankIn(S, R, b)
    <3>1. RankIn(S, R, A[i]) \in Int /\ RankIn(S, R, b) \in Int
      <4>1. \A x \in S : RankIn(S, R, x) \in Int
        BY <1>3
      <4> HIDE DEF A, i
      <4> QED
        BY <2>2, <4>1
    <3>2. RankIn(S, R, A[i]) + 1 = RankIn(S, R, b) + 1
      BY <2>2
    <3> QED
      BY <3>1, <3>2
  <2>4. A[i] = b
    BY <1>3, <2>2, <2>3
  <2> QED
    BY <1>5, <2>1, <2>4
<1> HIDE DEF A
<1>10. Range(A) = S
  BY <1>5, <1>6, <1>9 DEF Range
<1> QED
  BY <1>1, <1>7, <1>8, <1>10 DEF A

LEMMA Withs ==
  ASSUME NEW f, NEW x, NEW e
  PROVE  /\ DOMAIN With(f, x, e) = DOMAIN f \union {x}
         /\ With(f, x, e)[x] = e
         /\ \A y \in DOMAIN f : y # x => With(f, x, e)[y] = f[y]
         /\ Pairs(With(f, x, e)) \subseteq Pairs(f) \union {<<x, e>>}
<1> DEFINE g == With(f, x, e)
<1>1. /\ DOMAIN g = DOMAIN f \union {x} /\ g[x] = e
      /\ \A y \in DOMAIN f : y # x => g[y] = f[y]
  BY DEF With
<1> HIDE DEF g
<1>2. Pairs(g) \subseteq Pairs(f) \union {<<x, e>>}
  BY <1>1 DEF Pairs
<1> QED
  BY <1>1, <1>2 DEF g

(* The answer is of the ids; below the limit it has them all, and what it  *)
(* leaves out is no better than any of it.                                 *)
LEMMA RankedIsBest ==
  ASSUME NEW q, NEW m \in Nat, NEW ids \in SUBSET (1..m), NEW vectors
  PROVE  /\ Ranked(q, ids, vectors) \subseteq ids
         /\ \A b \in ids : b \notin Ranked(q, ids, vectors) =>
              /\ Cardinality(Ranked(q, ids, vectors)) = Limit
              /\ \A c \in Ranked(q, ids, vectors) :
                   Score(q, vectors[c]) >= Score(q, vectors[b])
<1> DEFINE R == {p \in ids \X ids : Before(q, vectors, p[1], p[2])}
           A == Ranked(q, ids, vectors)
<1>1. IsFiniteSet(ids)
  <2>1. IsFiniteSet(1..m)
    BY FS_Interval
  <2> QED
    BY <2>1, FS_Subset
<1>2. \A x : Score(q, x) \in Nat
  BY SimilarityAssumption DEF Score
<1>3. ASSUME NEW x \in ids, NEW y \in ids
      PROVE  <<x, y>> \in R <=> \/ Score(q, vectors[x]) > Score(q, vectors[y])
                                \/ Score(q, vectors[x]) = Score(q, vectors[y]) /\ x < y
  BY DEF Before
<1> HIDE DEF R
<1>4. Ordering(ids, R)
  BY <1>2, <1>3 DEF Ordering
<1>5. A = {x \in ids : RankIn(ids, R, x) < Limit}
  <2>1. ASSUME NEW x \in ids
        PROVE  {y \in ids : Before(q, vectors, y, x)} = {y \in ids : <<y, x>> \in R}
    BY DEF R
  <2> QED
    BY <2>1 DEF Ranked, RankIn
<1> HIDE DEF A
<1>6. /\ Cardinality(ids) \in Nat
      /\ \A x \in ids : RankIn(ids, R, x) \in 0..(Cardinality(ids) - 1)
  BY <1>1, <1>4, RanksAreAll DEF RanksMatch
<1>7. ASSUME NEW b \in ids, b \notin A
      PROVE  /\ Cardinality(A) = Limit
             /\ \A c \in A : Score(q, vectors[c]) >= Score(q, vectors[b])
  <2>1. Limit \in Nat /\ RankIn(ids, R, b) >= Limit
    BY <1>5, <1>6, <1>7, LimitAssumption
  <2>2. Limit \in 0..Cardinality(ids)
    BY <1>6, <2>1
  <2>3. Cardinality(A) = Limit
    BY <1>1, <1>4, <1>5, <2>2, LowestRanks
  <2>4. ASSUME NEW c \in A PROVE Score(q, vectors[c]) >= Score(q, vectors[b])
    <3>1. c \in ids /\ RankIn(ids, R, c) < Limit
      BY <1>5
    <3>2. <<b, c>> \notin R
      <4> SUFFICES ASSUME <<b, c>> \in R PROVE FALSE
        OBVIOUS
      <4>1. RankIn(ids, R, b) < RankIn(ids, R, c)
        BY <1>1, <1>4, <3>1, RankGrows
      <4> QED
        BY <1>6, <2>1, <3>1, <4>1
    <3> QED
      BY <1>2, <1>3, <3>1, <3>2
  <2> QED
    BY <2>3, <2>4
<1> QED
  BY <1>5, <1>7 DEF A

-----------------------------------------------------------------------------
(* Sequences.                                                              *)

LEMMA HeadAndTail ==
  ASSUME NEW S, NEW s \in Seq(S), s # <<>>
  PROVE  /\ Tail(s) \in Seq(S) /\ Head(s) \in S /\ Head(s) = s[1]
         /\ Len(s) \in Nat /\ Len(s) > 0 /\ DOMAIN s = 1..Len(s)
         /\ DOMAIN Tail(s) = 1..(Len(s) - 1) /\ Len(Tail(s)) = Len(s) - 1
         /\ \A i \in DOMAIN Tail(s) : i \in Nat /\ i > 0 /\ i + 1 \in DOMAIN s /\ Tail(s)[i] = s[i + 1]
         /\ Range(s) = {Head(s)} \union Range(Tail(s))
<1>1. /\ Tail(s) \in Seq(S) /\ Head(s) \in S /\ Head(s) = s[1]
      /\ Len(s) \in Nat /\ Len(s) > 0 /\ DOMAIN s = 1..Len(s)
      /\ DOMAIN Tail(s) = 1..(Len(s) - 1) /\ Len(Tail(s)) = Len(s) - 1
      /\ \A i \in DOMAIN Tail(s) : i \in Nat /\ i > 0 /\ i + 1 \in DOMAIN s /\ Tail(s)[i] = s[i + 1]
  OBVIOUS
<1> DEFINE u == Tail(s)
<1> HIDE DEF u
<1>2. Range(u) \subseteq Range(s)
  BY <1>1 DEF Range, u
<1>3. Head(s) \in Range(s)
  BY <1>1 DEF Range
<1>4. ASSUME NEW i \in DOMAIN s PROVE s[i] = Head(s) \/ s[i] \in Range(u)
  <2>1. CASE i = 1
    BY <1>1, <2>1
  <2>2. CASE i # 1
    <3>1. i - 1 \in DOMAIN u /\ (i - 1) + 1 = i
      BY <1>1, <2>2 DEF u
    <3>2. u[i - 1] = s[i]
      BY <1>1, <3>1 DEF u
    <3> QED
      BY <3>1, <3>2 DEF Range
  <2> QED
    BY <2>1, <2>2
<1>5. Range(s) \subseteq {Head(s)} \union Range(u)
  BY <1>4 DEF Range
<1>6. Range(s) = {Head(s)} \union Range(u)
  BY <1>2, <1>3, <1>5
<1> QED
  BY <1>1, <1>6 DEF u

LEMMA SeqHolds ==
  ASSUME NEW S, NEW s \in Seq(S)
  PROVE  /\ \A i \in DOMAIN s : s[i] \in S
         /\ Range(s) \subseteq S
         /\ \A T : S \subseteq T => s \in Seq(T)
         /\ s \in Seq(Range(s))
<1>1. Len(s) \in Nat /\ s = [i \in 1..Len(s) |-> s[i]] /\ DOMAIN s = 1..Len(s)
  OBVIOUS
<1>2. \A i \in DOMAIN s : s[i] \in S
  OBVIOUS
<1>3. \A T : (\A i \in 1..Len(s) : s[i] \in T) => s \in Seq(T)
  BY <1>1
<1>4. \A i \in 1..Len(s) : s[i] \in Range(s)
  BY <1>1 DEF Range
<1>5. \A T : S \subseteq T => s \in Seq(T)
  BY <1>1, <1>2, <1>3
<1>6. s \in Seq(Range(s))
  BY <1>3, <1>4
<1> QED
  BY <1>2, <1>5, <1>6 DEF Range

LEMMA AppendTo ==
  ASSUME NEW s, s \in Seq(Range(s)), NEW x
  PROVE  /\ Range(Append(s, x)) = Range(s) \union {x}
         /\ Append(s, x) \in Seq(Range(Append(s, x)))
         /\ Len(s) \in Nat /\ Len(Append(s, x)) = Len(s) + 1
         /\ DOMAIN s = 1..Len(s) /\ DOMAIN Append(s, x) = 1..(Len(s) + 1)
         /\ \A i \in 1..Len(s) : Append(s, x)[i] = s[i]
         /\ Append(s, x)[Len(s) + 1] = x
<1> DEFINE T == Range(s) \union {x}
           u == Append(s, x)
<1>1. s \in Seq(T) /\ x \in T
  <2>1. Len(s) \in Nat /\ s = [i \in 1..Len(s) |-> s[i]] /\ \A i \in 1..Len(s) : s[i] \in Range(s)
    OBVIOUS
  <2> QED
    BY <2>1
<1>2. /\ u \in Seq(T) /\ Len(s) \in Nat /\ Len(u) = Len(s) + 1
      /\ DOMAIN s = 1..Len(s) /\ DOMAIN u = 1..(Len(s) + 1)
      /\ \A i \in 1..Len(s) : u[i] = s[i]
      /\ u[Len(s) + 1] = x
  <2> HIDE DEF T
  <2> QED
    BY <1>1
<1> HIDE DEF u
<1>3. Range(u) = T
  <2>1. Range(u) \subseteq T
    BY <1>2 DEF Range
  <2>2. x \in Range(u)
    BY <1>2 DEF Range
  <2>3. Range(s) \subseteq Range(u)
    BY <1>2 DEF Range
  <2> QED
    BY <2>1, <2>2, <2>3
<1> QED
  BY <1>2, <1>3 DEF u

(* A sequence is one of what it holds, and so is its tail.                 *)
LEMMA TailOf ==
  ASSUME NEW s, s \in Seq(Range(s)), s # <<>>
  PROVE  Tail(s) \in Seq(Range(Tail(s)))
<1> DEFINE u == Tail(s)
<1>1. u \in Seq(Range(s)) /\ Len(u) \in Nat
  OBVIOUS
<1> HIDE DEF u
<1>2. u = [i \in 1..Len(u) |-> u[i]] /\ \A i \in 1..Len(u) : u[i] \in Range(u)
  BY <1>1 DEF Range
<1>3. u \in Seq(Range(u))
  BY <1>1, <1>2
<1> QED
  BY <1>3 DEF u

-----------------------------------------------------------------------------
(* What a call claims outlives what the others do.                         *)

(* No id comes back, no text changes, no session is taken off a block.     *)
Follows(w, v) ==
  /\ v.lastId \in Nat /\ v.lastId >= w.lastId
  /\ \A b \in DOMAIN v.blocks : b \in DOMAIN w.blocks \/ b \notin 1..w.lastId
  /\ \A b \in DOMAIN v.blocks \intersect DOMAIN w.blocks :
       v.blocks[b].text = w.blocks[b].text /\ w.blocks[b].sessions \subseteq v.blocks[b].sessions

(* The call p becomes q while the world w becomes v.                       *)
Frame(w, v, p, q) ==
  /\ DOMAIN q = Fields
  /\ q.pc = p.pc /\ q.op = p.op /\ q.session = p.session /\ q.query = p.query
  /\ q.ids = p.ids /\ q.todo = p.todo /\ q.batch = p.batch /\ q.vectors = p.vectors
  /\ q.answer = p.answer
  /\ ~q.overtaken => ~p.overtaken /\ v.index \in {w.index, None}
  /\ v.settled \subseteq w.settled \/ ~(p.op = "hnsw" /\ p.pc \in {"get", "store", "install"})
  /\ q.steady \subseteq p.steady
  /\ p.op = "linear" => q.steady \subseteq DOMAIN v.blocks
  /\ p.op = "linear" /\ ~q.cleared =>
       ~p.cleared /\ \A b \in DOMAIN w.known : b \in DOMAIN v.known /\ v.known[b] = w.known[b]

LEMMA AheadIds ==
  ASSUME NEW w, NEW p, p.op \in Retrieving, Typed(w, p), \A x \in TaskSaid(p) : x[1] \in 1..w.lastId
  PROVE  Ahead(p) \subseteq 1..w.lastId
<1>1. Range(p.todo) \subseteq 1..w.lastId
  <2>1. p.todo \in Seq(1..w.lastId)
    BY DEF Typed
  <2> QED
    BY <2>1, SeqHolds
<1>2. ASSUME NEW b \in DOMAIN p.vectors PROVE b \in 1..w.lastId
  <2>1. <<b, p.vectors[b]>> \in TaskSaid(p)
    BY DEF TaskSaid, Pairs
  <2> QED
    BY <2>1
<1>3. ASSUME NEW b \in BatchIds(p) PROVE b \in 1..w.lastId
  <2>1. PICK i \in DOMAIN p.batch : b = p.batch[i].id
    BY DEF BatchIds
  <2>2. <<p.batch[i].id, p.batch[i].text>> \in TaskSaid(p)
    BY DEF TaskSaid, InBatch
  <2> QED
    BY <2>1, <2>2
<1> QED
  BY <1>1, <1>2, <1>3 DEF Ahead

LEMMA HnswFrame ==
  ASSUME NEW w, NEW v, NEW p, NEW q, Typed(w, p), Follows(w, v), Frame(w, v, p, q),
         Ahead(p) \subseteq 1..w.lastId, HnswHolds(w, p), p.op = "hnsw"
  PROVE  HnswHolds(v, q)
<1>1. Ahead(q) = Ahead(p) /\ (Emptied(p) => Emptied(q))
  BY DEF Frame, Ahead, BatchIds, Emptied
<1>2. ASSUME NEW b \in (1..w.lastId) \intersect DOMAIN v.blocks, NEW s,
             b \in DOMAIN w.blocks => s \in w.blocks[b].sessions
      PROVE  s \in v.blocks[b].sessions
  BY <1>2 DEF Follows
<1>3. /\ q.pc \in {"check", "list", "get", "store", "install", "search", "answered"}
      /\ q.pc = "store" => q.todo = <<>> /\ q.batch # <<>>
      /\ q.pc \in {"check", "list", "install"} => Emptied(q)
  BY <1>1 DEF HnswHolds, Frame
<1>4. \A b \in Ahead(q) \intersect DOMAIN v.blocks : q.session \in v.blocks[b].sessions
  BY <1>1, <1>2 DEF HnswHolds, Frame
<1>5. q.pc \in {"get", "store", "install"} =>
        \A x \in v.settled : x[1] = q.session => x[2] \in Ahead(q)
  BY <1>1 DEF HnswHolds, Frame
<1>6. q.pc = "search" /\ ~q.overtaken => v.index = None \/ v.index.session = q.session
  BY DEF HnswHolds, Frame
<1>7. q.pc = "answered" /\ ~q.overtaken =>
        \A b \in q.answer \intersect DOMAIN v.blocks : q.session \in v.blocks[b].sessions
  <2>1. p.answer \subseteq 1..w.lastId
    BY DEF Typed
  <2> QED
    BY <1>2, <2>1 DEF HnswHolds, Frame
<1> QED
  BY <1>3, <1>4, <1>5, <1>6, <1>7 DEF HnswHolds

LEMMA LinearFrame ==
  ASSUME NEW w, NEW v, NEW p, NEW q, Follows(w, v), Frame(w, v, p, q), LinearHolds(w, p),
         p.op = "linear"
  PROVE  LinearHolds(v, q)
<1>1. BatchIds(p) = BatchIds(q) /\ (Emptied(p) => Emptied(q))
  BY DEF Frame, BatchIds, Emptied
<1>2. /\ q.pc \in {"list", "get", "store", "search", "answered"}
      /\ q.pc = "store" => q.todo = <<>> /\ q.batch # <<>>
      /\ q.pc \in {"list", "search"} => Emptied(q)
      /\ q.pc = "list" => q.answer = {}
  BY <1>1 DEF LinearHolds, Frame
<1>3. ASSUME NEW b \in q.steady
      PROVE  /\ b \in DOMAIN v.blocks /\ b \in DOMAIN w.blocks /\ b \in p.steady
             /\ q.session \in v.blocks[b].sessions
             /\ v.blocks[b].text = w.blocks[b].text /\ v.blocks[b].text \notin Unreadable
  <2>1. b \in p.steady /\ b \in DOMAIN v.blocks
    BY DEF Frame
  <2>2. b \in DOMAIN w.blocks /\ p.session \in w.blocks[b].sessions /\ w.blocks[b].text \notin Unreadable
    BY <2>1 DEF LinearHolds
  <2> QED
    BY <2>1, <2>2 DEF Follows, Frame
<1>4. q.pc # "list" => q.steady \subseteq Range(q.ids)
  BY DEF LinearHolds, Frame
<1>5. q.pc \in {"get", "store", "search"} /\ ~q.cleared =>
        q.steady \subseteq DOMAIN v.known \union Range(q.todo) \union BatchIds(q)
  BY <1>1 DEF LinearHolds, Frame
<1>6. ASSUME q.pc = "answered", ~q.cleared PROVE q.answer \subseteq DOMAIN v.known /\ FoundAll(v, q)
  <2>1. p.answer \subseteq DOMAIN w.known /\ FoundAll(w, p) /\ q.answer = p.answer /\ q.query = p.query
    BY <1>6 DEF LinearHolds, Frame
  <2>2. q.answer \subseteq DOMAIN v.known
    BY <1>6, <2>1 DEF Frame
  <2>3. \A c \in q.answer : v.known[c] = w.known[c]
    BY <1>6, <2>1 DEF Frame
  <2>4. FoundAll(v, q)
    <3> SUFFICES ASSUME NEW b \in q.steady, Misses(v, q, b)
                 PROVE  /\ Cardinality(q.answer) = Limit
                        /\ \A c \in q.answer :
                             Score(q.query, v.known[c]) >= Score(q.query, v.blocks[b].text)
      BY DEF FoundAll
    <3>1. Misses(w, p, b) /\ b \in p.steady /\ v.blocks[b].text = w.blocks[b].text
      BY <1>3, <2>1 DEF Misses
    <3>2. /\ Cardinality(p.answer) = Limit
          /\ \A c \in p.answer : Score(p.query, w.known[c]) >= Score(p.query, w.blocks[b].text)
      BY <2>1, <3>1 DEF FoundAll
    <3> QED
      BY <2>1, <2>3, <3>1, <3>2
  <2> QED
    BY <2>2, <2>4
<1> QED
  BY <1>2, <1>3, <1>4, <1>5, <1>6 DEF LinearHolds

LEMMA PassedFinite ==
  ASSUME NEW p, Len(p.ids) \in Nat, Len(p.todo) \in Nat, NEW S
  PROVE  IsFiniteSet(Passed(p) \intersect S) /\ Cardinality(Passed(p) \intersect S) \in Nat
<1> DEFINE n == Len(p.ids) - Len(p.todo)
           f == [i \in 1..n |-> p.ids[i]]
<1>1. IsFiniteSet(1..n)
  <2>1. 1 \in Int /\ n \in Int
    OBVIOUS
  <2> HIDE DEF n
  <2> QED
    BY <2>1, FS_Interval
<1>2. f \in Surjection(1..n, Passed(p))
  <2>1. f \in [1..n -> Passed(p)]
    BY DEF Passed
  <2>2. \A b \in Passed(p) : \E i \in 1..n : f[i] = b
    BY DEF Passed
  <2> HIDE DEF f, n
  <2> QED
    BY <2>1, <2>2, Fun_IsSurj
<1>3. IsFiniteSet(Passed(p))
  <2> HIDE DEF f, n
  <2> QED
    BY <1>1, <1>2, FS_Surjection
<1>4. IsFiniteSet(Passed(p) \intersect S)
  BY <1>3, FS_Subset
<1> QED
  BY <1>4, FS_CardinalityType

LEMMA SummaryFrame ==
  ASSUME NEW w, NEW v, NEW p, NEW q, Typed(w, p), Follows(w, v), Frame(w, v, p, q), SummaryHolds(w, p)
  PROVE  SummaryHolds(v, q)
<1> SUFFICES ASSUME q.pc = "read" PROVE SummaryHolds(v, q)
  BY DEF SummaryHolds, Frame
<1>1. /\ p.pc = "read" /\ q.ids = p.ids /\ q.todo = p.todo /\ q.batch = p.batch
      /\ Passed(q) = Passed(p)
  BY DEF Frame, Passed
<1>2. /\ Len(p.todo) <= Len(p.ids)
      /\ \A i \in DOMAIN p.todo : p.todo[i] = p.ids[Len(p.ids) - Len(p.todo) + i]
      /\ Len(p.batch) <= Len(p.ids) - Len(p.todo)
      /\ \A b \in Passed(p) \intersect DOMAIN w.blocks : w.blocks[b].text \in Range(p.batch)
      /\ Cardinality(Passed(p) \intersect DOMAIN w.blocks) <= Len(p.batch)
  BY <1>1 DEF SummaryHolds
<1>3. Len(p.ids) \in Nat /\ Len(p.todo) \in Nat /\ Len(p.batch) \in Nat
  BY DEF Typed
<1>4. Passed(p) \subseteq 1..w.lastId
  <2>1. \A i \in 1..(Len(p.ids) - Len(p.todo)) : i \in DOMAIN p.ids
    BY <1>3 DEF Typed
  <2>2. \A i \in DOMAIN p.ids : p.ids[i] \in 1..w.lastId
    <3>1. p.ids \in Seq(1..w.lastId)
      BY DEF Typed
    <3> QED
      BY <3>1, SeqHolds
  <2> QED
    BY <2>1, <2>2 DEF Passed
<1>5. Passed(p) \intersect DOMAIN v.blocks \subseteq Passed(p) \intersect DOMAIN w.blocks
  BY <1>4 DEF Follows
<1>6. Cardinality(Passed(p) \intersect DOMAIN v.blocks) <= Cardinality(Passed(p) \intersect DOMAIN w.blocks)
  BY <1>3, <1>5, PassedFinite, FS_Subset
<1>7. /\ Cardinality(Passed(p) \intersect DOMAIN v.blocks) \in Nat
      /\ Cardinality(Passed(p) \intersect DOMAIN w.blocks) \in Nat
  BY <1>3, PassedFinite
<1>8. Cardinality(Passed(p) \intersect DOMAIN v.blocks) <= Len(p.batch)
  BY <1>2, <1>3, <1>6, <1>7
<1>9. \A b \in Passed(p) \intersect DOMAIN v.blocks : v.blocks[b].text \in Range(p.batch)
  BY <1>2, <1>5 DEF Follows
<1> QED
  BY <1>1, <1>2, <1>8, <1>9 DEF SummaryHolds

LEMMA FrameHolds ==
  ASSUME NEW w, NEW v, NEW p, NEW q, w.lastId \in Nat, Follows(w, v), Frame(w, v, p, q), TaskHolds(w, p),
         \A x \in TaskSaid(p) : x[1] \in 1..w.lastId
  PROVE  TaskHolds(v, q) /\ TaskSaid(q) = TaskSaid(p)
<1>1. Typed(v, q)
  <2>1. 1..w.lastId \subseteq 1..v.lastId
    BY DEF Follows
  <2>2. Typed(w, p)
    BY DEF TaskHolds
  <2>3. p.ids \in Seq(1..v.lastId) /\ p.todo \in Seq(1..v.lastId)
    <3> DEFINE A == 1..w.lastId
               B == 1..v.lastId
    <3>1. p.ids \in Seq(A) /\ p.todo \in Seq(A)
      BY <2>2 DEF Typed
    <3> HIDE DEF A, B
    <3>2. A \subseteq B
      BY <2>1 DEF A, B
    <3>3. p.ids \in Seq(B) /\ p.todo \in Seq(B)
      BY <3>1, <3>2, SeqHolds
    <3> QED
      BY <3>3 DEF B
  <2> QED
    BY <2>1, <2>2, <2>3 DEF Typed, Frame
<1>2. TaskSaid(q) = TaskSaid(p)
  BY DEF TaskSaid, InBatch, Frame
<1>3. CASE Idle(p)
  BY <1>1, <1>2, <1>3 DEF TaskHolds, Idle, Frame
<1>4. CASE p.op = "hnsw" /\ HnswHolds(w, p)
  <2>1. Typed(w, p) /\ p.op \in Retrieving /\ q.op = "hnsw"
    BY <1>4 DEF TaskHolds, Retrieving, Frame
  <2>2. HnswHolds(v, q)
    BY <1>4, <2>1, AheadIds, HnswFrame
  <2> QED
    BY <1>1, <1>2, <2>1, <2>2 DEF TaskHolds
<1>5. CASE p.op = "linear" /\ LinearHolds(w, p)
  <2>1. q.op = "linear"
    BY <1>5 DEF Frame
  <2>2. LinearHolds(v, q)
    BY <1>5, LinearFrame
  <2> QED
    BY <1>1, <1>2, <2>1, <2>2 DEF TaskHolds
<1>6. CASE p.op = "summarize" /\ SummaryHolds(w, p)
  <2>1. q.op = "summarize" /\ Typed(w, p)
    BY <1>6 DEF Frame, TaskHolds
  <2>2. SummaryHolds(v, q)
    BY <1>6, <2>1, SummaryFrame
  <2> QED
    BY <1>1, <1>2, <2>1, <2>2 DEF TaskHolds
<1> QED
  BY <1>3, <1>4, <1>5, <1>6 DEF TaskHolds

-----------------------------------------------------------------------------
(* Steps.                                                                  *)

LEMMA WorldIs ==
  /\ World.blocks = blocks /\ World.lastId = lastId /\ World.index = index
  /\ World.known = known /\ World.settled = settled
  /\ World'.blocks = blocks' /\ World'.lastId = lastId' /\ World'.index = index'
  /\ World'.known = known' /\ World'.settled = settled'
BY DEF World

LEMMA CallsStep ==
  ASSUME CallsInv, DOMAIN task' = Thread, StoreTyped(World'), Follows(World, World'),
         \A u \in Thread :
           \/ Frame(World, World', task[u], task'[u])
           \/ TaskHolds(World', task'[u]) /\ TaskSaid(task'[u]) \subseteq Said(World, task),
         OneText(World', Said(World, task) \union WorldSaid(World')),
         SettledHolds(World'), IndexHolds(World'), ParentsWereRead'
  PROVE  CallsInv'
<1> DEFINE S == Said(World, task)
<1>1. ASSUME NEW u \in Thread
      PROVE  TaskHolds(World', task'[u]) /\ TaskSaid(task'[u]) \subseteq S
  <2>1. TaskHolds(World, task[u]) /\ World.lastId \in Nat
    BY DEF CallsInv, StoreTyped
  <2>2. TaskSaid(task[u]) \subseteq S
    BY DEF Said
  <2>3. \A x \in TaskSaid(task[u]) : x[1] \in 1..World.lastId
    BY <2>2 DEF CallsInv, OneText
  <2>4. CASE Frame(World, World', task[u], task'[u])
    BY <2>1, <2>2, <2>3, <2>4, FrameHolds
  <2> QED
    BY <2>4
<1>2. Said(World', task') \subseteq S \union WorldSaid(World')
  BY <1>1 DEF Said
<1>3. OneText(World', Said(World', task'))
  BY <1>2 DEF OneText
<1>4. \A u \in Thread : TaskHolds(World', task'[u])
  BY <1>1
<1> QED
  BY <1>3, <1>4 DEF CallsInv

LEMMA TextsKept ==
  ASSUME CallsInv, World'.lastId \in Nat, World'.lastId >= World.lastId,
         WorldSaid(World') \subseteq Said(World, task)
  PROVE  OneText(World', Said(World, task) \union WorldSaid(World'))
<1>1. OneText(World, Said(World, task)) /\ World.lastId \in Nat
  BY DEF CallsInv, StoreTyped
<1>2. 1..World.lastId \subseteq 1..World'.lastId
  BY <1>1
<1> QED
  BY <1>1, <1>2 DEF OneText

LEMMA ParentsUnchanged ==
  ASSUME ParentsWereRead, blocks' = blocks
  PROVE  ParentsWereRead'
BY DEF ParentsWereRead, Summaries, Lines

LEMMA FrameRests ==
  ASSUME NEW w, NEW p, TaskHolds(w, p)
  PROVE  Frame(w, w, p, p)
<1>1. DOMAIN p = Fields
  BY DEF TaskHolds, Typed
<1>2. p.op = "linear" => p.steady \subseteq DOMAIN w.blocks
  <2> SUFFICES ASSUME p.op = "linear" PROVE p.steady \subseteq DOMAIN w.blocks
    OBVIOUS
  <2>1. CASE LinearHolds(w, p)
    BY <2>1 DEF LinearHolds
  <2>2. CASE Idle(p)
    BY <2>2 DEF Idle
  <2> QED
    BY <2>1, <2>2 DEF TaskHolds
<1> QED
  BY <1>1, <1>2 DEF Frame

(* A step of one thread that looks at the world and changes nothing of it. *)
LEMMA ThreadStep ==
  ASSUME CallsInv, NEW t \in Thread, NEW q, task' = [task EXCEPT ![t] = q],
         UNCHANGED <<blocks, lastId, index, known, settled>>,
         TaskHolds(World, q), TaskSaid(q) \subseteq Said(World, task)
  PROVE  CallsInv'
<1>1. World' = World
  BY DEF World
<1>2. DOMAIN task' = Thread /\ task'[t] = q /\ \A u \in Thread \ {t} : task'[u] = task[u]
  BY DEF CallsInv
<1>3. StoreTyped(World') /\ SettledHolds(World') /\ IndexHolds(World')
  BY <1>1 DEF CallsInv
<1>4. Follows(World, World')
  BY <1>1, <1>3 DEF Follows, StoreTyped
<1>5. ASSUME NEW u \in Thread
      PROVE  \/ Frame(World, World', task[u], task'[u])
             \/ TaskHolds(World', task'[u]) /\ TaskSaid(task'[u]) \subseteq Said(World, task)
  <2>1. CASE u = t
    BY <1>1, <1>2, <2>1
  <2>2. CASE u # t
    <3>1. TaskHolds(World, task[u]) /\ task'[u] = task[u]
      BY <1>2, <2>2 DEF CallsInv
    <3>2. Frame(World, World, task[u], task[u])
      BY <3>1, FrameRests
    <3> QED
      BY <1>1, <3>1, <3>2
  <2> QED
    BY <2>1, <2>2
<1>6. WorldSaid(World') \subseteq Said(World, task)
  BY <1>1 DEF Said
<1>7. World'.lastId \in Nat /\ World'.lastId >= World.lastId
  BY <1>1, <1>3 DEF StoreTyped
<1>8. OneText(World', Said(World, task) \union WorldSaid(World'))
  BY <1>6, <1>7, TextsKept
<1>9. ParentsWereRead'
  BY ParentsUnchanged DEF CallsInv
<1> QED
  BY <1>2, <1>3, <1>4, <1>5, <1>8, <1>9, CallsStep

LEMMA RestingHolds ==
  ASSUME NEW w
  PROVE  TaskHolds(w, Resting) /\ TaskSaid(Resting) = {}
<1>1. /\ DOMAIN Resting = Fields /\ Resting.pc = "idle" /\ Resting.ids = <<>> /\ Resting.todo = <<>>
      /\ Resting.batch = <<>> /\ Resting.vectors = <<>> /\ Resting.answer = {}
      /\ Resting.steady = {}
  BY DEF Resting, Fields
<1>2. \A T : <<>> \in Seq(T)
  OBVIOUS
<1>3. DOMAIN <<>> = {}
  OBVIOUS
<1>4. Typed(w, Resting) /\ Idle(Resting)
  BY <1>1, <1>2, <1>3 DEF Typed, Idle
<1>5. TaskSaid(Resting) = {}
  BY <1>1, <1>3 DEF TaskSaid, Pairs, InBatch
<1> QED
  BY <1>4, <1>5 DEF TaskHolds

LEMMA CallsInitInv == Init => CallsInv
<1> SUFFICES ASSUME Init PROVE CallsInv
  OBVIOUS
<1>1. /\ blocks = InitialStore /\ lastId = Cardinality(DOMAIN InitialStore) /\ index = None /\ known = <<>>
      /\ task = [t \in Thread |-> Resting] /\ settled = {}
  BY DEF Init
<1>2. /\ World.blocks = InitialStore /\ World.lastId = Cardinality(DOMAIN InitialStore)
      /\ World.index = None /\ World.known = <<>> /\ World.settled = {}
  BY <1>1, WorldIs
<1>3. /\ lastId \in Nat /\ DOMAIN blocks = 1..lastId
      /\ \A b \in DOMAIN blocks :
           /\ DOMAIN blocks[b] = {"sessions", "text", "parents"}
           /\ blocks[b].parents \subseteq 1..lastId /\ blocks[b].text \in Text
  BY <1>1, StoreAssumption, FS_CardinalityType
<1>4. StoreTyped(World)
  BY <1>1, <1>2, <1>3 DEF StoreTyped
<1>5. \A t \in Thread : TaskHolds(World, task[t]) /\ TaskSaid(task[t]) = {}
  BY <1>1, RestingHolds
<1>6. Said(World, task) = Texts(blocks)
  BY <1>1, <1>2, <1>5 DEF Said, WorldSaid, Pairs
<1>7. OneText(World, Said(World, task))
  <2>1. ASSUME NEW x \in Texts(blocks)
        PROVE  x[1] \in 1..lastId /\ \A y \in Texts(blocks) : x[1] = y[1] => x[2] = y[2]
    <3>1. PICK b \in DOMAIN blocks : x = <<b, blocks[b].text>>
      BY DEF Texts
    <3>2. ASSUME NEW y \in Texts(blocks), x[1] = y[1] PROVE x[2] = y[2]
      <4>1. PICK c \in DOMAIN blocks : y = <<c, blocks[c].text>>
        BY DEF Texts
      <4> QED
        BY <3>1, <3>2, <4>1
    <3> QED
      BY <1>3, <3>1, <3>2
  <2> QED
    BY <1>6, <2>1, WorldIs DEF OneText
<1>8. SettledHolds(World) /\ IndexHolds(World)
  BY <1>2 DEF SettledHolds, IndexHolds
<1>9. ParentsWereRead
  BY <1>3 DEF ParentsWereRead, Summaries
<1> QED
  BY <1>1, <1>4, <1>5, <1>7, <1>8, <1>9 DEF CallsInv

(* Which call a step can be of. *)
LEMMA StepsOf ==
  ASSUME CallsInv, NEW t \in Thread
  PROVE  /\ Typed(World, task[t]) /\ lastId \in Nat
         /\ task[t].pc # "idle" =>
              \/ task[t].op = "hnsw" /\ HnswHolds(World, task[t])
              \/ task[t].op = "linear" /\ LinearHolds(World, task[t])
              \/ task[t].op = "summarize" /\ SummaryHolds(World, task[t])
         /\ TaskSaid(task[t]) \subseteq Said(World, task)
<1>1. TaskHolds(World, task[t])
  BY DEF CallsInv
<1>2. TaskSaid(task[t]) \subseteq Said(World, task)
  BY DEF Said
<1>3. lastId \in Nat
  BY WorldIs DEF CallsInv, StoreTyped
<1> QED
  BY <1>1, <1>2, <1>3 DEF TaskHolds, Idle

LEMMA RetrieveStep ==
  ASSUME CallsInv, NEW t \in Thread, NEW op \in {"hnsw", "linear"}, NEW s \in Session, NEW qu \in Task,
         Retrieve(t, op, s, qu)
  PROVE  CallsInv'
<1> DEFINE q == [Resting EXCEPT !.op = op, !.session = s, !.query = qu,
                                !.pc = IF op = "hnsw" THEN "check" ELSE "list",
                                !.steady = {b \in InSession(s) : Readable(b)}]
<1>1. task' = [task EXCEPT ![t] = q] /\ UNCHANGED <<blocks, lastId, index, known, settled>>
  BY DEF Retrieve, store, caches
<1>2. /\ DOMAIN q = Fields /\ q.op = op /\ q.session = s /\ q.ids = <<>> /\ q.todo = <<>>
      /\ q.pc = (IF op = "hnsw" THEN "check" ELSE "list")
      /\ q.batch = <<>> /\ q.vectors = <<>> /\ q.answer = {}
      /\ q.steady = {b \in InSession(s) : Readable(b)}
  BY DEF Resting, Fields
<1> HIDE DEF q
<1>3. \A T : <<>> \in Seq(T)
  OBVIOUS
<1>4. DOMAIN <<>> = {}
  OBVIOUS
<1>5. Typed(World, q)
  BY <1>2, <1>3, <1>4 DEF Typed
<1>6. Ahead(q) = {} /\ TaskSaid(q) = {}
  BY <1>2, <1>4 DEF Ahead, Range, BatchIds, TaskSaid, Pairs, InBatch
<1>7. CASE op = "hnsw"
  <2>1. HnswHolds(World, q)
    BY <1>2, <1>6, <1>7 DEF HnswHolds, Emptied
  <2>2. TaskHolds(World, q)
    BY <1>2, <1>5, <1>7, <2>1 DEF TaskHolds
  <2> QED
    BY <1>1, <1>6, <2>2, ThreadStep
<1>8. CASE op = "linear"
  <2>1. \A b \in q.steady : b \in DOMAIN blocks /\ s \in blocks[b].sessions /\ blocks[b].text \notin Unreadable
    BY <1>2 DEF InSession, Readable
  <2>2. LinearHolds(World, q)
    BY <1>2, <1>8, <2>1, WorldIs DEF LinearHolds, Emptied
  <2>3. TaskHolds(World, q)
    BY <1>2, <1>5, <1>8, <2>2 DEF TaskHolds
  <2> QED
    BY <1>1, <1>6, <2>3, ThreadStep
<1> QED
  BY <1>7, <1>8

LEMMA CheckIndexStep ==
  ASSUME CallsInv, NEW t \in Thread, CheckIndex(t)
  PROVE  CallsInv'
<1> DEFINE p == task[t]
           q == [p EXCEPT !.pc = IF index # None /\ index.session = p.session THEN "search" ELSE "list"]
<1>1. task' = [task EXCEPT ![t] = q] /\ UNCHANGED <<blocks, lastId, index, known, settled>> /\ p.pc = "check"
  BY DEF CheckIndex, store, caches, At
<1>2. Typed(World, p) /\ p.op = "hnsw" /\ HnswHolds(World, p) /\ TaskSaid(p) \subseteq Said(World, task)
  BY <1>1, StepsOf DEF LinearHolds, SummaryHolds
<1>3. /\ DOMAIN q = Fields /\ q.op = p.op /\ q.session = p.session /\ q.ids = p.ids /\ q.todo = p.todo
      /\ q.batch = p.batch /\ q.vectors = p.vectors /\ q.answer = p.answer /\ q.overtaken = p.overtaken
      /\ q.pc = (IF index # None /\ index.session = p.session THEN "search" ELSE "list")
  BY <1>2 DEF Typed, Fields
<1> HIDE DEF q
<1>4. Typed(World, q) /\ Ahead(q) = Ahead(p) /\ TaskSaid(q) = TaskSaid(p)
  BY <1>2, <1>3 DEF Typed, Ahead, BatchIds, TaskSaid, InBatch
<1>5. HnswHolds(World, q)
  BY <1>1, <1>2, <1>3, <1>4, WorldIs DEF HnswHolds, Emptied
<1>6. TaskHolds(World, q)
  BY <1>2, <1>3, <1>4, <1>5 DEF TaskHolds
<1> QED
  BY <1>1, <1>2, <1>4, <1>6, ThreadStep DEF p

LEMMA ReturnStep ==
  ASSUME CallsInv, NEW t \in Thread, Return(t)
  PROVE  CallsInv'
<1>1. task' = [task EXCEPT ![t] = Resting] /\ UNCHANGED <<blocks, lastId, index, known, settled>>
  BY DEF Return, store, caches
<1> QED
  BY <1>1, RestingHolds, ThreadStep

LEMMA SummarizeStep ==
  ASSUME CallsInv, NEW t \in Thread, NEW s \in Session, Summarize(t, s)
  PROVE  CallsInv'
<1> DEFINE q == [Resting EXCEPT !.op = "summarize", !.session = s, !.pc = "list_last"]
<1>1. task' = [task EXCEPT ![t] = q] /\ UNCHANGED <<blocks, lastId, index, known, settled>>
  BY DEF Summarize, store, caches
<1>2. /\ DOMAIN q = Fields /\ q.op = "summarize" /\ q.ids = <<>> /\ q.todo = <<>> /\ q.pc = "list_last"
      /\ q.batch = <<>> /\ q.answer = {}
  BY DEF Resting, Fields
<1> HIDE DEF q
<1>3. \A T : <<>> \in Seq(T)
  OBVIOUS
<1>4. Typed(World, q) /\ TaskSaid(q) = {}
  BY <1>2, <1>3 DEF Typed, TaskSaid, Retrieving
<1>5. TaskHolds(World, q)
  BY <1>2, <1>4 DEF TaskHolds, SummaryHolds
<1> QED
  BY <1>1, <1>4, <1>5, ThreadStep

(* The list of a session has each of its ids once. *)
LEMMA ListSessionIs ==
  ASSUME CallsInv, NEW s
  PROVE  /\ InSession(s) \subseteq 1..lastId
         /\ ListSession(s) \in Seq(1..lastId) /\ Range(ListSession(s)) = InSession(s)
         /\ \A i, j \in DOMAIN ListSession(s) : ListSession(s)[i] = ListSession(s)[j] => i = j
<1>1. lastId \in Nat /\ InSession(s) \in SUBSET (1..lastId)
  BY WorldIs DEF CallsInv, StoreTyped, InSession
<1>2. /\ ListSession(s) \in Seq(InSession(s)) /\ Range(ListSession(s)) = InSession(s)
      /\ \A i, j \in DOMAIN ListSession(s) : ListSession(s)[i] = ListSession(s)[j] => i = j
  BY <1>1, AscendingLists DEF ListSession
<1>3. ListSession(s) \in Seq(1..lastId)
  <2> DEFINE B == 1..lastId
  <2>1. InSession(s) \subseteq B
    BY <1>1
  <2> HIDE DEF B
  <2>2. ListSession(s) \in Seq(B)
    BY <1>2, <2>1, SeqHolds
  <2> QED
    BY <2>2 DEF B
<1> QED
  BY <1>1, <1>2, <1>3

LEMMA ListStep ==
  ASSUME CallsInv, NEW t \in Thread, List(t)
  PROVE  CallsInv'
<1> DEFINE p == task[t]
           ids == ListSession(p.session)
           todo == IF p.op = "hnsw" THEN ids ELSE Ascending(Range(ids) \ DOMAIN known)
           q == [p EXCEPT !.ids = ids, !.todo = todo,
                          !.pc = IF ids # <<>> THEN "get"
                                 ELSE IF p.op = "hnsw" THEN "install" ELSE "answered"]
<1>1. task' = [task EXCEPT ![t] = q] /\ UNCHANGED <<blocks, lastId, index, known, settled>> /\ p.pc = "list"
  BY DEF List, store, caches, At
<1>2. /\ Typed(World, p) /\ TaskSaid(p) \subseteq Said(World, task) /\ lastId \in Nat
      /\ (p.op = "hnsw" /\ HnswHolds(World, p)) \/ (p.op = "linear" /\ LinearHolds(World, p))
  <2>1. p.pc = "list"
    BY <1>1
  <2>2. ~SummaryHolds(World, p)
    BY <2>1 DEF SummaryHolds
  <2> QED
    BY <2>1, <2>2, StepsOf
<1>3. /\ InSession(p.session) \subseteq 1..lastId
      /\ ids \in Seq(1..lastId) /\ Range(ids) = InSession(p.session)
      /\ \A i, j \in DOMAIN ids : ids[i] = ids[j] => i = j
  BY ListSessionIs
<1>4. todo \in Seq(1..lastId) /\ Range(todo) = (IF p.op = "hnsw" THEN Range(ids) ELSE Range(ids) \ DOMAIN known)
  <2>1. CASE p.op = "hnsw"
    BY <1>3, <2>1
  <2>2. CASE p.op # "hnsw"
    <3> DEFINE R == Range(ids) \ DOMAIN known
               B == 1..lastId
    <3>1. R \in SUBSET B
      BY <1>3
    <3>2. Ascending(R) \in Seq(R) /\ Range(Ascending(R)) = R
      BY <1>2, <3>1, AscendingLists
    <3> HIDE DEF R, B
    <3>3. Ascending(R) \in Seq(B)
      BY <3>1, <3>2, SeqHolds
    <3> QED
      BY <2>2, <3>2, <3>3 DEF R, B
  <2> QED
    BY <2>1, <2>2
<1>5. /\ DOMAIN q = Fields /\ q.op = p.op /\ q.session = p.session /\ q.ids = ids /\ q.todo = todo
      /\ q.batch = p.batch /\ q.vectors = p.vectors /\ q.answer = p.answer /\ q.overtaken = p.overtaken
      /\ q.steady = p.steady /\ q.cleared = p.cleared /\ q.query = p.query
      /\ ids # <<>> => q.pc = "get"
      /\ ids = <<>> => q.pc = IF p.op = "hnsw" THEN "install" ELSE "answered"
  BY <1>2 DEF Typed, Fields
<1>9. ids = <<>> /\ p.op = "hnsw" => todo = <<>>
  OBVIOUS
<1>10. Emptied(p) /\ (p.op = "linear" => p.answer = {})
  BY <1>1, <1>2 DEF HnswHolds, LinearHolds
<1> HIDE DEF q, todo, ids, p
<1>6. Typed(World, q) /\ TaskSaid(q) = TaskSaid(p)
  BY <1>2, <1>3, <1>4, <1>5, WorldIs DEF Typed, TaskSaid, InBatch
<1>7. CASE p.op = "hnsw" /\ HnswHolds(World, p)
  <2>1. Ahead(q) \subseteq Ahead(p) \union InSession(p.session) /\ InSession(p.session) \subseteq Ahead(q)
    BY <1>3, <1>4, <1>5, <1>7 DEF Ahead, BatchIds
  <2>2. \A b \in Ahead(q) \intersect DOMAIN blocks : q.session \in blocks[b].sessions
    BY <1>5, <1>7, <2>1, WorldIs DEF HnswHolds, InSession
  <2>3. \A x \in settled : x[1] = q.session => x[2] \in Ahead(q)
    BY <1>5, <2>1, WorldIs DEF CallsInv, SettledHolds, InSession
  <2>4. q.pc = "get" \/ (q.pc = "install" /\ Emptied(q))
    <3>1. CASE ids # <<>>
      BY <1>5, <3>1
    <3>2. CASE ids = <<>>
      <4>1. q.pc = "install" /\ q.todo = <<>>
        BY <1>5, <1>7, <1>9, <3>2
      <4> QED
        BY <1>5, <1>10, <4>1 DEF Emptied
    <3> QED
      BY <3>1, <3>2
  <2>5. HnswHolds(World, q)
    BY <1>5, <1>7, <2>2, <2>3, <2>4, WorldIs DEF HnswHolds
  <2>6. TaskHolds(World, q)
    BY <1>5, <1>6, <1>7, <2>5 DEF TaskHolds
  <2> QED
    BY <1>1, <1>2, <1>6, <2>6, ThreadStep DEF p
<1>8. CASE p.op = "linear" /\ LinearHolds(World, p)
  <2>1. /\ p.steady \subseteq InSession(p.session)
        /\ \A b \in p.steady : b \in DOMAIN blocks /\ p.session \in blocks[b].sessions /\ blocks[b].text \notin Unreadable
    BY <1>8, WorldIs DEF LinearHolds, InSession
  <2>2. q.steady \subseteq DOMAIN known \union Range(q.todo) \union BatchIds(q) /\ q.steady \subseteq Range(q.ids)
    BY <1>3, <1>4, <1>5, <1>8, <2>1
  <2>3. q.pc = "get" \/ (q.pc = "answered" /\ q.steady = {} /\ q.answer = {})
    <3>1. CASE ids # <<>>
      BY <1>5, <3>1
    <3>2. CASE ids = <<>>
      <4>1. q.pc = "answered"
        BY <1>5, <1>8, <3>2
      <4>2. Range(ids) = {}
        BY <3>2 DEF Range
      <4> QED
        BY <1>3, <1>5, <1>8, <1>10, <2>1, <4>1, <4>2
    <3> QED
      BY <3>1, <3>2
  <2>4. LinearHolds(World, q)
    BY <1>5, <2>1, <2>2, <2>3, WorldIs DEF LinearHolds, FoundAll
  <2>5. TaskHolds(World, q)
    BY <1>5, <1>6, <1>8, <2>4 DEF TaskHolds
  <2> QED
    BY <1>1, <1>2, <1>6, <2>5, ThreadStep DEF p
<1> QED
  BY <1>2, <1>7, <1>8

(* Texts kept for a block are its text. *)
LEMMA KeptTexts ==
  ASSUME CallsInv
  PROVE  /\ DOMAIN known \subseteq 1..lastId
         /\ \A b \in DOMAIN known \intersect DOMAIN blocks : known[b] = blocks[b].text
         /\ index # None =>
              /\ DOMAIN index.vectors \subseteq 1..lastId
              /\ \A b \in DOMAIN index.vectors \intersect DOMAIN blocks : index.vectors[b] = blocks[b].text
<1> DEFINE S == Said(World, task)
<1>1. \A x \in S : x[1] \in 1..lastId /\ \A y \in S : x[1] = y[1] => x[2] = y[2]
  BY WorldIs DEF CallsInv, OneText
<1>2. Texts(blocks) \subseteq S /\ Pairs(known) \subseteq S /\ (index # None => Pairs(index.vectors) \subseteq S)
  BY WorldIs DEF Said, WorldSaid
<1> HIDE DEF S
<1>3. ASSUME NEW f, Pairs(f) \subseteq S
      PROVE  /\ DOMAIN f \subseteq 1..lastId
             /\ \A b \in DOMAIN f \intersect DOMAIN blocks : f[b] = blocks[b].text
  <2>1. ASSUME NEW b \in DOMAIN f PROVE b \in 1..lastId
    <3>1. <<b, f[b]>> \in S
      BY <1>3 DEF Pairs
    <3> QED
      BY <1>1, <3>1
  <2>2. ASSUME NEW b \in DOMAIN f \intersect DOMAIN blocks PROVE f[b] = blocks[b].text
    <3>1. <<b, f[b]>> \in S /\ <<b, blocks[b].text>> \in S
      BY <1>2, <1>3 DEF Pairs, Texts
    <3> QED
      BY <1>1, <3>1
  <2> QED
    BY <2>1, <2>2
<1> QED
  BY <1>2, <1>3

LEMMA SearchStep ==
  ASSUME CallsInv, NEW t \in Thread, Search(t)
  PROVE  CallsInv'
<1> DEFINE p == task[t]
           listed == {b \in Range(p.ids) : b \in DOMAIN known /\ Score(p.query, known[b]) > 0}
           answer == IF p.op = "linear" THEN Ranked(p.query, listed, known)
                     ELSE IF index = None THEN {} ELSE Nearest(p.query, index.vectors)
           q == [p EXCEPT !.pc = "answered", !.answer = answer]
<1>1. task' = [task EXCEPT ![t] = q] /\ UNCHANGED <<blocks, lastId, index, known, settled>> /\ p.pc = "search"
  BY DEF Search, store, caches, At
<1>2. /\ Typed(World, p) /\ TaskSaid(p) \subseteq Said(World, task) /\ lastId \in Nat
      /\ (p.op = "hnsw" /\ HnswHolds(World, p)) \/ (p.op = "linear" /\ LinearHolds(World, p))
  <2>1. ~SummaryHolds(World, p)
    BY <1>1 DEF SummaryHolds
  <2> QED
    BY <1>1, <2>1, StepsOf
<1>3. /\ DOMAIN q = Fields /\ q.op = p.op /\ q.session = p.session /\ q.ids = p.ids /\ q.todo = p.todo
      /\ q.batch = p.batch /\ q.vectors = p.vectors /\ q.overtaken = p.overtaken
      /\ q.steady = p.steady /\ q.cleared = p.cleared /\ q.query = p.query
      /\ q.pc = "answered" /\ q.answer = answer
  BY <1>2 DEF Typed, Fields
<1>4. TaskSaid(q) = TaskSaid(p) /\ Ahead(q) = Ahead(p)
  BY <1>3 DEF TaskSaid, InBatch, Ahead, BatchIds
<1>5. ASSUME answer \subseteq 1..lastId PROVE Typed(World, q)
  <2> HIDE DEF p, q, answer
  <2> QED
    BY <1>2, <1>3, <1>5, WorldIs DEF Typed
<1>6. CASE p.op = "hnsw" /\ HnswHolds(World, p)
  <2>1. index # None => Nearest(p.query, index.vectors) \subseteq DOMAIN index.vectors
    BY DEF Nearest, Ranked
  <2>2. answer \subseteq 1..lastId /\ (index = None => answer = {})
        /\ (index # None => answer \subseteq DOMAIN index.vectors)
    BY <1>6, <2>1, KeptTexts
  <2> HIDE DEF q, p, answer
  <2>3. ~q.overtaken => \A b \in q.answer \intersect DOMAIN blocks : q.session \in blocks[b].sessions
    <3> SUFFICES ASSUME ~q.overtaken, NEW b \in q.answer \intersect DOMAIN blocks
                 PROVE  q.session \in blocks[b].sessions
      OBVIOUS
    <3>1. index # None /\ b \in DOMAIN index.vectors
      BY <1>3, <2>2
    <3>2. index.session = p.session
      BY <1>1, <1>3, <1>6, <3>1, WorldIs DEF HnswHolds, p
    <3> QED
      BY <1>3, <3>1, <3>2, WorldIs DEF CallsInv, IndexHolds
  <2>4. HnswHolds(World, q)
    BY <1>3, <1>4, <1>6, <2>3, WorldIs DEF HnswHolds
  <2>5. TaskHolds(World, q)
    BY <1>3, <1>5, <1>6, <2>2, <2>4 DEF TaskHolds
  <2> QED
    BY <1>1, <1>2, <1>4, <2>5, ThreadStep
<1>7. CASE p.op = "linear" /\ LinearHolds(World, p)
  <2>1. listed \in SUBSET (1..lastId) /\ listed \subseteq DOMAIN known
    BY KeptTexts
  <2>2. answer = Ranked(p.query, listed, known)
    BY <1>7
  <2>3. /\ answer \subseteq listed
        /\ \A b \in listed : b \notin answer =>
             /\ Cardinality(answer) = Limit
             /\ \A c \in answer : Score(p.query, known[c]) >= Score(p.query, known[b])
    <3> HIDE DEF listed, answer, q, p
    <3> QED
      BY <1>2, <2>1, <2>2, RankedIsBest
  <2>4. ASSUME ~p.cleared, NEW b \in p.steady, Score(p.query, blocks[b].text) > 0
        PROVE  b \in listed /\ known[b] = blocks[b].text
    <3>1. p.steady \subseteq Range(p.ids) /\ b \in DOMAIN blocks
      BY <1>1, <1>7, WorldIs DEF LinearHolds
    <3>2. Range(p.todo) = {} /\ BatchIds(p) = {}
      BY <1>1, <1>7 DEF LinearHolds, Emptied, Range, BatchIds
    <3>3. b \in DOMAIN known
      BY <1>1, <1>7, <2>4, <3>2, WorldIs DEF LinearHolds
    <3>4. known[b] = blocks[b].text
      BY <3>1, <3>3, KeptTexts
    <3> QED
      BY <2>4, <3>1, <3>3, <3>4
  <2> HIDE DEF q, p, answer, listed
  <2>5. ~q.cleared => FoundAll(World, q)
    <3> SUFFICES ASSUME ~q.cleared, NEW b \in q.steady, Misses(World, q, b)
                 PROVE  /\ Cardinality(q.answer) = Limit
                        /\ \A c \in q.answer :
                             Score(q.query, World.known[c]) >= Score(q.query, World.blocks[b].text)
      BY DEF FoundAll
    <3>1. ~p.cleared /\ b \in p.steady /\ Score(p.query, blocks[b].text) > 0 /\ b \notin answer
      BY <1>3, WorldIs DEF Misses
    <3>2. b \in listed /\ known[b] = blocks[b].text
      BY <2>4, <3>1
    <3> QED
      BY <1>3, <2>3, <3>1, <3>2, WorldIs
  <2>6. answer \subseteq 1..lastId /\ answer \subseteq DOMAIN known
    BY <2>1, <2>3
  <2>7. p.pc = "search"
    BY <1>1 DEF p
  <2>8. LinearHolds(World, q)
    BY <1>3, <1>7, <2>5, <2>6, <2>7, WorldIs DEF LinearHolds
  <2>9. TaskHolds(World, q)
    BY <1>3, <1>5, <1>7, <2>6, <2>8 DEF TaskHolds
  <2> QED
    BY <1>1, <1>2, <1>4, <2>9, ThreadStep
<1> QED
  BY <1>2, <1>6, <1>7

LEMMA EmbedBatchStep ==
  ASSUME CallsInv, NEW t \in Thread, EmbedBatch(t)
  PROVE  CallsInv'
<1> DEFINE p == task[t]
           q == [p EXCEPT !.pc = IF p.batch # <<>> THEN "store"
                                 ELSE IF p.op = "hnsw" THEN "install" ELSE "search"]
<1>1. /\ UNCHANGED <<blocks, lastId, index, known, settled>> /\ p.pc = "get" /\ p.todo = <<>>
      /\ task' = [task EXCEPT ![t] = q] \/ task' = [task EXCEPT ![t] = Resting]
  BY DEF EmbedBatch, store, caches, At
<1>2. /\ Typed(World, p) /\ TaskSaid(p) \subseteq Said(World, task) /\ lastId \in Nat
      /\ (p.op = "hnsw" /\ HnswHolds(World, p)) \/ (p.op = "linear" /\ LinearHolds(World, p))
  <2>1. ~SummaryHolds(World, p)
    BY <1>1 DEF SummaryHolds
  <2> QED
    BY <1>1, <2>1, StepsOf
<1>3. /\ DOMAIN q = Fields /\ q.op = p.op /\ q.session = p.session /\ q.ids = p.ids /\ q.todo = p.todo
      /\ q.batch = p.batch /\ q.vectors = p.vectors /\ q.overtaken = p.overtaken
      /\ q.steady = p.steady /\ q.cleared = p.cleared /\ q.query = p.query /\ q.answer = p.answer
      /\ p.batch # <<>> => q.pc = "store"
      /\ p.batch = <<>> => q.pc = IF p.op = "hnsw" THEN "install" ELSE "search"
  BY <1>2 DEF Typed, Fields
<1>4. CASE task' = [task EXCEPT ![t] = Resting]
  BY <1>1, <1>4, RestingHolds, ThreadStep
<1>5. CASE task' = [task EXCEPT ![t] = q]
  <2> HIDE DEF q, p
  <2>1. Typed(World, q) /\ TaskSaid(q) = TaskSaid(p) /\ Ahead(q) = Ahead(p) /\ BatchIds(q) = BatchIds(p)
    BY <1>2, <1>3 DEF Typed, TaskSaid, InBatch, Ahead, BatchIds
  <2>2. (q.pc = "store" /\ q.batch # <<>> /\ q.todo = <<>>)
        \/ (q.pc \in {"install", "search"} /\ Emptied(q))
    BY <1>1, <1>3 DEF Emptied
  <2>3. CASE p.op = "hnsw" /\ HnswHolds(World, p)
    <3>1. q.pc # "search"
      BY <1>3, <2>3
    <3>2. HnswHolds(World, q)
      <4>1. \A b \in Ahead(q) \intersect DOMAIN World.blocks : q.session \in World.blocks[b].sessions
        BY <1>3, <2>1, <2>3 DEF HnswHolds
      <4>2. \A x \in World.settled : x[1] = q.session => x[2] \in Ahead(q)
        BY <1>1, <1>3, <2>1, <2>3 DEF HnswHolds
      <4>3. q.pc \in {"store", "install"}
        BY <2>2, <3>1
      <4>4. (q.pc = "store" => q.todo = <<>> /\ q.batch # <<>>) /\ (q.pc = "install" => Emptied(q))
        BY <2>2
      <4> QED
        BY <4>1, <4>2, <4>3, <4>4 DEF HnswHolds
    <3> QED
      BY <1>1, <1>2, <1>3, <1>5, <2>1, <2>3, <3>2, ThreadStep DEF TaskHolds, p
  <2>4. CASE p.op = "linear" /\ LinearHolds(World, p)
    <3>1. q.pc # "install"
      BY <1>3, <2>4
    <3>2. LinearHolds(World, q)
      <4>1. q.steady \subseteq Range(q.ids)
        BY <1>1, <1>3, <2>4 DEF LinearHolds
      <4>2. ~q.cleared => q.steady \subseteq DOMAIN World.known \union Range(q.todo) \union BatchIds(q)
        BY <1>1, <1>3, <2>1, <2>4 DEF LinearHolds
      <4>3. q.pc \in {"store", "search"}
        BY <2>2, <3>1
      <4>4. (q.pc = "store" => q.todo = <<>> /\ q.batch # <<>>) /\ (q.pc = "search" => Emptied(q))
        BY <2>2
      <4> QED
        BY <1>3, <2>4, <4>1, <4>2, <4>3, <4>4 DEF LinearHolds
    <3> QED
      BY <1>1, <1>2, <1>3, <1>5, <2>1, <2>4, <3>2, ThreadStep DEF TaskHolds, p
  <2> QED
    BY <1>2, <2>3, <2>4
<1> QED
  BY <1>1, <1>4, <1>5

(* A batch that grows and one that is worked off. *)
Grown(p, q, b, x) ==
  /\ q.batch \in Seq(Range(q.batch)) /\ q.batch # <<>>
  /\ BatchIds(q) = BatchIds(p) \union {b}
  /\ InBatch(q) = InBatch(p) \union {<<b, x>>}

LEMMA BatchGrows ==
  ASSUME NEW p, NEW q, NEW b, NEW x, p.batch \in Seq(Range(p.batch)),
         q.batch = Append(p.batch, [id |-> b, text |-> x])
  PROVE  Grown(p, q, b, x)
<1> DEFINE e == [id |-> b, text |-> x]
           n == Len(p.batch)
<1>1. e.id = b /\ e.text = x
  OBVIOUS
<1> HIDE DEF e
<1>2. q.batch = Append(p.batch, e)
  BY DEF e
<1>3. /\ q.batch \in Seq(Range(q.batch)) /\ n \in Nat /\ Len(q.batch) = n + 1
      /\ DOMAIN p.batch = 1..n /\ DOMAIN q.batch = 1..(n + 1)
      /\ \A i \in 1..n : q.batch[i] = p.batch[i]
      /\ q.batch[n + 1] = e
  BY <1>2, AppendTo
<1> HIDE DEF n
<1>4. DOMAIN q.batch = DOMAIN p.batch \union {n + 1} /\ n + 1 \notin DOMAIN p.batch
  BY <1>3
<1>5. BatchIds(q) = BatchIds(p) \union {b}
  BY <1>1, <1>3, <1>4 DEF BatchIds
<1>6. InBatch(q) = InBatch(p) \union {<<b, x>>}
  BY <1>1, <1>3, <1>4 DEF InBatch
<1>7. q.batch # <<>>
  BY <1>3
<1> QED
  BY <1>3, <1>5, <1>6, <1>7 DEF Grown

Shrunk(p, q) ==
  /\ q.batch \in Seq(Range(q.batch))
  /\ BatchIds(p) = BatchIds(q) \union {Head(p.batch).id}
  /\ InBatch(q) \subseteq InBatch(p)
  /\ <<Head(p.batch).id, Head(p.batch).text>> \in InBatch(p)
  /\ q.batch = <<>> <=> ~(Len(p.batch) > 1)

LEMMA BatchShrinks ==
  ASSUME NEW p, NEW q, p.batch \in Seq(Range(p.batch)), p.batch # <<>>, q.batch = Tail(p.batch)
  PROVE  Shrunk(p, q)
<1> DEFINE s == p.batch
           u == q.batch
<1>1. /\ Head(s) = s[1] /\ Len(s) \in Nat /\ Len(s) > 0 /\ DOMAIN s = 1..Len(s)
      /\ DOMAIN u = 1..(Len(s) - 1) /\ Len(u) = Len(s) - 1
      /\ \A i \in DOMAIN u : i \in Nat /\ i > 0 /\ i + 1 \in DOMAIN s /\ u[i] = s[i + 1]
      /\ u \in Seq(Range(s))
  <2>1. s \in Seq(Range(s)) /\ s # <<>> /\ u = Tail(s)
    OBVIOUS
  <2> HIDE DEF s, u
  <2> QED
    BY <2>1, HeadAndTail
<1> HIDE DEF s, u
<1>2. u \in Seq(Range(u))
  BY <1>1, SeqHolds
<1>3. 1 \in DOMAIN s /\ \A i \in DOMAIN s : i = 1 \/ (i - 1 \in DOMAIN u /\ u[i - 1] = s[i])
  <2>1. ASSUME NEW i \in DOMAIN s, i # 1 PROVE i - 1 \in DOMAIN u /\ u[i - 1] = s[i]
    <3>1. i - 1 \in DOMAIN u /\ (i - 1) + 1 = i
      BY <1>1, <2>1
    <3> QED
      BY <1>1, <3>1
  <2> QED
    BY <1>1, <2>1
<1>4. BatchIds(p) = {s[i].id : i \in DOMAIN s} /\ BatchIds(q) = {u[i].id : i \in DOMAIN u}
  BY DEF BatchIds, s, u
<1>5. InBatch(p) = {<<s[i].id, s[i].text>> : i \in DOMAIN s} /\ InBatch(q) = {<<u[i].id, u[i].text>> : i \in DOMAIN u}
  BY DEF InBatch, s, u
<1>6. BatchIds(p) = BatchIds(q) \union {Head(s).id}
  <2>1. BatchIds(p) \subseteq BatchIds(q) \union {Head(s).id}
    BY <1>1, <1>3, <1>4
  <2>2. BatchIds(q) \union {Head(s).id} \subseteq BatchIds(p)
    BY <1>1, <1>3, <1>4
  <2> QED
    BY <2>1, <2>2
<1>7. InBatch(q) \subseteq InBatch(p) /\ <<Head(s).id, Head(s).text>> \in InBatch(p)
  <2>1. ASSUME NEW i \in DOMAIN u PROVE <<u[i].id, u[i].text>> \in InBatch(p)
    <3>1. i + 1 \in DOMAIN s /\ u[i] = s[i + 1]
      BY <1>1
    <3> QED
      BY <1>5, <3>1
  <2>2. <<Head(s).id, Head(s).text>> \in InBatch(p)
    BY <1>1, <1>3, <1>5
  <2> QED
    BY <1>5, <2>1, <2>2
<1>8. u = <<>> <=> ~(Len(s) > 1)
  BY <1>1, <1>2
<1> QED
  BY <1>2, <1>6, <1>7, <1>8 DEF s, u, Shrunk

LEMMA LoadHnswStep ==
  ASSUME CallsInv, NEW t \in Thread, Load(t), task[t].op = "hnsw"
  PROVE  CallsInv'
<1> DEFINE p == task[t]
           b == Head(p.todo)
           onDisk == b \in DOMAIN blocks /\ OnDisk(blocks[b].text)
           more == b \in DOMAIN blocks /\ ~onDisk /\ Readable(b)
           q == [p EXCEPT !.todo = Tail(@),
                          !.vectors = IF onDisk /\ p.op = "hnsw" THEN With(@, b, blocks[b].text) ELSE @,
                          !.batch = IF more THEN Append(@, [id |-> b, text |-> blocks[b].text]) ELSE @]
<1>1. /\ UNCHANGED <<blocks, lastId, index, known, settled>> /\ p.pc = "get" /\ p.todo # <<>>
      /\ task' = [task EXCEPT ![t] = q]
  <2>1. known' = known
    BY DEF Load
  <2> QED
    BY <2>1 DEF Load, store, At
<1>2. /\ Typed(World, p) /\ TaskSaid(p) \subseteq Said(World, task) /\ lastId \in Nat
      /\ HnswHolds(World, p)
  <2>1. ~SummaryHolds(World, p)
    BY <1>1 DEF SummaryHolds
  <2> QED
    BY <1>1, <2>1, StepsOf
<1>3. /\ DOMAIN q = Fields /\ q.op = "hnsw" /\ q.session = p.session /\ q.ids = p.ids
      /\ q.pc = "get" /\ q.overtaken = p.overtaken
      /\ q.steady = p.steady /\ q.cleared = p.cleared /\ q.query = p.query /\ q.answer = p.answer
      /\ q.todo = Tail(p.todo)
      /\ q.vectors = IF onDisk THEN With(p.vectors, b, blocks[b].text) ELSE p.vectors
      /\ q.batch = IF more THEN Append(p.batch, [id |-> b, text |-> blocks[b].text]) ELSE p.batch
  BY <1>1, <1>2 DEF Typed, Fields
<1>4. /\ onDisk => b \in DOMAIN blocks
      /\ more => b \in DOMAIN blocks
      /\ b \in DOMAIN blocks /\ blocks[b].text \notin Unreadable => onDisk \/ more
  BY DEF Readable
<1>5. p.op = "hnsw"
  OBVIOUS
<1> HIDE DEF onDisk, more, q, p
<1>6. /\ Tail(p.todo) \in Seq(1..lastId) /\ Range(p.todo) = {b} \union Range(Tail(p.todo))
  <2> DEFINE B == 1..lastId
  <2>1. p.todo \in Seq(B) /\ p.todo # <<>>
    BY <1>1, <1>2, WorldIs DEF Typed, p
  <2> HIDE DEF B
  <2>2. Tail(p.todo) \in Seq(B) /\ Range(p.todo) = {b} \union Range(Tail(p.todo))
    BY <2>1, HeadAndTail
  <2> QED
    BY <2>2 DEF B
<1> HIDE DEF b
<1>7. p.batch \in Seq(Range(p.batch))
  BY <1>2 DEF Typed
<1>8. /\ q.batch \in Seq(Range(q.batch))
      /\ BatchIds(q) = BatchIds(p) \union (IF more THEN {b} ELSE {})
      /\ InBatch(q) = InBatch(p) \union (IF more THEN {<<b, blocks[b].text>>} ELSE {})
  <2>1. CASE more
    <3>1. q.batch = Append(p.batch, [id |-> b, text |-> blocks[b].text])
      BY <1>3, <2>1
    <3>2. /\ q.batch \in Seq(Range(q.batch))
          /\ BatchIds(q) = BatchIds(p) \union {b}
          /\ InBatch(q) = InBatch(p) \union {<<b, blocks[b].text>>}
      <4> DEFINE x == blocks[b].text
      <4>1. q.batch = Append(p.batch, [id |-> b, text |-> x])
        BY <3>1
      <4> HIDE DEF x
      <4>2. Grown(p, q, b, x)
        BY <1>7, <4>1, BatchGrows
      <4> QED
        BY <4>2 DEF x, Grown
    <3> QED
      BY <2>1, <3>2
  <2>2. CASE ~more
    BY <1>3, <1>7, <2>2 DEF BatchIds, InBatch
  <2> QED
    BY <2>1, <2>2
<1>9. /\ DOMAIN q.vectors = DOMAIN p.vectors \union (IF onDisk THEN {b} ELSE {})
      /\ Pairs(q.vectors) \subseteq Pairs(p.vectors) \union (IF onDisk THEN {<<b, blocks[b].text>>} ELSE {})
  <2>1. CASE onDisk
    <3>1. q.vectors = With(p.vectors, b, blocks[b].text)
      BY <1>3, <2>1
    <3>2. /\ DOMAIN q.vectors = DOMAIN p.vectors \union {b}
          /\ Pairs(q.vectors) \subseteq Pairs(p.vectors) \union {<<b, blocks[b].text>>}
      <4> DEFINE x == blocks[b].text
      <4>1. q.vectors = With(p.vectors, b, x)
        BY <3>1
      <4> HIDE DEF x
      <4>2. DOMAIN With(p.vectors, b, x) = DOMAIN p.vectors \union {b}
        BY Withs
      <4>3. Pairs(With(p.vectors, b, x)) \subseteq Pairs(p.vectors) \union {<<b, x>>}
        BY Withs
      <4> QED
        BY <4>1, <4>2, <4>3 DEF x
    <3> QED
      BY <2>1, <3>2
  <2>2. CASE ~onDisk
    BY <1>3, <2>2
  <2> QED
    BY <2>1, <2>2
<1>10. TaskSaid(q) \subseteq Said(World, task)
  <2>1. TaskSaid(p) = Pairs(p.vectors) \union InBatch(p) /\ TaskSaid(q) = Pairs(q.vectors) \union InBatch(q)
    BY <1>3, <1>5 DEF TaskSaid, Retrieving
  <2>2. b \in DOMAIN blocks => <<b, blocks[b].text>> \in Said(World, task)
    BY WorldIs DEF Said, WorldSaid, Texts
  <2> QED
    BY <1>2, <1>4, <1>8, <1>9, <2>1, <2>2
<1>11. Typed(World, q)
  BY <1>2, <1>3, <1>6, <1>8, WorldIs DEF Typed
<1>12. /\ Ahead(q) \subseteq Ahead(p)
       /\ \A x \in Ahead(p) : x \in DOMAIN blocks /\ blocks[x].text \notin Unreadable => x \in Ahead(q)
  BY <1>3, <1>4, <1>6, <1>8, <1>9 DEF Ahead
<1>13. HnswHolds(World, q)
  <2>1. \A x \in World.settled : x[1] = q.session => x[2] \in Ahead(q)
    <3> SUFFICES ASSUME NEW x \in settled, x[1] = q.session PROVE x[2] \in Ahead(q)
      BY WorldIs
    <3>1. x[2] \in DOMAIN blocks /\ blocks[x[2]].text \notin Unreadable
      BY WorldIs DEF CallsInv, SettledHolds
    <3>2. x[2] \in Ahead(p)
      BY <1>1, <1>2, <1>3, WorldIs DEF HnswHolds, p
    <3> QED
      BY <1>12, <3>1, <3>2
  <2> QED
    BY <1>2, <1>3, <1>12, <2>1 DEF HnswHolds
<1>14. TaskHolds(World, q)
  BY <1>3, <1>11, <1>13 DEF TaskHolds
<1> QED
  BY <1>1, <1>10, <1>14, ThreadStep

(* A step of one thread that keeps a vector, of a text somebody has said.  *)
LEMMA KnownStep ==
  ASSUME CallsInv, NEW t \in Thread, NEW q, task' = [task EXCEPT ![t] = q],
         UNCHANGED <<blocks, lastId, index, settled>>,
         \A b \in DOMAIN known : b \in DOMAIN known' /\ known'[b] = known[b],
         Pairs(known') \subseteq Said(World, task),
         TaskHolds(World', q), TaskSaid(q) \subseteq Said(World, task)
  PROVE  CallsInv'
<1>1. DOMAIN task' = Thread /\ task'[t] = q /\ \A u \in Thread \ {t} : task'[u] = task[u]
  BY DEF CallsInv
<1>2. StoreTyped(World) /\ SettledHolds(World) /\ IndexHolds(World)
  BY DEF CallsInv
<1>3. StoreTyped(World') /\ SettledHolds(World') /\ IndexHolds(World')
  BY <1>2, WorldIs DEF StoreTyped, SettledHolds, IndexHolds
<1>4. Follows(World, World')
  BY <1>2, WorldIs DEF Follows, StoreTyped
<1>5. ASSUME NEW u \in Thread
      PROVE  \/ Frame(World, World', task[u], task'[u])
             \/ TaskHolds(World', task'[u]) /\ TaskSaid(task'[u]) \subseteq Said(World, task)
  <2>1. CASE u = t
    BY <1>1, <2>1
  <2>2. CASE u # t
    <3>1. TaskHolds(World, task[u]) /\ task'[u] = task[u]
      BY <1>1, <2>2 DEF CallsInv
    <3>2. Frame(World, World, task[u], task[u])
      BY <3>1, FrameRests
    <3>3. Frame(World, World', task[u], task[u])
      BY <3>2, WorldIs DEF Frame
    <3> QED
      BY <3>1, <3>3
  <2> QED
    BY <2>1, <2>2
<1>6. WorldSaid(World') \subseteq Said(World, task)
  BY WorldIs DEF Said, WorldSaid
<1>7. World'.lastId \in Nat /\ World'.lastId >= World.lastId
  BY <1>3, WorldIs DEF StoreTyped
<1>8. OneText(World', Said(World, task) \union WorldSaid(World'))
  BY <1>6, <1>7, TextsKept
<1>9. ParentsWereRead'
  BY ParentsUnchanged DEF CallsInv
<1> QED
  BY <1>1, <1>3, <1>4, <1>5, <1>8, <1>9, CallsStep

Learnt(b) ==
  /\ DOMAIN known' = DOMAIN known \union {b}
  /\ \A c \in DOMAIN known : known'[c] = known[c]
  /\ Pairs(known') \subseteq Said(World, task)

LEMMA Learns ==
  ASSUME CallsInv, NEW b, NEW x, <<b, x>> \in Said(World, task), known' = With(known, b, x)
  PROVE  Learnt(b)
<1>1. /\ DOMAIN With(known, b, x) = DOMAIN known \union {b}
      /\ With(known, b, x)[b] = x
      /\ \A c \in DOMAIN known : c # b => With(known, b, x)[c] = known[c]
  BY DEF With
<1>2. Pairs(With(known, b, x)) \subseteq Pairs(known) \union {<<b, x>>}
  BY Withs
<1>3. Pairs(known) \subseteq Said(World, task)
  BY WorldIs DEF Said, WorldSaid
<1>4. b \in DOMAIN known => known[b] = x
  <2> SUFFICES ASSUME b \in DOMAIN known PROVE known[b] = x
    OBVIOUS
  <2>1. <<b, known[b]>> \in Said(World, task)
    BY <1>3 DEF Pairs
  <2> QED
    BY <2>1 DEF CallsInv, OneText
<1> QED
  BY <1>1, <1>2, <1>3, <1>4 DEF Learnt

LEMMA LoadLinearStep ==
  ASSUME CallsInv, NEW t \in Thread, Load(t), task[t].op # "hnsw"
  PROVE  CallsInv'
<1> DEFINE p == task[t]
           b == Head(p.todo)
           onDisk == b \in DOMAIN blocks /\ OnDisk(blocks[b].text)
           more == b \in DOMAIN blocks /\ ~onDisk /\ Readable(b)
           q == [p EXCEPT !.todo = Tail(@),
                          !.vectors = IF onDisk /\ p.op = "hnsw" THEN With(@, b, blocks[b].text) ELSE @,
                          !.batch = IF more THEN Append(@, [id |-> b, text |-> blocks[b].text]) ELSE @]
<1>1. /\ UNCHANGED <<blocks, lastId, index, settled>> /\ p.pc = "get" /\ p.todo # <<>>
      /\ task' = [task EXCEPT ![t] = q]
      /\ known' = IF onDisk /\ p.op = "linear" THEN With(known, b, blocks[b].text) ELSE known
  BY DEF Load, store, At
<1>2. /\ Typed(World, p) /\ TaskSaid(p) \subseteq Said(World, task) /\ lastId \in Nat
      /\ p.op = "linear" /\ LinearHolds(World, p)
  <2>1. ~SummaryHolds(World, p)
    BY <1>1 DEF SummaryHolds
  <2> QED
    BY <1>1, <2>1, StepsOf
<1>3. /\ DOMAIN q = Fields /\ q.op = "linear" /\ q.session = p.session /\ q.ids = p.ids
      /\ q.pc = "get" /\ q.overtaken = p.overtaken /\ q.vectors = p.vectors
      /\ q.steady = p.steady /\ q.cleared = p.cleared /\ q.query = p.query /\ q.answer = p.answer
      /\ q.todo = Tail(p.todo)
      /\ q.batch = IF more THEN Append(p.batch, [id |-> b, text |-> blocks[b].text]) ELSE p.batch
  BY <1>1, <1>2 DEF Typed, Fields
<1>4. /\ onDisk => b \in DOMAIN blocks
      /\ more => b \in DOMAIN blocks
      /\ b \in DOMAIN blocks /\ blocks[b].text \notin Unreadable => onDisk \/ more
  BY DEF Readable
<1> HIDE DEF onDisk, more, q, p
<1>5. /\ Tail(p.todo) \in Seq(1..lastId) /\ Range(p.todo) = {b} \union Range(Tail(p.todo))
  <2> DEFINE B == 1..lastId
  <2>1. p.todo \in Seq(B) /\ p.todo # <<>>
    BY <1>1, <1>2, WorldIs DEF Typed, p
  <2> HIDE DEF B
  <2>2. Tail(p.todo) \in Seq(B) /\ Range(p.todo) = {b} \union Range(Tail(p.todo))
    BY <2>1, HeadAndTail
  <2> QED
    BY <2>2 DEF B
<1> HIDE DEF b
<1>6. b \in DOMAIN blocks => <<b, blocks[b].text>> \in Said(World, task)
  BY WorldIs DEF Said, WorldSaid, Texts
<1>7. /\ q.batch \in Seq(Range(q.batch))
      /\ BatchIds(q) = BatchIds(p) \union (IF more THEN {b} ELSE {})
      /\ InBatch(q) \subseteq InBatch(p) \union (IF more THEN {<<b, blocks[b].text>>} ELSE {})
  <2>1. p.batch \in Seq(Range(p.batch))
    BY <1>2 DEF Typed
  <2>2. CASE more
    <3> DEFINE x == blocks[b].text
    <3>1. q.batch = Append(p.batch, [id |-> b, text |-> x])
      BY <1>3, <2>2
    <3> HIDE DEF x
    <3>2. Grown(p, q, b, x)
      BY <2>1, <3>1, BatchGrows
    <3> QED
      BY <2>2, <3>2 DEF x, Grown
  <2>3. CASE ~more
    BY <1>3, <2>1, <2>3 DEF BatchIds, InBatch
  <2> QED
    BY <2>2, <2>3
<1>8. /\ \A c \in DOMAIN known : c \in DOMAIN known' /\ known'[c] = known[c]
      /\ Pairs(known') \subseteq Said(World, task)
      /\ onDisk => b \in DOMAIN known'
  <2>1. CASE onDisk
    <3> DEFINE x == blocks[b].text
    <3>1. known' = With(known, b, x) /\ <<b, x>> \in Said(World, task)
      BY <1>1, <1>2, <1>4, <1>6, <2>1
    <3> HIDE DEF x
    <3>2. Learnt(b)
      BY <3>1, Learns
    <3> QED
      BY <3>2 DEF Learnt
  <2>2. CASE ~onDisk
    <3>1. known' = known
      BY <1>1, <2>2
    <3> QED
      BY <2>2, <3>1, WorldIs DEF Said, WorldSaid
  <2> QED
    BY <2>1, <2>2
<1>9. TaskSaid(q) \subseteq Said(World, task)
  <2>1. TaskSaid(p) = Pairs(p.vectors) \union InBatch(p) /\ TaskSaid(q) = Pairs(p.vectors) \union InBatch(q)
    BY <1>2, <1>3 DEF TaskSaid, Retrieving
  <2> QED
    BY <1>2, <1>4, <1>6, <1>7, <2>1
<1>10. Typed(World', q)
  BY <1>1, <1>2, <1>3, <1>5, <1>7, WorldIs DEF Typed
<1>11. LinearHolds(World', q)
  <2>1. ASSUME ~q.cleared, NEW c \in q.steady
        PROVE  c \in DOMAIN known' \union Range(q.todo) \union BatchIds(q)
    <3>1. c \in DOMAIN blocks /\ blocks[c].text \notin Unreadable
      BY <1>2, <1>3, WorldIs DEF LinearHolds
    <3>2. p.pc = "get" /\ ~p.cleared /\ c \in p.steady
      BY <1>1, <1>3, <2>1 DEF p
    <3>3. c \in DOMAIN known \union Range(p.todo) \union BatchIds(p)
      BY <1>2, <3>2, WorldIs DEF LinearHolds
    <3>4. CASE c = b
      BY <1>4, <1>7, <1>8, <3>1, <3>4
    <3>5. CASE c # b
      BY <1>3, <1>5, <1>7, <1>8, <3>3, <3>5
    <3> QED
      BY <3>4, <3>5
  <2>2. p.pc = "get"
    BY <1>1 DEF p
  <2>3. /\ \A c \in q.steady :
             c \in DOMAIN blocks /\ q.session \in blocks[c].sessions /\ blocks[c].text \notin Unreadable
        /\ q.steady \subseteq Range(q.ids)
    BY <1>2, <1>3, <2>2, WorldIs DEF LinearHolds
  <2> QED
    BY <1>1, <1>3, <2>1, <2>3, WorldIs DEF LinearHolds
<1>12. TaskHolds(World', q)
  BY <1>3, <1>10, <1>11 DEF TaskHolds
<1>13. task' = [task EXCEPT ![t] = q]
  BY <1>1
<1> QED
  BY <1>1, <1>8, <1>9, <1>12, <1>13, KnownStep

LEMMA LoadStep ==
  ASSUME CallsInv, NEW t \in Thread, Load(t)
  PROVE  CallsInv'
BY LoadHnswStep, LoadLinearStep

(* The vector written is one of the batch. *)
LEMMA StoreVectorStep ==
  ASSUME CallsInv, NEW t \in Thread, StoreVector(t)
  PROVE  CallsInv'
<1> DEFINE p == task[t]
           e == Head(p.batch)
           pc == IF Len(p.batch) > 1 THEN "store" ELSE IF p.op = "hnsw" THEN "install" ELSE "search"
           q == [p EXCEPT !.batch = Tail(@),
                          !.vectors = IF p.op = "hnsw" THEN With(@, e.id, e.text) ELSE @,
                          !.pc = pc]
<1>1. UNCHANGED <<blocks, lastId, index, settled>> /\ p.pc = "store"
  BY DEF StoreVector, store, At
<1>2. /\ Typed(World, p) /\ TaskSaid(p) \subseteq Said(World, task) /\ lastId \in Nat
      /\ (p.op = "hnsw" /\ HnswHolds(World, p)) \/ (p.op = "linear" /\ LinearHolds(World, p))
  <2>1. ~SummaryHolds(World, p)
    BY <1>1 DEF SummaryHolds
  <2> QED
    BY <1>1, <2>1, StepsOf
<1>3. CASE task' = [task EXCEPT ![t] = Resting] /\ UNCHANGED <<known, persistent>>
  BY <1>1, <1>3, RestingHolds, ThreadStep
<1>4. CASE /\ known' = IF p.op = "linear" THEN With(known, e.id, e.text) ELSE known
           /\ task' = [task EXCEPT ![t] = q]
  <2>1. /\ DOMAIN q = Fields /\ q.op = p.op /\ q.session = p.session /\ q.ids = p.ids
        /\ q.pc = pc /\ q.overtaken = p.overtaken /\ q.todo = p.todo
        /\ q.vectors = (IF p.op = "hnsw" THEN With(p.vectors, e.id, e.text) ELSE p.vectors)
        /\ q.steady = p.steady /\ q.cleared = p.cleared /\ q.query = p.query /\ q.answer = p.answer
        /\ q.batch = Tail(p.batch)
    BY <1>2 DEF Typed, Fields
  <2>2. p.todo = <<>> /\ p.batch # <<>>
    BY <1>1, <1>2 DEF HnswHolds, LinearHolds
  <2>3. known' = (IF p.op = "linear" THEN With(known, e.id, e.text) ELSE known) /\ task' = [task EXCEPT ![t] = q]
    BY <1>4
  <2>13. p.pc = "store"
    BY <1>1
  <2> HIDE DEF q, p
  <2>4. Shrunk(p, q)
    <3>1. p.batch \in Seq(Range(p.batch))
      BY <1>2 DEF Typed
    <3> QED
      BY <2>1, <2>2, <3>1, BatchShrinks
  <2>5. /\ q.batch \in Seq(Range(q.batch)) /\ BatchIds(p) = BatchIds(q) \union {e.id}
        /\ InBatch(q) \subseteq InBatch(p) /\ <<e.id, e.text>> \in InBatch(p)
        /\ q.batch = <<>> <=> ~(Len(p.batch) > 1)
    BY <2>4 DEF Shrunk
  <2>6. (q.pc = "store" /\ q.batch # <<>> /\ q.todo = <<>>)
        \/ (q.pc = (IF p.op = "hnsw" THEN "install" ELSE "search") /\ Emptied(q))
    BY <2>1, <2>2, <2>5 DEF Emptied
  <2> DEFINE i == e.id
             x == e.text
  <2>7. <<i, x>> \in Said(World, task)
    BY <1>2, <2>5 DEF TaskSaid, Retrieving
  <2>8. Typed(World, q) /\ Typed(World', q)
    BY <1>1, <1>2, <2>1, <2>5, WorldIs DEF Typed
  <2>9. CASE p.op = "hnsw" /\ HnswHolds(World, p)
    <3>1. q.vectors = With(p.vectors, i, x) /\ known' = known
      BY <2>1, <2>3, <2>9
    <3> HIDE DEF i, x
    <3>2. DOMAIN With(p.vectors, i, x) = DOMAIN p.vectors \union {i}
      BY Withs
    <3>3. Pairs(With(p.vectors, i, x)) \subseteq Pairs(p.vectors) \union {<<i, x>>}
      BY Withs
    <3>4. TaskSaid(q) \subseteq Said(World, task)
      BY <1>2, <2>1, <2>5, <2>7, <2>9, <3>1, <3>3 DEF TaskSaid, Retrieving
    <3>5. Ahead(q) = Ahead(p)
      BY <2>1, <2>5, <3>1, <3>2 DEF Ahead, i
    <3>6. HnswHolds(World, q)
      <4>1. \A b \in Ahead(q) \intersect DOMAIN World.blocks : q.session \in World.blocks[b].sessions
        BY <2>1, <2>9, <3>5 DEF HnswHolds
      <4>2. \A y \in World.settled : y[1] = q.session => y[2] \in Ahead(q)
        BY <2>1, <2>9, <2>13, <3>5 DEF HnswHolds
      <4>3. q.pc \in {"store", "install"}
        BY <2>6, <2>9
      <4>4. (q.pc = "store" => q.todo = <<>> /\ q.batch # <<>>) /\ (q.pc = "install" => Emptied(q))
        BY <2>6
      <4> QED
        BY <4>1, <4>2, <4>3, <4>4 DEF HnswHolds
    <3>7. TaskHolds(World, q)
      BY <2>1, <2>8, <2>9, <3>6 DEF TaskHolds
    <3> QED
      BY <1>1, <2>3, <3>1, <3>4, <3>7, ThreadStep
  <2>10. CASE p.op = "linear" /\ LinearHolds(World, p)
    <3>1. known' = With(known, i, x) /\ q.vectors = p.vectors
      BY <2>1, <2>3, <2>10
    <3>2. Learnt(i)
      <4> HIDE DEF i, x
      <4> QED
        BY <2>7, <3>1, Learns
    <3>3. /\ DOMAIN known' = DOMAIN known \union {i}
          /\ \A c \in DOMAIN known : c \in DOMAIN known' /\ known'[c] = known[c]
          /\ Pairs(known') \subseteq Said(World, task)
      BY <3>2 DEF Learnt
    <3>4. TaskSaid(q) \subseteq Said(World, task)
      BY <1>2, <2>1, <2>5, <2>10, <3>1 DEF TaskSaid, Retrieving
    <3>5. LinearHolds(World', q)
      <4>1. ASSUME ~q.cleared PROVE q.steady \subseteq DOMAIN known' \union Range(q.todo) \union BatchIds(q)
        <5>1. p.steady \subseteq DOMAIN known \union Range(p.todo) \union BatchIds(p)
          BY <2>1, <2>10, <2>13, <4>1, WorldIs DEF LinearHolds
        <5> QED
          BY <2>1, <2>5, <3>3, <5>1
      <4>2. /\ \A c \in q.steady :
                 c \in DOMAIN blocks /\ q.session \in blocks[c].sessions /\ blocks[c].text \notin Unreadable
            /\ q.steady \subseteq Range(q.ids)
        BY <2>1, <2>10, <2>13, WorldIs DEF LinearHolds
      <4>3. q.pc \in {"store", "search"}
        BY <2>6, <2>10
      <4>4. (q.pc = "store" => q.todo = <<>> /\ q.batch # <<>>) /\ (q.pc = "search" => Emptied(q))
        BY <2>6
      <4> QED
        BY <1>1, <4>1, <4>2, <4>3, <4>4, WorldIs DEF LinearHolds
    <3>6. TaskHolds(World', q)
      BY <2>1, <2>8, <2>10, <3>5 DEF TaskHolds
    <3>7. task' = [task EXCEPT ![t] = q]
      BY <2>3
    <3> QED
      BY <1>1, <3>3, <3>4, <3>6, <3>7, KnownStep
  <2> QED
    BY <1>2, <2>9, <2>10
<1> QED
  BY <1>3, <1>4 DEF StoreVector

-----------------------------------------------------------------------------
(* Steps that all calls notice.                                            *)

(* The index built is of this call's session, and whoever has settled on   *)
(* blocks of it finds them there.                                          *)
LEMMA InstallStep ==
  ASSUME CallsInv, NEW t \in Thread, Install(t)
  PROVE  CallsInv'
<1> DEFINE p == task[t]
           q == [p EXCEPT !.pc = "search"]
<1>1. UNCHANGED <<blocks, lastId, known, settled>> /\ p.pc = "install" /\ index' = Built(t)
  BY DEF Install, store, At
<1>2. DOMAIN task' = Thread /\ task'[t] = q
      /\ \A u \in Thread \ {t} : task'[u] = [task[u] EXCEPT !.overtaken = (task[u].pc # "idle")]
  BY DEF Install
<1>3. /\ Typed(World, p) /\ TaskSaid(p) \subseteq Said(World, task) /\ lastId \in Nat
      /\ p.op = "hnsw" /\ HnswHolds(World, p)
  BY <1>1, StepsOf DEF LinearHolds, SummaryHolds
<1>4. /\ DOMAIN q = Fields /\ q.op = p.op /\ q.session = p.session /\ q.ids = p.ids /\ q.todo = p.todo
      /\ q.batch = p.batch /\ q.vectors = p.vectors /\ q.answer = p.answer /\ q.pc = "search"
  BY <1>3 DEF Typed, Fields
<1>5. /\ DOMAIN p.vectors = {} => index' = None
      /\ DOMAIN p.vectors # {} => index' = [session |-> p.session, vectors |-> p.vectors]
  BY <1>1 DEF Built
<1>16. index' # None => index'.session = p.session /\ index'.vectors = p.vectors
  BY <1>5
<1>17. p.pc = "install"
  BY <1>1
<1> HIDE DEF p, q
<1>6. Ahead(p) = DOMAIN p.vectors /\ Ahead(q) = Ahead(p) /\ TaskSaid(q) = TaskSaid(p)
      /\ Emptied(q) /\ Pairs(p.vectors) \subseteq TaskSaid(p)
  <2>1. p.todo = <<>> /\ p.batch = <<>>
    BY <1>3, <1>17 DEF HnswHolds, Emptied
  <2> QED
    BY <1>3, <1>4, <2>1 DEF Ahead, Range, BatchIds, TaskSaid, InBatch, Emptied, Retrieving
<1>7. StoreTyped(World') /\ SettledHolds(World')
  BY <1>1, WorldIs DEF CallsInv, StoreTyped, SettledHolds
<1>8. IndexHolds(World')
  <2> SUFFICES ASSUME index' # None
               PROVE  /\ \A b \in DOMAIN index'.vectors \intersect DOMAIN blocks :
                           index'.session \in blocks[b].sessions
                      /\ \A x \in settled : x[1] = index'.session => x[2] \in DOMAIN index'.vectors
    BY <1>1, WorldIs DEF IndexHolds
  <2>1. index'.session = p.session /\ index'.vectors = p.vectors
    BY <1>16
  <2> QED
    BY <1>3, <1>6, <1>17, <2>1, WorldIs DEF HnswHolds
<1>9. WorldSaid(World') \subseteq Said(World, task)
  <2>1. Pairs(p.vectors) \subseteq Said(World, task)
    BY <1>3, <1>6
  <2>2. index' # None => Pairs(index'.vectors) \subseteq Said(World, task)
    BY <1>16, <2>1
  <2> QED
    BY <1>1, <2>2, WorldIs DEF Said, WorldSaid
<1>10. OneText(World', Said(World, task) \union WorldSaid(World'))
  BY <1>1, <1>3, <1>9, TextsKept, WorldIs
<1>11. Follows(World, World')
  BY <1>1, <1>3, WorldIs DEF Follows
<1>12. TaskHolds(World', q)
  <2>1. Typed(World', q)
    BY <1>1, <1>3, <1>4, WorldIs DEF Typed
  <2>2. index' = None \/ index'.session = q.session
    BY <1>4, <1>16
  <2>3. \A b \in Ahead(q) \intersect DOMAIN blocks : q.session \in blocks[b].sessions
    BY <1>3, <1>4, <1>6, WorldIs DEF HnswHolds
  <2>4. HnswHolds(World', q)
    BY <1>1, <1>4, <1>6, <2>2, <2>3, WorldIs DEF HnswHolds
  <2> QED
    BY <1>3, <1>4, <2>1, <2>4 DEF TaskHolds
<1>13. ASSUME NEW u \in Thread
       PROVE  \/ Frame(World, World', task[u], task'[u])
              \/ TaskHolds(World', task'[u]) /\ TaskSaid(task'[u]) \subseteq Said(World, task)
  <2>1. CASE u = t
    BY <1>2, <1>3, <1>6, <1>12, <2>1
  <2>2. CASE u # t
    <3> DEFINE r == task[u]
               s == [r EXCEPT !.overtaken = (r.pc # "idle")]
    <3>1. task'[u] = s
      BY <1>2, <2>2
    <3>2. TaskHolds(World, r)
      BY DEF CallsInv
    <3>3. DOMAIN r = Fields
      BY <3>2 DEF TaskHolds, Typed
    <3>4. /\ DOMAIN s = Fields /\ s.pc = r.pc /\ s.op = r.op /\ s.session = r.session /\ s.query = r.query
          /\ s.ids = r.ids /\ s.todo = r.todo /\ s.batch = r.batch /\ s.vectors = r.vectors
          /\ s.answer = r.answer /\ s.steady = r.steady /\ s.cleared = r.cleared
          /\ s.overtaken = (r.pc # "idle")
      BY <3>3 DEF Fields
    <3>5. CASE r.pc # "idle"
      <4>1. Frame(World, World, r, r)
        BY <3>2, FrameRests
      <4> HIDE DEF r, s
      <4>2. Frame(World, World', r, s)
        BY <1>1, <3>4, <3>5, <4>1, WorldIs DEF Frame
      <4> QED
        BY <3>1, <4>2 DEF r
    <3>6. CASE r.pc = "idle"
      <4>1. Idle(r)
        BY <3>2, <3>6 DEF TaskHolds, HnswHolds, LinearHolds, SummaryHolds
      <4>2. Typed(World, r)
        BY <3>2 DEF TaskHolds
      <4> HIDE DEF r, s
      <4>3. Typed(World', s) /\ Idle(s) /\ TaskSaid(s) = TaskSaid(r)
        BY <1>1, <3>4, <4>1, <4>2, WorldIs DEF Typed, Idle, TaskSaid, InBatch
      <4>4. TaskHolds(World', s)
        BY <4>3 DEF TaskHolds
      <4>5. TaskSaid(r) \subseteq Said(World, task)
        BY DEF r, Said
      <4> QED
        BY <3>1, <4>3, <4>4, <4>5
    <3> QED
      BY <3>5, <3>6
  <2> QED
    BY <2>1, <2>2
<1>14. ParentsWereRead'
  BY <1>1, ParentsUnchanged DEF CallsInv
<1>15. DOMAIN task' = Thread
  BY <1>2
<1> QED
  BY <1>7, <1>8, <1>10, <1>11, <1>13, <1>14, <1>15, CallsStep

LEMMA InvalidateIndexStep ==
  ASSUME CallsInv, InvalidateIndex
  PROVE  CallsInv'
<1>1. UNCHANGED <<blocks, lastId, known, task>> /\ index' = None
  BY DEF InvalidateIndex, store
<1>2. \/ settled' = settled
      \/ /\ \A t \in Thread : ~Building(t)
         /\ settled' = {x \in Session \X DOMAIN blocks : x[2] \in InSession(x[1]) /\ Readable(x[2])}
  BY DEF InvalidateIndex
<1>3. StoreTyped(World') /\ IndexHolds(World') /\ Follows(World, World')
  BY <1>1, WorldIs DEF CallsInv, StoreTyped, IndexHolds, Follows
<1>4. SettledHolds(World')
  BY <1>1, <1>2, WorldIs DEF CallsInv, SettledHolds, InSession, Readable
<1>5. ASSUME NEW u \in Thread PROVE Frame(World, World', task[u], task'[u])
  <2>1. Frame(World, World, task[u], task[u])
    BY FrameRests DEF CallsInv
  <2>2. settled' \subseteq settled \/ ~(task[u].op = "hnsw" /\ task[u].pc \in {"get", "store", "install"})
    BY <1>2 DEF Building
  <2>3. task'[u] = task[u]
    BY <1>1
  <2> QED
    BY <1>1, <2>1, <2>2, <2>3, WorldIs DEF Frame
<1>6. WorldSaid(World') \subseteq Said(World, task)
  BY <1>1, WorldIs DEF Said, WorldSaid
<1>7. OneText(World', Said(World, task) \union WorldSaid(World'))
  BY <1>1, <1>3, <1>6, TextsKept, WorldIs DEF StoreTyped
<1>8. DOMAIN task' = Thread /\ ParentsWereRead'
  BY <1>1, ParentsUnchanged DEF CallsInv
<1> QED
  BY <1>3, <1>4, <1>5, <1>7, <1>8, CallsStep

LEMMA ClearCacheStep ==
  ASSUME CallsInv, ClearCache
  PROVE  CallsInv'
<1>1. UNCHANGED <<blocks, lastId, index, settled>> /\ known' = <<>>
      /\ task' = [t \in Thread |-> [task[t] EXCEPT !.cleared = (task[t].op = "linear")]]
  BY DEF ClearCache, store
<1>2. StoreTyped(World') /\ IndexHolds(World') /\ SettledHolds(World') /\ Follows(World, World')
  BY <1>1, WorldIs DEF CallsInv, StoreTyped, IndexHolds, SettledHolds, Follows
<1>3. ASSUME NEW u \in Thread PROVE Frame(World, World', task[u], task'[u])
  <2> DEFINE r == task[u]
             s == [r EXCEPT !.cleared = (r.op = "linear")]
  <2>1. task'[u] = s
    BY <1>1
  <2>2. TaskHolds(World, r)
    BY DEF CallsInv
  <2>3. DOMAIN r = Fields
    BY <2>2 DEF TaskHolds, Typed
  <2>4. /\ DOMAIN s = Fields /\ s.pc = r.pc /\ s.op = r.op /\ s.session = r.session /\ s.query = r.query
        /\ s.ids = r.ids /\ s.todo = r.todo /\ s.batch = r.batch /\ s.vectors = r.vectors
        /\ s.answer = r.answer /\ s.steady = r.steady /\ s.overtaken = r.overtaken
        /\ s.cleared = (r.op = "linear")
    BY <2>3 DEF Fields
  <2>5. Frame(World, World, r, r)
    BY <2>2, FrameRests
  <2> HIDE DEF r, s
  <2>6. Frame(World, World', r, s)
    BY <1>1, <2>4, <2>5, WorldIs DEF Frame
  <2> QED
    BY <2>1, <2>6 DEF r
<1>4. WorldSaid(World') \subseteq Said(World, task)
  <2>1. Pairs(known') = {}
    <3>1. DOMAIN <<>> = {}
      OBVIOUS
    <3> QED
      BY <1>1, <3>1 DEF Pairs
  <2> QED
    BY <1>1, <2>1, WorldIs DEF Said, WorldSaid
<1>5. OneText(World', Said(World, task) \union WorldSaid(World'))
  BY <1>1, <1>2, <1>4, TextsKept, WorldIs DEF StoreTyped
<1>6. DOMAIN task' = Thread /\ ParentsWereRead'
  BY <1>1, ParentsUnchanged DEF CallsInv
<1> QED
  BY <1>2, <1>3, <1>5, <1>6, CallsStep

-----------------------------------------------------------------------------
(* The store.                                                              *)

(* A put adds a block under an id never used, or a session to a block.     *)
PutWorld ==
  /\ StoreTyped(World') /\ Follows(World, World')
  /\ OneText(World', Said(World, task) \union WorldSaid(World'))
  /\ SettledHolds(World') /\ IndexHolds(World')
  /\ DOMAIN blocks \subseteq DOMAIN blocks'

LEMMA PutKeepsWorld ==
  ASSUME CallsInv, NEW s, NEW text, NEW parents \in SUBSET (1..lastId), Put(s, text, parents),
         UNCHANGED <<index, known, settled>>, text \in Text \/ Len(text[2]) \in Nat
  PROVE  PutWorld
<1> DEFINE n == lastId + 1
<1>1. lastId \in Nat /\ lastId' = n /\ DOMAIN blocks \subseteq 1..lastId /\ n \notin 1..lastId
      /\ 1..lastId \subseteq 1..n /\ n \in 1..n
  BY WorldIs DEF CallsInv, StoreTyped, Put
<1>2. \A b \in DOMAIN blocks :
        /\ DOMAIN blocks[b] = {"sessions", "text", "parents"} /\ blocks[b].parents \subseteq 1..lastId
        /\ blocks[b].text \notin Text => Len(blocks[b].text[2]) \in Nat
  BY WorldIs DEF CallsInv, StoreTyped
<1>3. CASE Holding(text) = {}
  <2> DEFINE e == [sessions |-> {s}, text |-> text, parents |-> parents]
  <2>1. DOMAIN e = {"sessions", "text", "parents"} /\ e.text = text /\ e.parents = parents
    OBVIOUS
  <2> HIDE DEF e, n
  <2>2. blocks' = With(blocks, n, e)
    BY <1>3 DEF Put, n, e
  <2>3. /\ DOMAIN blocks' = DOMAIN blocks \union {n} /\ blocks'[n] = e
        /\ \A b \in DOMAIN blocks : blocks'[b] = blocks[b]
    BY <1>1, <2>2 DEF With
  <2>4. StoreTyped(World')
    <3>1. \A b \in DOMAIN blocks' :
            /\ DOMAIN blocks'[b] = {"sessions", "text", "parents"} /\ blocks'[b].parents \subseteq 1..lastId
            /\ blocks'[b].text \notin Text => Len(blocks'[b].text[2]) \in Nat
      BY <1>2, <2>1, <2>3
    <3>2. n \in Nat /\ DOMAIN blocks' \subseteq 1..n
      BY <1>1, <2>3 DEF n
    <3>3. \A b \in DOMAIN blocks' : blocks'[b].parents \subseteq 1..n
      BY <1>1, <3>1
    <3> QED
      BY <1>1, <3>1, <3>2, <3>3, WorldIs DEF StoreTyped
  <2>5. Follows(World, World')
    BY <1>1, <2>3, WorldIs DEF Follows, n
  <2>6. Texts(blocks') \subseteq Texts(blocks) \union {<<n, text>>}
    BY <2>1, <2>3 DEF Texts
  <2>7. OneText(World', Said(World, task) \union WorldSaid(World'))
    <3> DEFINE S == Said(World, task)
    <3>1. WorldSaid(World') \subseteq S \union {<<n, text>>}
      BY <2>6, WorldIs DEF Said, WorldSaid
    <3>2. \A x \in S : x[1] \in 1..lastId /\ \A y \in S : x[1] = y[1] => x[2] = y[2]
      BY WorldIs DEF CallsInv, OneText
    <3> HIDE DEF S
    <3>3. ASSUME NEW x \in S \union {<<n, text>>}
          PROVE  x[1] \in 1..n /\ \A y \in S \union {<<n, text>>} : x[1] = y[1] => x[2] = y[2]
      <4>1. x \in S \/ (x[1] = n /\ x[2] = text)
        OBVIOUS
      <4>2. \A y \in S \union {<<n, text>>} : y \in S \/ (y[1] = n /\ y[2] = text)
        OBVIOUS
      <4> QED
        BY <1>1, <3>2, <4>1, <4>2
    <3> QED
      BY <1>1, <3>1, <3>3, WorldIs DEF OneText, S
  <2>8. SettledHolds(World')
    BY <2>3, WorldIs DEF CallsInv, SettledHolds
  <2>9. IndexHolds(World')
    <3>1. index # None => DOMAIN index.vectors \subseteq 1..lastId
      BY KeptTexts
    <3>2. index' = index /\ settled' = settled
      OBVIOUS
    <3>3. index # None =>
            /\ \A b \in DOMAIN index.vectors \intersect DOMAIN blocks : index.session \in blocks[b].sessions
            /\ \A x \in settled : x[1] = index.session => x[2] \in DOMAIN index.vectors
      BY WorldIs DEF CallsInv, IndexHolds
    <3> QED
      BY <1>1, <2>3, <3>1, <3>2, <3>3, WorldIs DEF IndexHolds
  <2> QED
    BY <2>3, <2>4, <2>5, <2>7, <2>8, <2>9 DEF PutWorld
<1>4. CASE Holding(text) # {}
  <2>1. blocks' = [b \in DOMAIN blocks |->
                     IF b \in Holding(text) THEN [blocks[b] EXCEPT !.sessions = @ \union {s}] ELSE blocks[b]]
    BY <1>4 DEF Put
  <2> HIDE DEF n
  <2>2. /\ DOMAIN blocks' = DOMAIN blocks
        /\ \A b \in DOMAIN blocks :
             /\ DOMAIN blocks'[b] = DOMAIN blocks[b] /\ blocks'[b].text = blocks[b].text
             /\ blocks'[b].parents = blocks[b].parents /\ blocks[b].sessions \subseteq blocks'[b].sessions
    BY <1>2, <2>1
  <2>3. StoreTyped(World')
    BY <1>1, <1>2, <2>2, WorldIs DEF StoreTyped, n
  <2>4. Follows(World, World')
    BY <1>1, <2>2, WorldIs DEF Follows, n
  <2>5. WorldSaid(World') \subseteq Said(World, task)
    <3>1. Texts(blocks') \subseteq Texts(blocks)
      BY <2>2 DEF Texts
    <3> QED
      BY <3>1, WorldIs DEF Said, WorldSaid
  <2>6. OneText(World', Said(World, task) \union WorldSaid(World'))
    BY <1>1, <2>5, TextsKept, WorldIs DEF n
  <2>7. SettledHolds(World') /\ IndexHolds(World')
    BY <2>2, WorldIs DEF CallsInv, SettledHolds, IndexHolds
  <2> QED
    BY <2>2, <2>3, <2>4, <2>6, <2>7 DEF PutWorld
<1> QED
  BY <1>3, <1>4

(* What is said of a summary. *)
SummaryIs(bs, text, parents) ==
  /\ Len(text[2]) <= Cardinality(parents)
  /\ Cardinality(parents \intersect DOMAIN bs) <= Len(text[2])
  /\ text[1] # "noop" =>
       \A p \in parents \intersect DOMAIN bs : bs[p].text \in Range(text[2])

LEMMA PutKeepsParents ==
  ASSUME CallsInv, NEW s, NEW text, NEW parents \in SUBSET (1..lastId), Put(s, text, parents),
         text \in Text \/ SummaryIs(blocks, text, parents)
  PROVE  ParentsWereRead'
<1> DEFINE n == lastId + 1
<1>1. lastId \in Nat /\ DOMAIN blocks \subseteq 1..lastId /\ n \notin 1..lastId
      /\ \A b \in DOMAIN blocks :
           DOMAIN blocks[b] = {"sessions", "text", "parents"} /\ blocks[b].parents \subseteq 1..lastId
  BY WorldIs DEF CallsInv, StoreTyped
<1>2. \A b \in Summaries : SummaryIs(blocks, blocks[b].text, blocks[b].parents)
  BY DEF CallsInv, ParentsWereRead, SummaryIs, Lines
<1>3. /\ DOMAIN blocks \subseteq DOMAIN blocks' /\ DOMAIN blocks' \subseteq DOMAIN blocks \union {n}
      /\ \A b \in DOMAIN blocks : blocks'[b].text = blocks[b].text /\ blocks'[b].parents = blocks[b].parents
      /\ n \in DOMAIN blocks' => blocks'[n].text = text /\ blocks'[n].parents = parents
  <2>1. CASE Holding(text) = {}
    <3> DEFINE e == [sessions |-> {s}, text |-> text, parents |-> parents]
    <3>1. e.text = text /\ e.parents = parents
      OBVIOUS
    <3> HIDE DEF e, n
    <3>2. blocks' = With(blocks, n, e)
      BY <2>1 DEF Put, n, e
    <3>3. /\ DOMAIN blocks' = DOMAIN blocks \union {n} /\ blocks'[n] = e
          /\ \A b \in DOMAIN blocks : blocks'[b] = blocks[b]
      BY <1>1, <3>2 DEF With
    <3> QED
      BY <3>1, <3>3
  <2>2. CASE Holding(text) # {}
    <3>1. blocks' = [b \in DOMAIN blocks |->
                       IF b \in Holding(text) THEN [blocks[b] EXCEPT !.sessions = @ \union {s}] ELSE blocks[b]]
      BY <2>2 DEF Put
    <3> HIDE DEF n
    <3>2. /\ DOMAIN blocks' = DOMAIN blocks
          /\ \A b \in DOMAIN blocks :
               blocks'[b].text = blocks[b].text /\ blocks'[b].parents = blocks[b].parents
      BY <1>1, <3>1
    <3>3. n \notin DOMAIN blocks
      BY <1>1
    <3> QED
      BY <3>2, <3>3
  <2> QED
    BY <2>1, <2>2
<1> HIDE DEF n
<1>4. ASSUME NEW x, NEW P \in SUBSET (1..lastId), SummaryIs(blocks, x, P) PROVE SummaryIs(blocks', x, P)
  <2>1. P \intersect DOMAIN blocks' = P \intersect DOMAIN blocks
    BY <1>1, <1>3
  <2>2. \A p \in P \intersect DOMAIN blocks : blocks'[p].text = blocks[p].text
    BY <1>3
  <2> QED
    BY <1>4, <2>1, <2>2 DEF SummaryIs
<1>5. ASSUME NEW b \in DOMAIN blocks', blocks'[b].text \notin Text
      PROVE  SummaryIs(blocks', blocks'[b].text, blocks'[b].parents)
  <2>1. CASE b \in DOMAIN blocks
    <3>1. SummaryIs(blocks, blocks[b].text, blocks[b].parents)
      BY <1>2, <1>3, <1>5, <2>1 DEF Summaries
    <3>2. blocks'[b].text = blocks[b].text /\ blocks'[b].parents = blocks[b].parents
          /\ blocks[b].parents \in SUBSET (1..lastId)
      BY <1>1, <1>3, <2>1
    <3> QED
      BY <1>4, <3>1, <3>2
  <2>2. CASE b = n
    <3>1. blocks'[b].text = text /\ blocks'[b].parents = parents /\ SummaryIs(blocks, text, parents)
      BY <1>3, <1>5, <2>2
    <3> QED
      BY <1>4, <3>1
  <2> QED
    BY <1>3, <1>5, <2>1, <2>2
<1> QED
  BY <1>5 DEF ParentsWereRead, Summaries, SummaryIs, Lines

LEMMA PutFrames ==
  ASSUME CallsInv, PutWorld, UNCHANGED <<index, known, settled>>, NEW u \in Thread
  PROVE  Frame(World, World', task[u], task[u])
<1>1. Frame(World, World, task[u], task[u])
  BY FrameRests DEF CallsInv
<1> QED
  BY <1>1, WorldIs DEF Frame, PutWorld

LEMMA IngestStep ==
  ASSUME CallsInv, NEW x \in Ingested, Ingest(x[1], x[2])
  PROVE  CallsInv'
<1>1. Put(x[1], x[2], {}) /\ UNCHANGED <<index, known, settled, task>>
  BY DEF Ingest, caches
<1>2. x[2] \in Text
  BY IngestedAssumption
<1> DEFINE s == x[1]
           text == x[2]
           none == {}
<1>3. Put(s, text, none) /\ none \in SUBSET (1..lastId) /\ text \in Text
  BY <1>1, <1>2
<1> HIDE DEF s, text, none
<1>4. PutWorld
  BY <1>1, <1>3, PutKeepsWorld
<1>5. ParentsWereRead'
  BY <1>3, PutKeepsParents
<1>6. \A u \in Thread : Frame(World, World', task[u], task'[u])
  BY <1>1, <1>4, PutFrames
<1>7. DOMAIN task' = Thread
  BY <1>1 DEF CallsInv
<1> QED
  BY <1>4, <1>5, <1>6, <1>7, CallsStep DEF PutWorld

(* A list without repetitions is as long as what it holds. *)
LEMMA DistinctLists ==
  ASSUME NEW s, s \in Seq(Range(s)), \A i, j \in DOMAIN s : s[i] = s[j] => i = j
  PROVE  IsFiniteSet(Range(s)) /\ Cardinality(Range(s)) = Len(s)
<1> DEFINE D == 1..Len(s)
           R == Range(s)
<1>1. DOMAIN s = D /\ s \in [D -> R] /\ Len(s) \in Nat
  OBVIOUS
<1>2. IsFiniteSet(D) /\ Cardinality(D) = Len(s)
  <2>1. 1 \in Int /\ Len(s) \in Int
    BY <1>1
  <2> DEFINE m == Len(s)
  <2>2. m \in Nat
    BY <1>1
  <2> HIDE DEF m
  <2>3. IsFiniteSet(1..m) /\ Cardinality(1..m) = IF 1 > m THEN 0 ELSE m - 1 + 1
    BY <2>2, FS_Interval
  <2>4. (IF 1 > m THEN 0 ELSE m - 1 + 1) = m
    BY <2>2
  <2> QED
    BY <2>3, <2>4 DEF m
<1>3. \A b \in R : \E i \in D : s[i] = b
  BY <1>1 DEF Range
<1> HIDE DEF D, R
<1>4. s \in Surjection(D, R)
  BY <1>1, <1>3, Fun_IsSurj
<1>5. s \in Injection(D, R)
  BY <1>1, Fun_IsInj
<1>6. IsFiniteSet(R)
  BY <1>2, <1>4, FS_Surjection
<1>7. Cardinality(D) = Cardinality(R)
  BY <1>4, <1>5, <1>6, FS_Injection
<1> QED
  BY <1>2, <1>6, <1>7 DEF R

LEMMA StoreSummaryStep ==
  ASSUME CallsInv, NEW t \in Thread, NEW name \in Summarizer, StoreSummary(t, name)
  PROVE  CallsInv'
<1> DEFINE p == task[t]
           text == SummaryText(name, p.batch)
           parents == Range(p.ids)
<1>1. UNCHANGED <<index, known, settled>> /\ p.pc = "read" /\ p.todo = <<>>
      /\ task' = [task EXCEPT ![t] = Resting]
  BY DEF StoreSummary, caches, At
<1>4. Put(p.session, text, parents) \/ UNCHANGED store
  BY DEF StoreSummary
<1>2. CASE UNCHANGED store
  <2>1. UNCHANGED <<blocks, lastId>>
    BY <1>2 DEF store
  <2> QED
    BY <1>1, <2>1, RestingHolds, ThreadStep
<1>3. CASE Put(p.session, text, parents)
  <2>1. Typed(World, p) /\ SummaryHolds(World, p) /\ lastId \in Nat
    BY <1>1, StepsOf DEF HnswHolds, LinearHolds
  <2> DEFINE ids == p.ids
             texts == p.batch
  <2>2. ids \in Seq(1..lastId) /\ (\A i, j \in DOMAIN ids : ids[i] = ids[j] => i = j)
        /\ Len(texts) \in Nat /\ texts \in Seq(Range(texts))
    BY <2>1, WorldIs DEF Typed
  <2>3. Passed(p) = Range(ids)
    <3>1. Len(p.todo) = 0 /\ Len(ids) \in Nat /\ DOMAIN ids = 1..Len(ids)
      BY <1>1, <2>2
    <3>2. Len(ids) - Len(p.todo) = Len(ids)
      BY <3>1
    <3> QED
      BY <3>1, <3>2 DEF Passed, Range
  <2>4. /\ Len(texts) <= Len(ids)
        /\ Cardinality(Passed(p) \intersect DOMAIN blocks) <= Len(texts)
        /\ \A b \in Passed(p) \intersect DOMAIN blocks : blocks[b].text \in Range(texts)
    <3>1. Len(p.todo) = 0 /\ Len(ids) \in Nat
      BY <1>1, <2>2
    <3> QED
      BY <1>1, <2>1, <3>1, WorldIs DEF SummaryHolds
  <2>5. Range(ids) \in SUBSET (1..lastId) /\ ids \in Seq(Range(ids))
    <3> DEFINE B == 1..lastId
    <3>1. ids \in Seq(B)
      BY <2>2
    <3> HIDE DEF B, ids
    <3>2. Range(ids) \subseteq B /\ ids \in Seq(Range(ids))
      BY <3>1, SeqHolds
    <3> QED
      BY <3>2 DEF B
  <2>6. Cardinality(Range(ids)) = Len(ids)
    <3> HIDE DEF ids
    <3> QED
      BY <2>2, <2>5, DistinctLists
  <2>7. Len(text[2]) = Len(texts) /\ (text[1] # "noop" => text[2] = texts)
    <3>1. CASE name = "noop"
      <4>1. text = <<"noop", [i \in DOMAIN texts |-> <<>>]>>
        BY <3>1 DEF SummaryText, NoopText
      <4>2. Len([i \in DOMAIN texts |-> <<>>]) = Len(texts)
        BY <2>2
      <4> QED
        BY <4>1, <4>2
    <3>2. CASE name = "truncating"
      <4>1. text = IF texts = <<>> THEN Empty ELSE <<"truncating", texts>>
        BY <3>2 DEF SummaryText, TruncatingText
      <4> QED
        BY <4>1 DEF Empty
    <3>3. CASE name = "anthropic"
      <4>1. text = IF texts = <<>> THEN Empty ELSE <<"anthropic", texts>>
        BY <3>3 DEF SummaryText, AnthropicText
      <4> QED
        BY <4>1 DEF Empty
    <3> QED
      BY <3>1, <3>2, <3>3, SummarizerAssumption
  <2> HIDE DEF text, ids, texts
  <2>8. SummaryIs(blocks, text, parents)
    BY <2>3, <2>4, <2>6, <2>7 DEF SummaryIs, ids
  <2>9. parents \in SUBSET (1..lastId) /\ Put(p.session, text, parents)
    BY <1>3, <2>5 DEF ids
  <2> DEFINE s == p.session
  <2>10. Put(s, text, parents)
    BY <2>9
  <2> HIDE DEF s, p, parents
  <2>11. PutWorld
    BY <1>1, <2>9, <2>10, PutKeepsWorld
  <2>12. ParentsWereRead'
    BY <2>8, <2>9, <2>10, PutKeepsParents
  <2>13. DOMAIN task' = Thread /\ task'[t] = Resting /\ \A u \in Thread \ {t} : task'[u] = task[u]
    BY <1>1 DEF CallsInv
  <2>14. ASSUME NEW u \in Thread
         PROVE  \/ Frame(World, World', task[u], task'[u])
                \/ TaskHolds(World', task'[u]) /\ TaskSaid(task'[u]) \subseteq Said(World, task)
    <3>1. CASE u = t
      BY <2>13, <3>1, RestingHolds
    <3>2. CASE u # t
      BY <1>1, <2>11, <2>13, <3>2, PutFrames
    <3> QED
      BY <3>1, <3>2
  <2> QED
    BY <2>11, <2>12, <2>13, <2>14, CallsStep DEF PutWorld
<1> QED
  BY <1>2, <1>3, <1>4

LEMMA DeleteStep ==
  ASSUME CallsInv, NEW b, Delete(b)
  PROVE  CallsInv'
<1>1. /\ UNCHANGED <<lastId, index, known>> /\ b \in DOMAIN blocks
      /\ blocks' = [x \in DOMAIN blocks \ {b} |-> blocks[x]]
      /\ settled' = {x \in settled : x[2] # b}
      /\ task' = [t \in Thread |-> [task[t] EXCEPT !.steady = @ \ {b}]]
  BY DEF Delete, caches
<1>2. DOMAIN blocks' = DOMAIN blocks \ {b} /\ \A x \in DOMAIN blocks' : blocks'[x] = blocks[x]
  BY <1>1
<1>3. settled' \subseteq settled /\ \A x \in settled' : x[2] # b
  BY <1>1
<1>4. StoreTyped(World')
  BY <1>1, <1>2, WorldIs DEF CallsInv, StoreTyped
<1>5. Follows(World, World')
  BY <1>1, <1>2, WorldIs DEF CallsInv, StoreTyped, Follows
<1>6. SettledHolds(World')
  BY <1>2, <1>3, WorldIs DEF CallsInv, SettledHolds
<1>7. IndexHolds(World')
  BY <1>1, <1>2, <1>3, WorldIs DEF CallsInv, IndexHolds
<1>8. ASSUME NEW u \in Thread PROVE Frame(World, World', task[u], task'[u])
  <2> DEFINE r == task[u]
             s == [r EXCEPT !.steady = @ \ {b}]
  <2>1. task'[u] = s
    BY <1>1
  <2>2. TaskHolds(World, r)
    BY DEF CallsInv
  <2>3. DOMAIN r = Fields
    BY <2>2 DEF TaskHolds, Typed
  <2>4. /\ DOMAIN s = Fields /\ s.pc = r.pc /\ s.op = r.op /\ s.session = r.session /\ s.query = r.query
        /\ s.ids = r.ids /\ s.todo = r.todo /\ s.batch = r.batch /\ s.vectors = r.vectors
        /\ s.answer = r.answer /\ s.steady = r.steady \ {b} /\ s.overtaken = r.overtaken
        /\ s.cleared = r.cleared
    BY <2>3 DEF Fields
  <2>5. Frame(World, World, r, r)
    BY <2>2, FrameRests
  <2> HIDE DEF r, s
  <2>6. Frame(World, World', r, s)
    BY <1>1, <1>2, <1>3, <2>4, <2>5, WorldIs DEF Frame
  <2> QED
    BY <2>1, <2>6 DEF r
<1>9. WorldSaid(World') \subseteq Said(World, task)
  <2>1. Texts(blocks') \subseteq Texts(blocks)
    BY <1>2 DEF Texts
  <2> QED
    BY <1>1, <2>1, WorldIs DEF Said, WorldSaid
<1>10. OneText(World', Said(World, task) \union WorldSaid(World'))
  BY <1>1, <1>4, <1>9, TextsKept, WorldIs DEF StoreTyped
<1>11. ParentsWereRead'
  <2>1. ASSUME NEW c \in Summaries' PROVE SummaryIs(blocks', blocks'[c].text, blocks'[c].parents)
    <3>1. c \in Summaries /\ blocks'[c] = blocks[c]
      BY <1>2, <2>1 DEF Summaries
    <3>2. SummaryIs(blocks, blocks[c].text, blocks[c].parents)
      BY <3>1 DEF CallsInv, ParentsWereRead, SummaryIs, Lines
    <3> DEFINE P == blocks[c].parents
               A == P \intersect DOMAIN blocks
               B == P \intersect DOMAIN blocks'
    <3>3. lastId \in Nat /\ P \subseteq 1..lastId
      BY <3>1, WorldIs DEF CallsInv, StoreTyped, Summaries
    <3>4. IsFiniteSet(1..lastId)
      BY <3>3, FS_Interval
    <3>5. A \subseteq 1..lastId /\ B \subseteq A
      BY <1>2, <3>3
    <3> HIDE DEF A, B, P
    <3>6. IsFiniteSet(A)
      BY <3>4, <3>5, FS_Subset
    <3>7. IsFiniteSet(B) /\ Cardinality(B) <= Cardinality(A)
      BY <3>5, <3>6, FS_Subset
    <3>8. Cardinality(A) \in Nat /\ Cardinality(B) \in Nat
      BY <3>6, <3>7, FS_CardinalityType
    <3> DEFINE x == blocks[c].text
    <3>14. Len(x[2]) \in Nat
      BY <3>1, WorldIs DEF CallsInv, StoreTyped, Summaries
    <3>9. /\ Len(x[2]) <= Cardinality(P) /\ Cardinality(A) <= Len(x[2])
          /\ x[1] # "noop" => \A p \in A : blocks[p].text \in Range(x[2])
      BY <3>2 DEF SummaryIs, A, P
    <3>10. blocks'[c].text = x /\ blocks'[c].parents = P
      BY <3>1 DEF P
    <3> HIDE DEF x
    <3>11. Cardinality(B) <= Len(x[2])
      <4> DEFINE k == Cardinality(A)
                 m == Cardinality(B)
                 l == Len(x[2])
      <4>1. m <= k /\ k <= l
        BY <3>7, <3>9
      <4>2. m \in Nat /\ k \in Nat
        BY <3>8
      <4>3. l \in Nat
        BY <3>14
      <4> QED
        BY <4>1, <4>2, <4>3
    <3>12. \A p \in B : p \in A /\ blocks'[p] = blocks[p]
      BY <1>2, <3>5 DEF B
    <3> QED
      BY <3>9, <3>10, <3>11, <3>12 DEF SummaryIs, B
  <2> QED
    BY <2>1 DEF ParentsWereRead, Summaries, SummaryIs, Lines
<1>12. DOMAIN task' = Thread
  BY <1>1
<1> QED
  BY <1>4, <1>5, <1>6, <1>7, <1>8, <1>10, <1>11, <1>12, CallsStep

-----------------------------------------------------------------------------
(* What a summary reads.                                                   *)

(* The end of a list of distinct ids. *)
LastOf(s, k, u) ==
  /\ DOMAIN u = 1..(Len(s) - k) /\ Len(u) = Len(s) - k
  /\ \A i \in DOMAIN u : k + i \in DOMAIN s /\ u[i] = s[k + i]

LEMMA EndsOf ==
  ASSUME NEW S, NEW s \in Seq(S), NEW k \in 0..Len(s)
  PROVE  SubSeq(s, k + 1, Len(s)) \in Seq(S) /\ LastOf(s, k, SubSeq(s, k + 1, Len(s)))
<1>1. Len(s) \in Nat /\ DOMAIN s = 1..Len(s) /\ k \in Nat /\ k <= Len(s)
  OBVIOUS
<1>2. \A i \in 1..Len(s) : s[i] \in S
  OBVIOUS
<1> DEFINE n == Len(s) - k
           u == [i \in 1..n |-> s[k + i]]
<1>3. SubSeq(s, k + 1, Len(s)) = u
  <2>1. SubSeq(s, k + 1, Len(s)) = [i \in 1..(1 + Len(s) - (k + 1)) |-> s[i + (k + 1) - 1]]
    BY <1>1
  <2>2. 1 + Len(s) - (k + 1) = n
    BY <1>1
  <2>3. \A i \in 1..n : i + (k + 1) - 1 = k + i
    BY <1>1
  <2> QED
    BY <2>1, <2>2, <2>3
<1>4. n \in Nat /\ \A i \in 1..n : k + i \in 1..Len(s)
  BY <1>1
<1>5. u \in [1..n -> S] /\ DOMAIN u = 1..n /\ \A i \in 1..n : u[i] = s[k + i]
  BY <1>2, <1>4
<1> HIDE DEF u, n
<1>6. u \in Seq(S) /\ Len(u) = n
  BY <1>4, <1>5
<1>7. LastOf(s, k, u)
  BY <1>1, <1>4, <1>5, <1>6 DEF LastOf, n
<1> QED
  BY <1>3, <1>6, <1>7

LEMMA ListLastStep ==
  ASSUME CallsInv, NEW t \in Thread, NEW n \in LastN, ListLast(t, n)
  PROVE  CallsInv'
<1> DEFINE p == task[t]
           ids == ListSession(p.session)
           from == IF Len(ids) > n THEN Len(ids) - n ELSE 0
           last == SubSeq(ids, from + 1, Len(ids))
           q == [p EXCEPT !.pc = "read", !.ids = last, !.todo = last]
<1>1. UNCHANGED <<blocks, lastId, index, known, settled>> /\ p.pc = "list_last"
  BY DEF ListLast, store, caches, At
<1>2. task' = [task EXCEPT ![t] = q]
  BY DEF ListLast
<1>3. /\ Typed(World, p) /\ p.op = "summarize" /\ SummaryHolds(World, p) /\ lastId \in Nat
      /\ TaskSaid(p) \subseteq Said(World, task)
  BY <1>1, StepsOf DEF HnswHolds, LinearHolds
<1>4. /\ ids \in Seq(1..lastId)
      /\ \A i, j \in DOMAIN ids : ids[i] = ids[j] => i = j
  BY ListSessionIs
<1>5. from \in 0..Len(ids)
  <2>1. Len(ids) \in Nat /\ n \in Nat
    BY <1>4, SummarizerAssumption
  <2> HIDE DEF ids
  <2> QED
    BY <2>1
<1>6. last \in Seq(1..lastId) /\ LastOf(ids, from, last)
  <2> DEFINE B == 1..lastId
  <2>1. ids \in Seq(B)
    BY <1>4
  <2> HIDE DEF ids, from, B
  <2>2. last \in Seq(B) /\ LastOf(ids, from, last)
    BY <1>5, <2>1, EndsOf
  <2> QED
    BY <2>2 DEF B
<1>7. DOMAIN q = Fields /\ q.op = "summarize" /\ q.pc = "read" /\ q.ids = last /\ q.todo = last
      /\ q.batch = p.batch /\ q.answer = p.answer /\ p.batch = <<>>
  <2>1. p.batch = <<>>
    BY <1>1, <1>3 DEF SummaryHolds
  <2>2. DOMAIN p = Fields
    BY <1>3 DEF Typed
  <2> HIDE DEF last, p
  <2> QED
    BY <1>3, <2>1, <2>2 DEF Fields
<1> HIDE DEF q, last, from, ids
<1>8. \A i, j \in DOMAIN last : last[i] = last[j] => i = j
  <2> SUFFICES ASSUME NEW i \in DOMAIN last, NEW j \in DOMAIN last, last[i] = last[j] PROVE i = j
    OBVIOUS
  <2>1. from + i \in DOMAIN ids /\ from + j \in DOMAIN ids /\ ids[from + i] = ids[from + j]
    BY <1>6 DEF LastOf
  <2>2. from + i = from + j
    BY <1>4, <2>1
  <2>3. i \in Int /\ j \in Int /\ from \in Int
    BY <1>5, <1>6 DEF LastOf
  <2> QED
    BY <2>2, <2>3
<1>9. Len(last) \in Nat /\ \A i \in DOMAIN last : i \in Int
  BY <1>6
<1>10. Typed(World, q)
  BY <1>3, <1>6, <1>7, <1>8, WorldIs DEF Typed
<1>11. SummaryHolds(World, q)
  <2>1. Len(q.ids) - Len(q.todo) = 0 /\ Len(q.todo) <= Len(q.ids) /\ Len(q.batch) = 0
    BY <1>7, <1>9
  <2>2. Passed(q) = {}
    BY <2>1 DEF Passed
  <2>3. Cardinality(Passed(q) \intersect DOMAIN World.blocks) = 0
    BY <2>2, FS_EmptySet
  <2>4. \A i \in DOMAIN q.todo : q.todo[i] = q.ids[Len(q.ids) - Len(q.todo) + i]
    BY <1>7, <1>9, <2>1
  <2> QED
    BY <1>7, <2>1, <2>2, <2>3, <2>4 DEF SummaryHolds
<1>12. TaskHolds(World, q) /\ TaskSaid(q) = {}
  BY <1>7, <1>10, <1>11 DEF TaskHolds, TaskSaid, Retrieving
<1> QED
  BY <1>1, <1>2, <1>12, ThreadStep

LEMMA ReadBlockStep ==
  ASSUME CallsInv, NEW t \in Thread, ReadBlock(t)
  PROVE  CallsInv'
<1> DEFINE p == task[t]
           b == Head(p.todo)
           q == [p EXCEPT !.todo = Tail(@), !.batch = IF b \in DOMAIN blocks THEN Append(@, blocks[b].text) ELSE @]
<1>1. UNCHANGED <<blocks, lastId, index, known, settled>> /\ p.pc = "read" /\ p.todo # <<>>
      /\ task' = [task EXCEPT ![t] = q]
  BY DEF ReadBlock, store, caches, At
<1>2. Typed(World, p) /\ p.op = "summarize" /\ SummaryHolds(World, p) /\ lastId \in Nat
  BY <1>1, StepsOf DEF HnswHolds, LinearHolds
<1>3. /\ DOMAIN q = Fields /\ q.op = "summarize" /\ q.pc = "read" /\ q.ids = p.ids /\ q.todo = Tail(p.todo)
      /\ q.batch = (IF b \in DOMAIN blocks THEN Append(p.batch, blocks[b].text) ELSE p.batch)
      /\ q.answer = p.answer
  BY <1>1, <1>2 DEF Typed, Fields
<1>4. p.pc = "read" /\ p.todo # <<>>
  BY <1>1
<1> HIDE DEF q, p
<1> DEFINE todo == p.todo
           ids == p.ids
           k == Len(ids) - Len(todo)
<1>5. /\ Tail(todo) \in Seq(1..lastId) /\ Len(Tail(todo)) = Len(todo) - 1
      /\ b = todo[1] /\ Len(todo) \in Nat /\ Len(todo) > 0
      /\ DOMAIN todo = 1..Len(todo) /\ DOMAIN Tail(todo) = 1..(Len(todo) - 1)
      /\ \A i \in DOMAIN Tail(todo) : i \in Nat /\ i > 0 /\ i + 1 \in DOMAIN todo /\ Tail(todo)[i] = todo[i + 1]
  <2> DEFINE B == 1..lastId
  <2>1. todo \in Seq(B) /\ todo # <<>>
    BY <1>2, <1>4, WorldIs DEF Typed
  <2> HIDE DEF B, todo
  <2>2. Tail(todo) \in Seq(B) /\ Head(todo) = todo[1]
    BY <2>1, HeadAndTail
  <2>3. /\ Len(todo) \in Nat /\ Len(todo) > 0 /\ DOMAIN todo = 1..Len(todo)
        /\ DOMAIN Tail(todo) = 1..(Len(todo) - 1) /\ Len(Tail(todo)) = Len(todo) - 1
    BY <2>1, HeadAndTail
  <2>4. \A i \in DOMAIN Tail(todo) : i \in Nat /\ i > 0 /\ i + 1 \in DOMAIN todo /\ Tail(todo)[i] = todo[i + 1]
    BY <2>1, HeadAndTail
  <2> QED
    BY <2>2, <2>3, <2>4 DEF B, todo
<1>6. /\ Len(todo) <= Len(ids) /\ Len(ids) \in Nat
      /\ \A i \in DOMAIN todo : todo[i] = ids[k + i]
      /\ Len(p.batch) <= k /\ Len(p.batch) \in Nat /\ p.batch \in Seq(Range(p.batch))
      /\ \A c \in Passed(p) \intersect DOMAIN blocks : blocks[c].text \in Range(p.batch)
      /\ Cardinality(Passed(p) \intersect DOMAIN blocks) <= Len(p.batch)
  <2>1. Len(ids) \in Nat /\ Len(p.batch) \in Nat /\ p.batch \in Seq(Range(p.batch))
    BY <1>2, WorldIs DEF Typed
  <2>2. /\ Len(todo) <= Len(ids)
        /\ \A i \in DOMAIN todo : todo[i] = ids[k + i]
        /\ Len(p.batch) <= k
        /\ \A c \in Passed(p) \intersect DOMAIN blocks : blocks[c].text \in Range(p.batch)
        /\ Cardinality(Passed(p) \intersect DOMAIN blocks) <= Len(p.batch)
    BY <1>2, <1>4, WorldIs DEF SummaryHolds
  <2> QED
    BY <2>1, <2>2
<1> HIDE DEF b
<1>7. k \in Nat /\ Len(ids) - Len(Tail(todo)) = k + 1
  <2>1. Len(todo) \in Nat /\ Len(ids) \in Nat /\ Len(todo) <= Len(ids)
    BY <1>5, <1>6
  <2>2. Len(Tail(todo)) = Len(todo) - 1
    BY <1>5
  <2> DEFINE m == Len(todo)
             n == Len(ids)
             r == Len(Tail(todo))
  <2>3. m \in Nat /\ n \in Nat /\ m <= n /\ r = m - 1
    BY <2>1, <2>2
  <2> HIDE DEF todo, ids, m, n, r
  <2>4. n - m \in Nat /\ n - r = n - m + 1
    BY <2>3
  <2> QED
    BY <2>4 DEF m, n, r
<1>8. b = ids[k + 1]
  <2>1. 1 \in DOMAIN todo /\ b = todo[1]
    BY <1>5
  <2>2. todo[1] = ids[k + 1]
    BY <1>6, <2>1
  <2> QED
    BY <2>1, <2>2
<1>9. Passed(q) = Passed(p) \union {b}
  <2>1. Passed(p) = {ids[i] : i \in 1..k} /\ Passed(q) = {ids[i] : i \in 1..(k + 1)}
    BY <1>3, <1>7 DEF Passed
  <2> HIDE DEF k, ids
  <2>2. 1..(k + 1) = (1..k) \union {k + 1}
    BY <1>7
  <2> QED
    BY <1>8, <2>1, <2>2
<1>10. \A i \in DOMAIN q.todo : q.todo[i] = q.ids[Len(q.ids) - Len(q.todo) + i]
  <2> SUFFICES ASSUME NEW i \in DOMAIN Tail(todo) PROVE Tail(todo)[i] = ids[k + 1 + i]
    <3>1. q.todo = Tail(todo) /\ q.ids = ids /\ Len(q.ids) - Len(q.todo) = k + 1
      BY <1>3, <1>7
    <3> QED
      BY <3>1
  <2>1. i \in Nat /\ i + 1 \in DOMAIN todo /\ Tail(todo)[i] = todo[i + 1]
    BY <1>5
  <2>2. todo[i + 1] = ids[k + (i + 1)]
    BY <1>6, <2>1
  <2>3. k + (i + 1) = k + 1 + i
    <3>1. k \in Nat /\ i \in Nat
      BY <1>7, <2>1
    <3> HIDE DEF k
    <3> QED
      BY <3>1
  <2> QED
    BY <2>1, <2>2, <2>3
<1>11. IsFiniteSet(Passed(p) \intersect DOMAIN blocks) /\ Cardinality(Passed(p) \intersect DOMAIN blocks) \in Nat
  BY <1>5, <1>6, PassedFinite
<1>12. /\ q.batch \in Seq(Range(q.batch)) /\ Len(q.batch) <= k + 1
       /\ \A c \in Passed(q) \intersect DOMAIN blocks : blocks[c].text \in Range(q.batch)
       /\ Cardinality(Passed(q) \intersect DOMAIN blocks) <= Len(q.batch)
  <2>1. CASE b \notin DOMAIN blocks
    <3>1. q.batch = p.batch /\ Passed(q) \intersect DOMAIN blocks = Passed(p) \intersect DOMAIN blocks
      BY <1>3, <1>9, <2>1
    <3>2. Len(p.batch) <= k + 1
      <4>1. Len(p.batch) \in Nat /\ Len(p.batch) <= k
        BY <1>6
      <4> HIDE DEF k
      <4> QED
        BY <1>7, <4>1
    <3> QED
      BY <1>6, <3>1, <3>2
  <2>2. CASE b \in DOMAIN blocks
    <3> DEFINE x == blocks[b].text
               s == p.batch
               u == q.batch
               A == Passed(p) \intersect DOMAIN blocks
    <3>1. u = Append(s, x) /\ s \in Seq(Range(s))
      BY <1>3, <1>6, <2>2
    <3> HIDE DEF s, u
    <3>2. Range(u) = Range(s) \union {x} /\ Len(u) = Len(s) + 1 /\ u \in Seq(Range(u))
      <4> HIDE DEF x
      <4>1. Range(Append(s, x)) = Range(s) \union {x}
        BY <3>1, AppendTo
      <4>2. Len(Append(s, x)) = Len(s) + 1
        BY <3>1, AppendTo
      <4>3. Append(s, x) \in Seq(Range(Append(s, x)))
        BY <3>1, AppendTo
      <4> QED
        BY <3>1, <4>1, <4>2, <4>3
    <3>3. Passed(q) \intersect DOMAIN blocks = A \union {b}
      BY <1>9, <2>2
    <3>4. IsFiniteSet(A) /\ Cardinality(A) \in Nat /\ Cardinality(A) <= Len(s) /\ Len(s) <= k /\ Len(s) \in Nat
      BY <1>6, <1>11 DEF s
    <3>5. \A c \in A : blocks[c].text \in Range(s)
      BY <1>6 DEF s
    <3> HIDE DEF A, k
    <3>6. Cardinality(A \union {b}) <= Cardinality(A) + 1
      <4>1. b \in A => A \union {b} = A
        OBVIOUS
      <4>2. b \notin A => Cardinality(A \union {b}) = Cardinality(A) + 1
        BY <3>4, FS_AddElement
      <4> DEFINE m == Cardinality(A)
      <4>3. m \in Nat
        BY <3>4
      <4>4. b \in A => Cardinality(A \union {b}) = m
        BY <4>1
      <4> HIDE DEF m
      <4>5. b \notin A => Cardinality(A \union {b}) = m + 1
        BY <4>2 DEF m
      <4> QED
        <5>1. Cardinality(A \union {b}) = m \/ Cardinality(A \union {b}) = m + 1
          BY <4>4, <4>5
        <5>2. Cardinality(A \union {b}) <= m + 1
          BY <4>3, <5>1
        <5> QED
          BY <5>2 DEF m
    <3>7. Cardinality(A \union {b}) \in Nat
      BY <3>4, FS_AddElement, FS_CardinalityType
    <3>8. Cardinality(A \union {b}) <= Len(u) /\ Len(u) <= k + 1
      BY <1>7, <3>2, <3>4, <3>6, <3>7
    <3>9. \A c \in A \union {b} : blocks[c].text \in Range(u)
      BY <3>2, <3>5
    <3> QED
      BY <3>2, <3>3, <3>8, <3>9 DEF u
  <2> QED
    BY <2>1, <2>2
<1>13. SummaryHolds(World, q)
  <2>1. Len(q.ids) = Len(ids) /\ Len(q.todo) = Len(Tail(todo)) /\ Len(q.ids) - Len(q.todo) = k + 1
    BY <1>3, <1>7
  <2>2. Len(q.todo) <= Len(q.ids)
    BY <1>5, <1>6, <2>1
  <2> QED
    BY <1>3, <1>10, <1>12, <2>1, <2>2, WorldIs DEF SummaryHolds
<1>14. Typed(World, q)
  BY <1>2, <1>3, <1>5, <1>12, WorldIs DEF Typed
<1>15. TaskHolds(World, q) /\ TaskSaid(q) = {}
  BY <1>3, <1>13, <1>14 DEF TaskHolds, TaskSaid, Retrieving
<1> QED
  BY <1>1, <1>15, ThreadStep

-----------------------------------------------------------------------------
(* The theorems.                                                           *)

LEMMA CallsNextInv == CallsInv /\ [Next]_vars => CallsInv'
<1> SUFFICES ASSUME CallsInv, [Next]_vars PROVE CallsInv'
  OBVIOUS
<1>1. ASSUME NEW t \in Thread, NEW op \in {"hnsw", "linear"}, NEW s \in Session, NEW q \in Task,
             Retrieve(t, op, s, q)
      PROVE  CallsInv'
  BY <1>1, RetrieveStep
<1>2. ASSUME NEW t \in Thread, CheckIndex(t) PROVE CallsInv'
  BY <1>2, CheckIndexStep
<1>3. ASSUME NEW t \in Thread, List(t) PROVE CallsInv'
  BY <1>3, ListStep
<1>4. ASSUME NEW t \in Thread, Load(t) PROVE CallsInv'
  BY <1>4, LoadStep
<1>5. ASSUME NEW t \in Thread, EmbedBatch(t) PROVE CallsInv'
  BY <1>5, EmbedBatchStep
<1>6. ASSUME NEW t \in Thread, StoreVector(t) PROVE CallsInv'
  BY <1>6, StoreVectorStep
<1>7. ASSUME NEW t \in Thread, Install(t) PROVE CallsInv'
  BY <1>7, InstallStep
<1>8. ASSUME NEW t \in Thread, Search(t) PROVE CallsInv'
  BY <1>8, SearchStep
<1>9. ASSUME NEW t \in Thread, Return(t) PROVE CallsInv'
  BY <1>9, ReturnStep
<1>10. CASE InvalidateIndex
  BY <1>10, InvalidateIndexStep
<1>11. CASE ClearCache
  BY <1>11, ClearCacheStep
<1>12. ASSUME NEW x \in Ingested, Ingest(x[1], x[2]) PROVE CallsInv'
  BY <1>12, IngestStep
<1>13. ASSUME NEW b \in Volatile, Delete(b) PROVE CallsInv'
  BY <1>13, DeleteStep
<1>14. ASSUME NEW t \in Thread, NEW s \in Session, Summarize(t, s) PROVE CallsInv'
  BY <1>14, SummarizeStep
<1>15. ASSUME NEW t \in Thread, NEW n \in LastN, ListLast(t, n) PROVE CallsInv'
  BY <1>15, ListLastStep
<1>16. ASSUME NEW t \in Thread, ReadBlock(t) PROVE CallsInv'
  BY <1>16, ReadBlockStep
<1>17. ASSUME NEW t \in Thread, NEW name \in Summarizer, StoreSummary(t, name) PROVE CallsInv'
  BY <1>17, StoreSummaryStep
<1>18. CASE RetrieverNext
  BY <1>1, <1>2, <1>3, <1>4, <1>5, <1>6, <1>7, <1>8, <1>9, <1>10, <1>11, <1>12, <1>13, <1>18 DEF RetrieverNext
<1>19. CASE UNCHANGED vars
  <2>1. UNCHANGED <<blocks, lastId, index, known, settled, task>>
    BY <1>19 DEF vars, store, caches
  <2>2. World' = World
    BY <2>1 DEF World
  <2>3. ParentsWereRead'
    BY <2>1, ParentsUnchanged DEF CallsInv
  <2> QED
    BY <2>1, <2>2, <2>3 DEF CallsInv
<1> QED
  BY <1>14, <1>15, <1>16, <1>17, <1>18, <1>19 DEF Next

(* The calls of a session keep the invariant above whoever they meet:      *)
(* retrievals of both kinds, summaries, ingests and deletes, and the       *)
(* invalidation of the index and of the cache between any of their steps.  *)
THEOREM CallsInvariant == Spec => []CallsInv
BY CallsInitInv, CallsNextInv, PTL DEF Spec

(* A vector in memory or in the index is that of the block it is kept for, *)
(* though batches leave out the blocks that could not be read.             *)
THEOREM VectorsAreTheirBlocksAlways == Spec => []VectorsAreTheirBlocks
<1>1. CallsInv => VectorsAreTheirBlocks
  BY KeptTexts DEF VectorsAreTheirBlocks
<1> QED
  BY <1>1, CallsInvariant, PTL

(* HnswAnnRetriever answers with blocks of another session only if another *)
(* thread put its index between the call's check and its search.           *)
THEOREM OtherSessionOnlyByRaceAlways == Spec => []OtherSessionOnlyByRace
<1>1. CallsInv => OtherSessionOnlyByRace
  <2> SUFFICES ASSUME CallsInv, NEW t \in Thread, Answered(t, "hnsw"), ~task[t].overtaken
               PROVE  \A b \in task[t].answer \intersect DOMAIN blocks : task[t].session \in blocks[b].sessions
    BY DEF OtherSessionOnlyByRace
  <2>1. task[t].pc = "answered" /\ task[t].op = "hnsw"
    BY DEF Answered, At
  <2>2. HnswHolds(World, task[t])
    BY <2>1, StepsOf
  <2> QED
    BY <2>1, <2>2, WorldIs DEF HnswHolds
<1> QED
  BY <1>1, CallsInvariant, PTL

(* What the session held when invalidate_index was called, and no build    *)
(* was under way, is in every index built of that session since.           *)
THEOREM InvalidationCountsAlways == Spec => []InvalidationCounts
<1>1. CallsInv => InvalidationCounts
  BY WorldIs DEF CallsInv, IndexHolds, InvalidationCounts
<1> QED
  BY <1>1, CallsInvariant, PTL

(* LinearAnnRetriever finds every readable, similar block that stayed in   *)
(* the session, unless as many as asked for are at least as similar:       *)
(* failed batches and other threads' vectors hide nothing.                 *)
THEOREM LinearFindsAllAlways == Spec => []LinearFindsAll
<1>1. CallsInv => LinearFindsAll
  <2> SUFFICES ASSUME CallsInv, NEW t \in Thread, Answered(t, "linear"), ~task[t].cleared,
                      NEW b \in task[t].steady,
                      Score(task[t].query, blocks[b].text) > 0, b \notin task[t].answer
               PROVE  /\ Cardinality(task[t].answer) = Limit
                      /\ \A c \in task[t].answer :
                           Score(task[t].query, known[c]) >= Score(task[t].query, blocks[b].text)
    BY DEF LinearFindsAll
  <2>1. task[t].pc = "answered" /\ task[t].op = "linear"
    BY DEF Answered, At
  <2>2. LinearHolds(World, task[t])
    BY <2>1, StepsOf
  <2>3. FoundAll(World, task[t])
    BY <2>1, <2>2 DEF LinearHolds
  <2> QED
    BY <2>3, WorldIs DEF FoundAll, Misses
<1> QED
  BY <1>1, CallsInvariant, PTL

(* The parents a stored summary names are the blocks whose texts it was    *)
(* made of, whatever was put and deleted while it was being made.          *)
THEOREM ParentsWereReadAlways == Spec => []ParentsWereRead
<1>1. CallsInv => ParentsWereRead
  BY DEF CallsInv
<1> QED
  BY <1>1, CallsInvariant, PTL

=============================================================================
