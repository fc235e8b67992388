---------------------------- MODULE AnnRetrievers ----------------------------
(***************************************************************************)
(* The embedding retrievers of llm386-retrieve-ann, shared by the threads  *)
(* of a server: HnswAnnRetriever keeps one index, of the session it was    *)
(* last asked about; LinearAnnRetriever keeps the vectors it has seen; an  *)
(* EmbeddingCache on disk lies behind both.  Steps are cut where another   *)
(* thread can come in between: at reads of the store, locks and embeddings.*)
(*                                                                         *)
(* A vector is known by the text it embeds; Similarity stands for the      *)
(* cosine of a task and a text.                                            *)
(***************************************************************************)
EXTENDS Integers, SequencesExt

CONSTANTS
  Thread, Session,
  Text, Unreadable,     \* block texts; those that are not utf-8
  Task,                 \* the tasks retrieved for
  Similarity,           \* <<task, text>> -> 0 .. 2
  Limit,                \* candidates asked for
  InitialStore,         \* id -> [sessions, text, parents], ids 1 .. n
  Ingested, Volatile,   \* <<session, text>> others put; ids they delete
  MaxId, MaxCalls,      \* bounds: block ids, calls of one behaviour
  None

ASSUME LimitAssumption == Limit \in Nat \ {0}
ASSUME SimilarityAssumption == \A x \in DOMAIN Similarity : Similarity[x] \in Nat
ASSUME StoreAssumption ==
  /\ IsFiniteSet(DOMAIN InitialStore)
  /\ DOMAIN InitialStore = 1..Cardinality(DOMAIN InitialStore)
  /\ \A b \in DOMAIN InitialStore :
       InitialStore[b] \in [sessions : SUBSET Session, text : Text, parents : SUBSET DOMAIN InitialStore]
ASSUME IngestedAssumption == Ingested \subseteq Session \X Text

VARIABLES
  blocks,      \* id -> [sessions, text, parents]: what is in the store
  lastId,      \* the newest block id given out
  index,       \* HnswAnnRetriever::state, None or [session, vectors]
  known,       \* LinearAnnRetriever::cache, id -> text its vector embeds
  persistent,  \* EmbeddingCache: the texts whose vectors are on disk
  task,        \* thread -> its call under way
  calls,       \* calls begun
  settled      \* blocks listed when the index was last invalidated in peace

store == <<blocks, lastId>>
caches == <<index, known, persistent>>
vars == <<store, caches, task, calls, settled>>

Resting == [pc |-> "idle", op |-> None, session |-> None, query |-> None, ids |-> <<>>, todo |-> <<>>,
            batch |-> <<>>, vectors |-> <<>>, answer |-> {},
            overtaken |-> FALSE, cleared |-> FALSE, steady |-> {}]

Init ==
  /\ blocks = InitialStore
  /\ lastId = Cardinality(DOMAIN InitialStore)
  /\ index = None
  /\ known = <<>>
  /\ persistent = {}
  /\ task = [t \in Thread |-> Resting]
  /\ calls = 0
  /\ settled = {}

-----------------------------------------------------------------------------
(* f with e at x. *)
With(f, x, e) == [y \in DOMAIN f \union {x} |-> IF y = x THEN e ELSE f[y]]

(* list_session answers in the order of the ids. *)
Ascending(S) == [i \in 1..Cardinality(S) |-> CHOOSE b \in S : Cardinality({x \in S : x <= b}) = i]
InSession(s) == {b \in DOMAIN blocks : s \in blocks[b].sessions}
ListSession(s) == Ascending(InSession(s))
Readable(b) == blocks[b].text \notin Unreadable
At(t, pc) == task[t].pc = pc
Score(q, text) == IF <<q, text>> \in DOMAIN Similarity THEN Similarity[<<q, text>>] ELSE 0

(* The first Limit of the candidates, the most similar first and of those  *)
(* that are equally similar the oldest; what their order is in the answer  *)
(* makes no difference here.                                               *)
Before(q, vectors, x, y) ==
  LET sx == Score(q, vectors[x])  sy == Score(q, vectors[y]) IN sx > sy \/ (sx = sy /\ x < y)
Ranked(q, ids, vectors) ==
  {x \in ids : Cardinality({y \in ids : Before(q, vectors, y, x)}) < Limit}

(* Distances of unit vectors order as cosines do; dissimilar ones stay.    *)
Nearest(q, vectors) == Ranked(q, DOMAIN vectors, vectors)

(* The key of a vector on disk is its embedder and the hash of its text.   *)
OnDisk(text) == text \in persistent
Write(text) == persistent' = persistent \union {text}

(* A failing embedder ends the call before it has looked at anything. *)
Retrieve(t, op, s, q) ==
  /\ At(t, "idle") /\ calls < MaxCalls
  /\ task' = [task EXCEPT ![t] = [Resting EXCEPT !.op = op, !.session = s, !.query = q,
                                    !.pc = IF op = "hnsw" THEN "check" ELSE "list",
                                    !.steady = {b \in InSession(s) : Readable(b)}]]
  /\ calls' = calls + 1
  /\ UNCHANGED <<store, caches, settled>>

(* OtherSessionOnlyByRace: any index will do. *)
CheckIndex_Any(t) ==
  /\ At(t, "check")
  /\ task' = [task EXCEPT ![t].pc = IF index = None THEN "list" ELSE "search"]
  /\ UNCHANGED <<store, caches, calls, settled>>

CheckIndex(t) ==
  /\ At(t, "check")
  /\ task' = [task EXCEPT ![t].pc = IF index # None /\ index.session = task[t].session
                                      THEN "search" ELSE "list"]
  /\ UNCHANGED <<store, caches, calls, settled>>

(* Which of the session's blocks need a vector: for an index all of them,  *)
(* for the linear retriever those it does not know.                        *)
List(t) ==
  /\ At(t, "list")
  /\ LET ids == ListSession(task[t].session)
         todo == IF task[t].op = "hnsw" THEN ids
                 ELSE Ascending(Range(ids) \ DOMAIN known)
     IN task' = [task EXCEPT ![t].ids = ids, ![t].todo = todo,
                   ![t].pc = IF ids # <<>> THEN "get"
                             ELSE IF task[t].op = "hnsw" THEN "install" ELSE "answered"]
  /\ UNCHANGED <<store, caches, calls, settled>>

(* InvalidationCounts: a vector on disk needs no further handling. *)
Load_SkipOnDisk(t) ==
  /\ At(t, "get") /\ task[t].todo # <<>>
  /\ LET b == Head(task[t].todo)
         todo == b \in DOMAIN blocks /\ ~OnDisk(blocks[b].text) /\ Readable(b)
     IN task' = [task EXCEPT ![t].todo = Tail(@),
                   ![t].batch = IF todo THEN Append(@, [id |-> b, text |-> blocks[b].text]) ELSE @]
  /\ UNCHANGED <<store, caches, calls, settled>>

(* One block: gone, its vector on disk, unreadable, or to be embedded. *)
Load(t) ==
  /\ At(t, "get") /\ task[t].todo # <<>>
  /\ LET b == Head(task[t].todo)
         onDisk == b \in DOMAIN blocks /\ OnDisk(blocks[b].text)
     IN /\ task' = [task EXCEPT ![t].todo = Tail(@),
                      ![t].vectors = IF onDisk /\ task[t].op = "hnsw" THEN With(@, b, blocks[b].text) ELSE @,
                      ![t].batch = IF b \in DOMAIN blocks /\ ~onDisk /\ Readable(b)
                                     THEN Append(@, [id |-> b, text |-> blocks[b].text]) ELSE @]
        /\ known' = IF onDisk /\ task[t].op = "linear" THEN With(known, b, blocks[b].text) ELSE known
  /\ UNCHANGED <<store, index, persistent, calls, settled>>

(* embed_batch fails or answers for every text. *)
EmbedBatch(t) ==
  /\ At(t, "get") /\ task[t].todo = <<>>
  /\ \/ task' = [task EXCEPT ![t].pc = IF task[t].batch # <<>> THEN "store"
                                       ELSE IF task[t].op = "hnsw" THEN "install" ELSE "search"]
     \/ task[t].batch # <<>> /\ task' = [task EXCEPT ![t] = Resting]
  /\ UNCHANGED <<store, caches, calls, settled>>

(* VectorsAreTheirBlocks: pair the vectors with the ids listed, not with   *)
(* those that were read.                                                   *)
StoreVector_ByPosition(t) ==
  /\ At(t, "store")
  /\ LET b == task[t].ids[1 + Len(task[t].ids) - Len(task[t].batch)]
         text == Head(task[t].batch).text
     IN /\ Write(text)
        /\ known' = IF task[t].op = "linear" THEN With(known, b, text) ELSE known
        /\ task' = [task EXCEPT ![t].batch = Tail(@), ![t].vectors = With(@, b, text),
                      ![t].pc = IF Len(task[t].batch) > 1 THEN "store"
                                ELSE IF task[t].op = "hnsw" THEN "install" ELSE "search"]
  /\ UNCHANGED <<store, index, calls, settled>>

(* LinearFindsAll: a vector that went to disk is not kept in memory. *)
StoreVector_DiskOnly(t) ==
  /\ At(t, "store")
  /\ LET e == Head(task[t].batch)
     IN /\ Write(e.text)
        /\ task' = [task EXCEPT ![t].batch = Tail(@), ![t].vectors = With(@, e.id, e.text),
                      ![t].pc = IF Len(task[t].batch) > 1 THEN "store"
                                ELSE IF task[t].op = "hnsw" THEN "install" ELSE "search"]
  /\ UNCHANGED <<store, index, known, calls, settled>>

(* Vectors go to disk one by one; a failure loses the ones not yet there   *)
(* and the call, and keeps the others.                                     *)
StoreVector(t) ==
  /\ At(t, "store")
  /\ \/ LET e == Head(task[t].batch)
        IN /\ Write(e.text)
           /\ known' = IF task[t].op = "linear" THEN With(known, e.id, e.text) ELSE known
           /\ task' = [task EXCEPT ![t].batch = Tail(@),
                         ![t].vectors = IF task[t].op = "hnsw" THEN With(@, e.id, e.text) ELSE @,
                         ![t].pc = IF Len(task[t].batch) > 1 THEN "store"
                                   ELSE IF task[t].op = "hnsw" THEN "install" ELSE "search"]
     \/ /\ task' = [task EXCEPT ![t] = Resting]
        /\ UNCHANGED <<known, persistent>>
  /\ UNCHANGED <<store, index, calls, settled>>

(* No vector, no index. *)
Built(t) ==
  IF DOMAIN task[t].vectors = {} THEN None
  ELSE [session |-> task[t].session, vectors |-> task[t].vectors]

(* The index built replaces whatever is there. *)
Install(t) ==
  /\ At(t, "install")
  /\ index' = Built(t)
  /\ task' = [u \in Thread |-> IF u = t THEN [task[t] EXCEPT !.pc = "search"]
                               ELSE [task[u] EXCEPT !.overtaken = (task[u].pc # "idle")]]
  /\ UNCHANGED <<store, known, persistent, calls, settled>>

(* The index ranks all it holds, whatever session it is of by now; the     *)
(* linear retriever ranks the listed blocks it knows and that are similar. *)
Search(t) ==
  /\ At(t, "search")
  /\ LET q == task[t].query
         listed == {b \in Range(task[t].ids) : b \in DOMAIN known /\ Score(q, known[b]) > 0}
         answer == IF task[t].op = "linear" THEN Ranked(q, listed, known)
                   ELSE IF index = None THEN {}
                   ELSE Nearest(q, index.vectors)
     IN task' = [task EXCEPT ![t].pc = "answered", ![t].answer = answer]
  /\ UNCHANGED <<store, caches, calls, settled>>

Return(t) ==
  /\ At(t, "answered")
  /\ task' = [task EXCEPT ![t] = Resting]
  /\ UNCHANGED <<store, caches, calls, settled>>

(* invalidate_index, which callers make after ingesting.  settled notes    *)
(* what later indexes must hold; an index under construction escapes it.   *)
Building(t) == task[t].op = "hnsw" /\ task[t].pc \in {"get", "store", "install"}

InvalidateIndex ==
  /\ index' = None
  /\ settled' = IF \E t \in Thread : Building(t) THEN settled
                ELSE {x \in Session \X DOMAIN blocks : x[2] \in InSession(x[1]) /\ Readable(x[2])}
  /\ UNCHANGED <<store, known, persistent, task, calls>>

ClearCache ==
  /\ known # <<>>
  /\ known' = <<>>
  /\ task' = [t \in Thread |-> [task[t] EXCEPT !.cleared = (task[t].op = "linear")]]
  /\ UNCHANGED <<store, index, persistent, calls, settled>>

-----------------------------------------------------------------------------
(* The store under the retrievers: put keeps the id of equal content.      *)

Holding(text) == {b \in DOMAIN blocks : blocks[b].text = text}

Put(s, text, parents) ==
  /\ lastId < MaxId
  /\ lastId' = lastId + 1
  /\ blocks' = IF Holding(text) = {}
                 THEN With(blocks, lastId + 1, [sessions |-> {s}, text |-> text, parents |-> parents])
                 ELSE [b \in DOMAIN blocks |->
                         IF b \in Holding(text) THEN [blocks[b] EXCEPT !.sessions = @ \union {s}]
                         ELSE blocks[b]]

Ingest(s, text) ==
  /\ Put(s, text, {})
  /\ UNCHANGED <<caches, task, calls, settled>>

Delete(b) ==
  /\ b \in DOMAIN blocks
  /\ blocks' = [x \in DOMAIN blocks \ {b} |-> blocks[x]]
  /\ settled' = {x \in settled : x[2] # b}
  /\ task' = [t \in Thread |-> [task[t] EXCEPT !.steady = @ \ {b}]]
  /\ UNCHANGED <<lastId, caches, calls>>

RetrieverNext ==
  \/ \E t \in Thread :
       \/ \E op \in {"hnsw", "linear"}, s \in Session, q \in Task : Retrieve(t, op, s, q)
       \/ CheckIndex(t) \/ List(t) \/ Load(t) \/ EmbedBatch(t) \/ StoreVector(t)
       \/ Install(t) \/ Search(t) \/ Return(t)
  \/ InvalidateIndex \/ ClearCache
  \/ \E x \in Ingested : Ingest(x[1], x[2])
  \/ \E b \in Volatile : Delete(b)

-----------------------------------------------------------------------------
(* Every vector in use embeds the text of the block it stands for, though  *)
(* unreadable and vanished blocks are left out of the batch.               *)
VectorsAreTheirBlocks ==
  /\ \A b \in DOMAIN known \intersect DOMAIN blocks : known[b] = blocks[b].text
  /\ index # None =>
       \A b \in DOMAIN index.vectors \intersect DOMAIN blocks : index.vectors[b] = blocks[b].text

(* The index answers with blocks of another session only if another thread *)
(* installed one between this call's check and its search.                 *)
Answered(t, op) == At(t, "answered") /\ task[t].op = op
OtherSessionOnlyByRace ==
  \A t \in Thread : Answered(t, "hnsw") /\ ~task[t].overtaken =>
    \A b \in task[t].answer \intersect DOMAIN blocks : task[t].session \in blocks[b].sessions

(* No caller gets a block of a session it did not ask for.                 *)
AnswersOwnSession ==
  \A t \in Thread : Answered(t, "hnsw") =>
    \A b \in task[t].answer \intersect DOMAIN blocks : task[t].session \in blocks[b].sessions

(* What was in a session when the index was invalidated, and no build was  *)
(* under way, is in every later index of that session.                     *)
InvalidationCounts ==
  index # None => \A x \in settled : x[1] = index.session => x[2] \in DOMAIN index.vectors

(* A readable, similar block that was in the session all the time is found *)
(* unless Limit others are at least as similar; batches that failed half   *)
(* way and other threads' embedding of the same blocks make no difference. *)
(* Only clear_cache during the call can hide it.                           *)
LinearFindsAll ==
  \A t \in Thread : Answered(t, "linear") /\ ~task[t].cleared =>
    \A b \in task[t].steady :
      LET q == task[t].query  score == Score(q, blocks[b].text) IN
      score > 0 /\ b \notin task[t].answer =>
        /\ Cardinality(task[t].answer) = Limit
        /\ \A c \in task[t].answer : Score(q, known[c]) >= score
=============================================================================
