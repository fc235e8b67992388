----------------------------- MODULE Retrievers -----------------------------
(***************************************************************************)
(* One retrieve call of the retrievers the pager fans out to               *)
(* (llm386-pager/src/retrievers.rs, python/src/python_traits.rs): the      *)
(* session is listed, its blocks are read one by one while others put and  *)
(* delete, and what was read is scored, sorted and cut at the limit.       *)
(*                                                                         *)
(* Texts are bags of words; scores are integers in thousandths.            *)
(***************************************************************************)
EXTENDS Integers, SequencesExt

CONSTANTS
  StampOf,     \* block id -> its millisecond; ids are ordered by it
  Body,        \* bodies callers put: word -> how often, Binary if not utf-8
  Binary,
  WordLen,     \* word -> its length
  MinWordLen,  \* kind of retriever -> the shortest word it looks at
  Query,       \* tasks: sets of words
  Limits,
  HalfLife,    \* of the decaying recency retriever, in the units of StampOf
  FlatScore,   \* of the session retriever
  Ln,          \* number -> its logarithm, in a unit that tells the numbers used apart
  Pinned,      \* the pinned ids, in order
  PythonReply  \* what Python retrievers return: <<id, score>> pairs, id 0 if it is no id

SessionIds == DOMAIN StampOf
Word == DOMAIN WordLen
ASSUME RetrieversAssumption ==
  /\ SessionIds \subseteq Nat /\ StampOf \in [SessionIds -> Nat]
  /\ IsFiniteSet(SessionIds)
  /\ IsFiniteSet(Word) /\ Query \subseteq SUBSET Word
  /\ Body \subseteq [Word -> Nat] \union {Binary}
  /\ Limits \subseteq Nat /\ HalfLife \in Nat \ {0}

ASSUME LnAssumption ==
  LET numbers == 1..(2 * Cardinality(SessionIds) + 2)
  IN /\ \A x \in numbers : Ln[x] \in Int
     /\ \A x, y \in numbers : x < y => Ln[x] < Ln[y]

VARIABLES
  listing,    \* id -> body: the blocks of the session
  retrieval   \* the call: [kind, task, limit, todo, docs, pc, scored, answer]

retrieverVars == <<listing, retrieval>>

Unit == 1000
Clamped(score) == IF score < 0 THEN 0 ELSE IF score > Unit THEN Unit ELSE score
NoCall == [kind |-> "none", task |-> {}, limit |-> 0, todo |-> <<>>, docs |-> <<>>,
           pc |-> "idle", scored |-> <<>>, answer |-> <<>>]

(* A set of ids in their order. *)
InOrder(ids) ==
  [k \in 1..Cardinality(ids) |-> CHOOSE i \in ids : Cardinality({j \in ids : j < i}) = k - 1]

(* list_session answers in the order of the ids. *)
Listed == InOrder(DOMAIN listing)

Tokens(kind, body) == {w \in DOMAIN body : body[w] > 0 /\ WordLen[w] >= MinWordLen[kind]}
DocLen(kind, body) == SumFunction([w \in Tokens(kind, body) |-> body[w]])

-----------------------------------------------------------------------------
StampsOf(ids) == {StampOf[i] : i \in ToSet(ids)}
Oldest(ids) == CHOOSE s \in StampsOf(ids) : \A x \in StampsOf(ids) : s <= x
Newest(ids) == CHOOSE s \in StampsOf(ids) : \A x \in StampsOf(ids) : s >= x

(* Linear over the span of the session; a span of one instant scores 0. *)
LinearScore(ids, id) ==
  LET span == Newest(ids) - Oldest(ids)
  IN ((StampOf[id] - Oldest(ids)) * Unit) \div (IF span = 0 THEN 1 ELSE span)

Halved[times \in Nat] == IF times = 0 THEN Unit ELSE Halved[times - 1] \div 2
(* Halved for every half-life a block is older than the newest. *)
DecayScore(ids, id) == Halved[(Newest(ids) - StampOf[id]) \div HalfLife]

(* Task words among the distinct words of the text. *)
LexicalScore(q, body) ==
  LET T == Tokens("lexical", body) IN (Cardinality(q \intersect T) * Unit) \div Cardinality(T)

(* RankedAsEarned: without the + 1 of the smoothed form. *)
Idf_Unsmoothed(n, df) == Ln[2 * n - 2 * df + 1] - Ln[2 * df + 1]

(* ln((n - df + 0.5) / (df + 0.5) + 1); the quotient is that of 2n + 2 and *)
(* 2df + 1.                                                                *)
Idf(n, df) == Ln[2 * n + 2] - Ln[2 * df + 1]

(* idf * f * (k1 + 1) / (f + k1 * (1 - b + b * dl / avgdl)), k1 = 1.2,     *)
(* b = 0.75, avgdl = total / n; in n-ths of the unit of Ln, so that no     *)
(* term is rounded to nothing.  The unit drops out of Bm25Score.           *)
Bm25Term(n, df, freq, dl, total) ==
  (Idf(n, df) * 22 * freq * total * n) \div (10 * freq * total + 3 * total + 9 * dl * n)

Total(docs) == SumFunction([d \in DOMAIN docs |-> DocLen("bm25", docs[d])])
Df(docs, w) == Cardinality({d \in DOMAIN docs : w \in Tokens("bm25", docs[d])})

Bm25Raw(q, docs, id) ==
  SumFunction([w \in q \intersect Tokens("bm25", docs[id]) |->
           Bm25Term(Cardinality(DOMAIN docs), Df(docs, w), docs[id][w], DocLen("bm25", docs[id]), Total(docs))])

(* Divided by the best raw score of the call. *)
Bm25Score(q, docs, id) ==
  LET best == Max({Bm25Raw(q, docs, d) : d \in DOMAIN docs})
  IN IF best > 0 THEN (Bm25Raw(q, docs, id) * Unit) \div best ELSE 0

-----------------------------------------------------------------------------
(* score: id -> what the retriever gives it, before it is clamped *)
Candidates(ids, score) == [i \in DOMAIN ids |-> [id |-> ids[i], score |-> Clamped(score[ids[i]])]]

(* Candidates of one score stay as they were listed. *)
BestFirst(cands) ==
  LET ahead(i, j) == \/ cands[i].score > cands[j].score
                     \/ cands[i].score = cands[j].score /\ i < j
      place(i) == Cardinality({j \in DOMAIN cands : ahead(j, i)}) + 1
  IN [k \in DOMAIN cands |-> cands[CHOOSE i \in DOMAIN cands : place(i) = k]]

Cut(cands, limit) == SubSeq(cands, 1, IF limit < Len(cands) THEN limit ELSE Len(cands))

Ranked(cands, limit) == Cut(BestFirst(cands), limit)

Answer(scored, answer) ==
  [retrieval EXCEPT !.pc = "done", !.todo = <<>>, !.scored = scored, !.answer = answer]

(* Calls that need no more than the list of the session. *)
AnswerFromList ==
  /\ retrieval.pc = "start"
  /\ LET linear == Candidates(Listed, [id \in DOMAIN listing |-> LinearScore(Listed, id)])
         decayed == Candidates(Listed, [id \in DOMAIN listing |-> DecayScore(Listed, id)])
         flat == Candidates(Listed, [id \in DOMAIN listing |-> FlatScore])
     IN \/ /\ retrieval.kind = "recency"
           /\ retrieval' = Answer(linear, Ranked(linear, retrieval.limit))
        \/ /\ retrieval.kind = "half_life"
           /\ retrieval' = Answer(decayed, Ranked(decayed, retrieval.limit))
        \/ /\ retrieval.kind = "session"
           /\ retrieval' = Answer(flat, Cut(flat, retrieval.limit))
  /\ UNCHANGED listing

(* The pinned ids, whether blocks of the session or not. *)
AnswerPinned ==
  /\ retrieval.pc = "start" /\ retrieval.kind = "pinned"
  /\ LET pins == Candidates(Pinned, [id \in ToSet(Pinned) |-> Unit])
     IN retrieval' = Answer(pins, Cut(pins, retrieval.limit))
  /\ UNCHANGED listing

FromPython(pairs) == [i \in DOMAIN pairs |-> [id |-> pairs[i][1], score |-> Clamped(pairs[i][2])]]

(* One id that does not parse fails the whole call; neither the limit nor  *)
(* the order is enforced on a Python retriever.                            *)
AnswerPython ==
  /\ retrieval.pc = "start" /\ retrieval.kind = "python"
  /\ \E pairs \in PythonReply :
       retrieval' = IF \E i \in DOMAIN pairs : pairs[i][1] = 0
                    THEN [retrieval EXCEPT !.pc = "failed"]
                    ELSE Answer(FromPython(pairs), FromPython(pairs))
  /\ UNCHANGED listing

ListDocuments ==
  /\ retrieval.pc = "start" /\ retrieval.kind \in {"lexical", "bm25"}
  /\ LET q == {w \in retrieval.task : WordLen[w] >= MinWordLen[retrieval.kind]}
     IN retrieval' = IF q = {} THEN Answer(<<>>, <<>>)
                     ELSE [retrieval EXCEPT !.pc = "read", !.task = q, !.todo = Listed]
  /\ UNCHANGED listing

(* Blocks gone by now, not utf-8 or without a word are passed over. *)
ReadDocument ==
  /\ retrieval.pc = "read" /\ retrieval.todo # <<>>
  /\ LET id == Head(retrieval.todo)
         readable == id \in DOMAIN listing /\ listing[id] # Binary
     IN retrieval' = [retrieval EXCEPT !.todo = Tail(@),
          !.docs = IF readable /\ Tokens(retrieval.kind, listing[id]) # {}
                   THEN [d \in DOMAIN @ \union {id} |-> IF d = id THEN listing[id] ELSE @[d]] ELSE @]
  /\ UNCHANGED listing

ScoreDocuments ==
  /\ retrieval.pc = "read" /\ retrieval.todo = <<>>
  /\ LET q == retrieval.task
         docs == retrieval.docs
         score == [id \in DOMAIN docs |->
                     IF retrieval.kind = "bm25" THEN Bm25Score(q, docs, id) ELSE LexicalScore(q, docs[id])]
         hits == InOrder({id \in DOMAIN docs :
                   IF retrieval.kind = "bm25" THEN Bm25Raw(q, docs, id) > 0
                   ELSE q \intersect Tokens("lexical", docs[id]) # {}})
         cands == Candidates(hits, score)
     IN retrieval' = Answer(cands, Ranked(cands, retrieval.limit))
  /\ UNCHANGED listing

Retrieve ==
  /\ retrieval.pc = "idle"
  /\ \E kind \in {"recency", "half_life", "session", "pinned", "python", "lexical", "bm25"},
        q \in Query, limit \in Limits :
       retrieval' = [NoCall EXCEPT !.kind = kind, !.task = q, !.limit = limit, !.pc = "start"]
  /\ UNCHANGED listing

(* Other clients of the store, while the call reads. *)
OtherDeletes(id) ==
  /\ retrieval.pc = "read"
  /\ id \in DOMAIN listing
  /\ listing' = [i \in DOMAIN listing \ {id} |-> listing[i]]
  /\ UNCHANGED retrieval

RetrieversInit ==
  /\ \E ids \in SUBSET SessionIds : listing \in [ids -> Body]
  /\ retrieval = NoCall

RetrieversNext ==
  \/ Retrieve \/ AnswerFromList \/ AnswerPinned \/ AnswerPython
  \/ ListDocuments \/ ReadDocument \/ ScoreDocuments
  \/ \E id \in SessionIds : OtherDeletes(id)

RetrieversSpec == RetrieversInit /\ [][RetrieversNext]_retrieverVars

-----------------------------------------------------------------------------
IsDone == retrieval.pc = "done"
Answered == ToSet(retrieval.answer)

(* The limit costs the worst candidates only: what is left out scores no   *)
(* more than what is returned, and nothing is left out below the limit.    *)
LimitKeepsTheBest ==
  IsDone /\ retrieval.kind \notin {"session", "pinned"} =>
    /\ retrieval.kind # "python" => Len(retrieval.answer) <= retrieval.limit
    /\ \A c \in ToSet(retrieval.scored) \ Answered :
         /\ Len(retrieval.answer) >= retrieval.limit
         /\ \A a \in Answered : a.score >= c.score

(* Whatever is deleted meanwhile, a block that was read and shares a word  *)
(* the retriever looks at with the task is a candidate: the idf of a word  *)
(* that most documents contain does not cancel them.                       *)
QueryWordIsFound ==
  IsDone /\ retrieval.kind \in {"lexical", "bm25"} =>
    \A id \in DOMAIN retrieval.docs :
      (retrieval.task \intersect Tokens(retrieval.kind, retrieval.docs[id]) # {})
        <=> \E c \in ToSet(retrieval.scored) : c.id = id

(* A text with every task word at least as often, and no longer, is worth  *)
(* no less to bm25.                                                        *)
Bm25Monotone ==
  IsDone /\ retrieval.kind = "bm25" =>
    \A c, d \in ToSet(retrieval.scored) :
      LET freq(x, w) == retrieval.docs[x.id][w]
          len(x) == DocLen("bm25", retrieval.docs[x.id])
      IN (\A w \in retrieval.task : freq(c, w) >= freq(d, w)) /\ len(c) <= len(d)
           => c.score >= d.score

(* Of two blocks the newer one never scores lower by recency. *)
NewerScoresHigher ==
  IsDone /\ retrieval.kind \in {"recency", "half_life"} =>
    \A c, d \in ToSet(retrieval.scored) : StampOf[c.id] > StampOf[d.id] => c.score >= d.score

(***************************************************************************)
(* The limit leaves out the worst, a word that most blocks share does not  *)
(* cancel them, and length or age alone never turns the order round,       *)
(* whatever is deleted while the call reads.                               *)
(***************************************************************************)
RankedAsEarned == LimitKeepsTheBest /\ QueryWordIsFound /\ Bm25Monotone /\ NewerScoresHigher
=============================================================================
