# A verification of LLM386

LLM386 pages conversation context for language models: content blocks live in a
store, a pager chooses which of them go into the next prompt, a packer renders the
choice. This directory holds TLA+ modules of its core, their TLC configurations, and
proofs checked by TLAPS. Paths below are relative to the repository; `crates/x`
stands for `crates/llm386-x`.

```
tlasany M.tla                       # parse
tlc -workers 2 -config X.cfg M.tla  # model-check one run of PROJECT.json
tlapm LmdbStoreProofs.tla           # check the proofs, here and of PgStoreProofs, GreedyPagerProofs,
                                    # GreedyPagerEdgesProofs, PackCommandProofs, SessionCallsProofs,
                                    # ComponentsProofs, RecursionTheorems
```

`PROJECT.json` lists the runs, the mutants (a plausible bug for every property, and
the property that notices it), the source lines of every definition, the findings,
the hazards and the theorems.

## 1. The system

| Component | State it keeps | Operations |
|---|---|---|
| `BlockStore` trait (`crates/core/src/store.rs`) | none: the contract | put, get, list_session(s), lookup_hash, delete, purge_session, put_edge, edges_from/to |
| `LmdbStore` (`crates/store-lmdb`) | five LMDB tables: blocks by id, hash to id, session entries, edges from, edges to | the trait, verify, repair |
| `PgStore`, `AsyncPgStore` (`crates/store-pg`) | three Postgres tables and a version row; a connection pool per store | open (schema bootstrap under an advisory lock), the trait |
| `GreedyPager` (`crates/pager`) | locals of one `page` call | page: required, system, sections, summaries, edge expansion, edge reconciliation |
| Retrievers (`crates/pager/src/retrievers.rs`, `python/src/python_traits.rs`) | none | retrieve: session, recency, lexical, BM25, pinned, Python |
| Embedding retrievers (`crates/retrieve-ann`) | one HNSW index, of one session at a time; vectors in memory and on disk | retrieve, invalidate_index, clear_cache |
| `SimplePacker` (`crates/packer`) | none | pack, pack_chat |
| Trace store (`crates/trace`, `crates/core/src/trace.rs`) | LMDB table of records | record, fetch, update_output |
| Reducers (`crates/reduce`) | none | reduce: identity, append-output, json-events |
| Summarizers (`crates/compress*`) | none | summarize |
| Model registry (`crates/core/src/model.rs`), configuration (`crates/config`) | profiles by position and by name | register, resolve; choice of store and TLS mode |
| Command line (`crates/cli`) | none between commands | put, page, pack, show, add-edge, purge, verify, repair, summarize, trace ... |
| Python `Store` (`python/src/store.rs`) | the open store, a list of Python retrievers | page, pack, summarize, add/clear retrievers, close |
| Plan diff (`crates/diff`) | none | diff_plans |
| Tokenizers, benchmark | counts; timings | count |

How they interact. The pager, the packer, the retrievers, the command line and the
Python layer call a `BlockStore`; nothing but the store's own transactions protects them
from each other, so every read is a snapshot that may be out of date when it is used. The
pager calls retrievers for candidate ids and reads each block again whenever it needs it.
The packer reads the plan's blocks once more, and `pack --chat` packs twice. Retrievers
that keep vectors are shared by threads and guard their state with locks that they give
back between reading and using it. Python retrievers are called back with the interpreter
in hand.

What is hard about it:

* **Redundant tables.** LmdbStore keeps each fact twice (rows and hash index, edges in
  both directions) and must update both, for every history of puts that deduplicate
  across sessions, deletes and purges.
* **Transactions of several statements.** Under READ COMMITTED another transaction may
  commit between any two statements of a put, delete or purge. Row locks, their order
  and the statement that decides what is an orphan must fit together.
* **Opening and sharing.** Processes create the same schema at once and may die half
  way; callers share fewer connections than there are callers.
* **Stale reads.** page reads, decides, reads again, without a lock; so do pack, summarize,
  update_output and the building of an index.
* **Order.** HashMap iteration decides the order of sections and of edge kinds.
* **Boundaries.** Budgets that are zero, exceeded by the task alone, fractions above one;
  idf of words that most documents share.
* **Call-backs.** A retriever or finalizer written in Python lets other threads into the
  same Store.

Correctness, component by component, is in section 3; `hazards` in PROJECT.json has
the hazards at their lines, with the property that would catch each or the reason why
there is none.

## 2. Modules

| Module | Models | Extends or instantiates |
|---|---|---|
| `BlockStore` | the trait, twice: `Spec` (each call one atomic step with its reply) and `LooseSpec` (what the tables may do when a call is several statements) | |
| `LmdbStore` | all of `LmdbStore`: one action per operation over the five tables | instantiates `BlockStore` |
| `LmdbDamage` | `LmdbStore` when table entries are lost; repair | extends `LmdbStore` |
| `LmdbStoreProofs` | theorems about `LmdbStore` and `LmdbDamage` | extends `LmdbDamage`, `RecursionTheorems` |
| `PgStore` | put, delete, purge_session statement by statement, row lock by row lock | instantiates `BlockStore` |
| `PgClients` | open and bootstrap of several stores; callers that share pools | extends `PgStore`, whose transactions it runs |
| `PgStoreProofs` | theorems about `PgStore` (what a transaction knows, consistency, leaks, refinement, deadlock) and `PgClients` (opens, pools) | extends `PgClients` |
| `GreedyPager` | one `page` call against a store others change | |
| `GreedyPagerTwice` | the same request paged twice | extends `GreedyPager` |
| `GreedyPagerProofs` | theorems about the plan and its budgets | extends `GreedyPager`, `RecursionTheorems` |
| `GreedyPagerEdgesProofs` | theorems about edge expansion and reconciliation | extends `GreedyPagerProofs` |
| `SimplePacker` | pack and pack_chat, call after call, over a store others change | |
| `PackCommand` | the calls that page, pack (once or twice) and trace; update_output | extends `SimplePacker` |
| `PackCommandProofs` | theorems about traces and prompts | extends `PackCommand`, `RecursionTheorems` |
| `AnnRetrievers` | HNSW and linear retriever, index, vector caches, several threads | |
| `SessionCalls` | summarize next to those retrievals | extends `AnnRetrievers` |
| `SessionCallsProofs` | theorems about both | extends `SessionCalls`, `RecursionTheorems` |
| `Retrievers` | one call of each other retriever while blocks are deleted | |
| `ModelRegistry` | registration and resolution of model profiles | |
| `TraitStore` | what the trait's calls do to a store, for the front ends below | |
| `CommandLine` | one command after another: file, flags, store, effect | extends `TraitStore` |
| `PyStore` | one Python `Store` under several threads | extends `TraitStore` |
| `Reductions` | turns whose reductions are committed and replayed | |
| `PromptDiff` | the diff of two recorded plans | |
| `ComponentsProofs` | theorems about the six modules above but `TraitStore`, and the registry | extends `Retrievers`, `ModelRegistry`, `CommandLine`, `PyStore`, `Reductions`, `PromptDiff`, `RecursionTheorems` |
| `RecursionTheorems` | induction, and recursive functions, over the naturals; in terms of sets and functions | |
| `MC*` | constants for TLC; `MCComponents` joins `LmdbDamage` and six modules that share no state: in a behaviour one is `active` and the others rest | |

Operators whose name has a `_` after that of a definition (`PurgeEdges_NoMirrors`) are
deliberate mistakes, used by no action. Each stands before the definition it spoils, and
is named by a mutant of PROJECT.json.

### BlockStore
`blocks`, `refs` (session, id), `edges` and the `reply` of the last call. Contents are
hashes and `HashOf` gives the content an id carries: an id never names two contents,
because ids are random, or derived from the content. `reply` makes what a caller is told
part of the promise: the id put returns, whether delete found something, which blocks
purge counted. (purge returns their number; the model returns the set.)

### LmdbStore
One variable per table. A write is one LMDB transaction and LMDB has one writer, so an
operation is one step; an error or a crash before commit leaves the tables untouched and
is no step at all. Reads open a read transaction, which is a snapshot: one step. `delete`
looks up session keys and the row first and answers FALSE without writing if it finds
neither; the hash entry it drops is the one the stored row names. `purge_session` drops
the session's entries, then finds the blocks no other session lists, and removes their
rows, hash entries and edges. `PurgeEdges` mirrors `purge_edges_for_block`: entries under
the block in each table and, through them, the opposite entries, so it removes what it
should only while the tables mirror each other. `repair` rebuilds the hash index in id
order and drops session entries of missing blocks. `verify` reports four kinds of
inconsistency. Block payloads, token counts and timestamps have no influence on any of
this and are left out. So are the fifth list of a `verify` report, `hash_mismatches`, and the
rows `repair` quarantines for it: in the model a row always has the content of its id. `put` of an id that is stored with other
content is not modelled (see HashOf).

### LmdbDamage
The environment removes one entry of a table at a time, a row, a hash entry or a session
entry, at any moment; callers go on. The edge tables stay whole: `repair` does not touch them.
`damaged` says whether an entry was lost since the store was opened or repaired.

### PgStore
`blocks`, `refs`, `edges` are committed rows. `tx[c]` is the transaction of connection c:
its statement (`pc`), what its call found (`ids`, `orphans`), the rows the statement has
still to lock (`todo`), and rows it `held`, inserted (`ins`) and deleted (`del`).
A statement takes its snapshot when it starts (the rows in `todo`), locks them one by one,
waiting for holders, and a row whose holder committed its deletion drops out of it.
`INSERT ... ON CONFLICT (hash) DO UPDATE` waits for any transaction that holds a row of
that content, then locks the committed row or inserts the proposed id. `INSERT ... ON
CONFLICT DO NOTHING` waits only for a transaction that is inserting or deleting that row.
`Commit` publishes, `Abort` is every error, lost connection, crash, or dropped future.
`Deadlocked` is a cycle of waits, `DeadlockVictim` Postgres' answer. The sync and async
stores issue the same statements in the same order. Constants choose the environment:
`Seed` rows left by an earlier process, `Fresh` whether an id may be inserted again after
its block was deleted (a retried put), `ScanOrder` whether scans lock rows in key order.
Rollback never shows uncommitted rows, so `Abort` only forgets the transaction.
`used` and `overlapped` are history: ids that were once stored, and blocks whose put
committed while a purge of the session or a delete of the block had already gone past.
Postgres itself (locks, waits, deadlock detection) is external: modelled from how the
store relies on it.

### GreedyPager
`stored` and `edges` are the store; `OtherPut`, `OtherDelete`, `OtherPutEdge` are other
callers. `request` is the PageRequest with the scoring policy. `page` is the call: its
phase and locals. One step per read of the store or per decision:

| Phase | Actions | Code (`greedy.rs`) |
|---|---|---|
| required | `ResolveRequired`, `Retrieve` | required blocks must be there and fit; the task is charged unchecked; ids retrieved |
| load | `LoadCandidate`, `StartSystem` | an id that is no longer stored is ignored |
| system | `FillSystem`, `Allocate` | System first, then the variable budget and its allocation |
| fill | `NextSection`, `SkipRedundant`, `TakeCandidate`, `Substitute`, `OmitCandidate`, `FinishFill` | per section by rank, redundancy filter, summary fallback |
| expand | `PopFrontier`, `PullDependency`, `FinishExpand` | `expand_edges`, breadth first |
| reconcile | `ReadEdges`, `ResolveEdge`, `FinishReconcile` | `reconcile_edges`: drops and notes |
| rebuild | `Rebuild`, `FinishRebuild` | the plan without what was dropped |

Abstractions: ids are ordered by age, as the time in their high bits makes them, and the
tie-breaks of `resolve_contradiction` (creation time, priority) come down to that one total
order;
`rank` stands for the candidates' sort key; `Similar` for the pairs whose Jaccard overlap
reaches the threshold; fractions are hundredths; what retrievers return is part of the
request. A block's lookup and its edge lists, in expansion, are one step, and so is the
scan that indexes summaries. Any call of the store, a retriever or the tokenizer may fail
and ends the call without a plan (`Fail`). Candidates of the Slack section would be omitted
untried; there is no action for it, because `default_section` sends no block there.

### PgClients
`catalog` and `version` are what is committed of the schema, `lock` the advisory lock,
`opening[s]` how far the open of store s is, `caller[u]` whether caller u waits for a
connection, holds one or is in a call. One open is `Connect`, `TakeLock`, `LookForTables`
and `CreateTables` (CREATE ... IF NOT EXISTS looks before it inserts into the catalog, and
fails if another transaction's row of that name commits in between), `WriteVersion`, then
`Install` or `Refuse`; PgStore builds its pool afterwards (`BuildPool`), AsyncPgStore
before. A caller does `Ask`, `CheckOut`, `StartCall`, `GiveBack`; the transaction in between
is PgStore's own (`Proceed`, `Fail`). r2d2 gives up on a waiting caller
(`CheckOutTimesOut`), deadpool does not. `Close` is the end of a process anywhere. The
database may be new, in use, of another version with a table missing, or have a version
row that cannot be read.

### SimplePacker, PackCommand
`call` is the packing under way: the plan, the ids still to fetch, and the text or messages
rendered. Text is a sequence of pieces (header, note, stamp, body, task), a tokenizer a cost
per piece; characters are left out. The call carries the packer's options, and what it
renders is a function of its `Input`: options, form, plan, request and fetched ids. A
section's blocks are picked by their rank among the ids (`InSection`), the pieces joined by
`FlattenSeq` (`Each`). `BlockAssumption`: ids are naturals, and no block belongs to `task` or
`slack`, as `default_section` sends none there. Every block is fetched by a step of its own,
so a block deleted after paging ends the call. `prior` is the last chat prompt, for the cache
boundary, which counts the messages of stable sections at the front. `PackCommand` runs whole commands on top: page
(any plan the pager may make of what is stored), pack, for `--chat` a second packing, and a
trace; pack_with_plan rebuilds a plan from ids. `update_output` is a fetch and a record of
two racing agents. `MaxCommands`, `MaxPatches` bound a behaviour.

### AnnRetrievers, SessionCalls
`index` is None or one session's vectors, `known` the linear retriever's cache, `persistent`
the disk cache, `task[t]` the call of thread t. A vector is known by the text it embeds, so
a wrong pairing shows. A retrieval is cut where locks are released and the store is read:
`CheckIndex`, `List`, `Load` per block, `EmbedBatch`, `StoreVector` per vector, `Install`,
`Search`. Embedding or disk may fail at any of them. `summarize` is `ListLast`, `ReadBlock`
per block, `StoreSummary`; a summary's text is what was read, so that its parents can be
compared with it. What a retrieval answers is a set: no property depends on its order. The
graph search is taken as exact. `MaxCalls` and `MaxId` bound a behaviour. `settled`,
`overtaken`, `cleared`, `steady` are history.

### Retrievers
`listing` is the session, `retrieval` the call. Texts are bags of words, scores integers in
thousandths. `Ln` is the logarithm in a unit small enough to tell apart the numbers a session
leads to, `Idf` a difference of two of its values, `Bm25Term` BM25 in integers; both units
drop out when scores are divided by the best. Ids and candidates are put in order by rank (`InOrder`,
`BestFirst`), sums are the library's `SumFunction`. Blocks may be deleted while the call
reads.

### ModelRegistry
`registry` has the profiles in order and the index by name. Names are sequences of parts,
so that a family is a prefix. `MaxUserProfiles` bounds the file.

### CommandLine, TraitStore
`disk` has every store there is, `command` the running process: flags, file, the store it
opened and the TLS mode. `OpenBackend` is the choice of the store from [store] section and
flags. `TraitStore` gives what the trait does in terms of contents; that the backends do
so is the business of `LmdbStore` and `PgStore`. `MaxCommands` bounds a behaviour.

### PyStore
`gil` is the thread that has the interpreter. Rust code of the bindings never gives it up,
so threads change over only in Python code: outside, in a retriever a page calls, in the
`name` an added retriever is asked for, in a finalizer. `writer` holds the list of
retrievers; `finalized` are the objects destroyed. Locks that would block with the
interpreter in hand are steps of their own (`read_lock`, `write_lock`).

### Reductions, PromptDiff
A turn is `TakeOutput`, `ReduceOutput`, `CommitBlock` per block, `CommitEdges`; it may stop
anywhere, and the last turn may be run again any number of times (`Replay`). `BlockIdFrom` is
(time, body, kind), what the code's hash of them tells apart; `link_to_state` is on, as
`AppendOutputReducer::new` sets it. The agent that commits is not in the repository.
`MaxTurns` bounds it.

`PromptDiff` compares any two plans. `selections` is a sequence of at most `MaxSelections`
pairs of block and reason, required blocks first, in which a block may come again, as it does
when it is required twice or selected once more as a summary; or it is empty, as in old traces
and in those of pack_with_plan. `ReasonsById` inserts them into a map one by one. The order
of `selected` has no influence, so it is a set.

## 3. Runs

| Run | Asks | Instance |
|---|---|---|
| `lmdb_store` | do the five tables agree after every history, is every reply the trait's | 3 ids (two of one content), 2 sessions, 2 edge kinds |
| `pg_store` | consistency, effect and atomicity of concurrent calls | 2 connections, 3 ids (two of one content), 2 sessions, an edge |
| `pg_clients` | do opens collide, who serves what schema, does everybody get an answer | a PgStore and an AsyncPgStore, a connection each, 3 callers, 4 databases to start from; ids may be reused |
| `pager` | budgets, accounting, estimate, expansion, reconciliation, termination | 5 blocks; every subset of 8 edges under 3 policies on a calm store; budgets 0 to 12, fractions that sum to 1.6, redundancy and fallback while 3 blocks come and go and an edge arrives |
| `prompt` | is the prompt the plan's, is the trace the command's | 8 blocks, 6 plans, 3 requests, 2 packer options, 2 commands, 2 patches by 2 agents, a block that comes and goes |
| `session` | do shared vectors and indexes stay what they stand for | 2 threads, 2 sessions, 4 blocks and 1 new text, 3 calls, 3 summarizers |
| `components` | an LMDB store that loses entries: does repair, after any losses and calls, make the indexes safe to use; and the six small modules | 3 ids, 2 sessions, any number of losses; 3 user profiles; 3 documents; 2 commands over 2 LMDB and 1 Postgres store; 2 Python threads, 2 retrievers; 3 turns, replayed at will; all pairs of plans over 2 blocks, 3 reasons and at most 3 selections |
| `pg_purge_leaks_late_put`, `pager_prompt_depends_on_map_order`, `replan_loses_notes`, `index_of_another_session`, `repeated_output_unlinked` | findings, below | 3 connections and 2 blocks; 5 blocks; as `prompt`; as `session`; as `components` |

**What the properties say.**
*LmdbStore*: `TablesAgree` joins `HashIndexExact` (the hash index is the inverse of the
rows, so put neither deduplicates onto a missing block nor stores a content twice),
`SessionsExact` (no dangling entry, no leaked block) and `EdgesMirrored`;
`ImplementsBlockStore` (refinement, replies included) has every operation's effect;
`RepairedStoreIsSafe`.
*PgStore*: `TablesConsistent` (no session row without its block, no content twice),
`NoLeakWithoutOverlap` (a block without a session exists only if its put overlapped a purge
or delete), `PutNeverDeadlocks`, `CallsTakeEffect` (what a call reports is true at its
commit), `ImplementsLooseStore` (every commit is a step the trait may take). Step 3 of
purge_session (locking session rows) turns out to add nothing to step 2: two purges that
share a block already queue for its row, and with step 3 left out all of these still hold
on these instances.
*PgClients*: `OpensDoNotCollide`, `ReadyMeansInstalled`, `RefusedIsUntouched` (a database of
another version is left as it was although the migration runs before the check),
`ConnectionsArePrivate`, `NobodyWaitsForever`.
*GreedyPager*: `BudgetsKept` (the plan keeps to the input budget, what is ranked to the
variable one and, if summaries do not stand in for blocks, to its section's; no count wraps.
Required blocks and pulled dependencies are charged to no section),
`CandidatesOnce`, `CompressedIsCovered`, `EstimateKept` (exact on a calm store, never low),
`DependenciesInReach` and `LeftOutOnlyForRoom` (expansion takes what it may and leaves out
only what does not fit, whichever path reaches it first; what is followed keeps to the
fan-out), `EdgesReconciled`, `Terminates`. The three about edges speak of calls during which
nobody else writes, as the code promises nothing else.
*Prompts*: `HoldsThePlan` (each block as often as selected, in order, none silently
missing), `NotedBlocksWarn`, `CachedPrefixKept`, `TraceOfWholeCommand`, `PatchKeepsCall`.
*Sessions*: `VectorsAreTheirBlocks`, `OtherSessionOnlyByRace` (what is left of session
isolation, see finding 4), `InvalidationCounts`, `LinearFindsAll`, `ParentsWereRead`.
*Components*: `ResolvesAsDocumented` (the one-pass resolution against the documented
definition), `RankedAsEarned` (limit, idf, length and age), `DestroysOnlyAsTold` (only the
store the user named changes, over the TLS mode configured, and loses something only by a
confirmed purge), `OnlyFinalizersBlock`, `FinalizedWhenUnused`, `ClosedMeansReleased`,
`CommittedOnce` (however often a turn is replayed, each body is stored once and each output
linked at most once, and only the edge of an output the store had before can be lost; see
finding 5), `DiffIsExact` (the diff is a patch; each side has the last reason of the block;
no change is shown exactly if blocks and last reasons agree; the last reason may hide another, see the further observations).

**Why the bounds are enough.** Every decision of the stores looks at one content, one
block's sessions and one block's edges. Two ids of one content and a third block give a
deduplication and an unrelated block; two sessions give shared and unshared blocks; two
connections give every pair of overlapping calls. The pager's blocks cover two variable
sections and System, a summary with two parents, and edges forming chains, cycles and
diamonds, deeper than the deepest policy run (2). The histories of stores, clients and pager
are not bounded: there is no step counter, and the state spaces are explored completely.
The prompt's plans have a block twice, out of order, with a note on either selection, one
that is not text, one that does not fit; two commands are what a cached prefix or a plan
packed again needs. Two threads and three calls are a race for the index and one more call
that sees its outcome. In the linear retriever a limit of 2 cuts a session of three.
Connections, threads and agents are symmetric where no liveness is checked.

**Deadlock.** Checked in `lmdb_store`, `pg_store` and `pg_clients` (a caller can always make another call). Off in the
pager, whose call ends; in `prompt` and `session`, whose calls are bounded; and in
`components`, where commands, turns and the diff come to an end and where a Python thread
that waits for the list behind a finalizer never goes on (`OnlyFinalizersBlock` says that
this is the only such case).

**Fairness.** `PgClients!FairClientsSpec`: statements that can run do, by strong fairness
of `Proceed`, because Postgres queues the waiters of a row lock and its deadlock detector
fires after `deadlock_timeout`; strong fairness of `TakeLock` (advisory locks queue too) and
of `CheckOut` of the async pool (deadpool queues); for r2d2 only weak fairness of its timer;
weak fairness of a caller's and an open's own steps. No fairness of opening, calling,
failing or closing. `GreedyPager!FairSpec`: weak fairness of the call's steps; it runs on
its caller's thread and waits for nobody. Other callers are not fair: they may go on forever.

### Findings

1. **A put during a purge leaks its block** (`NoOrphanBlock`). Step 4 of purge_session
   deletes the new row, step 5 only looks at the blocks of step 1.
2. **The same request can give two prompts** (`SamePromptTwice`). Sections are filled in
   HashMap order, which decides the order of `selected` and so which dependency gets the
   last room.
3. **pack_with_plan loses the warnings** (`ReplanRendersThePlan`). It rebuilds the plan
   without `selections`, which its comment calls informational; the packer reads the notes
   there.
4. **A retrieval may answer with another session's blocks** (`AnswersOwnSession`). The
   HNSW index is checked, and later searched, under different locks; another thread may
   have installed its own session's index in between.
5. **A repeated output is not linked to its state** (`OutputIsLinked`). AppendOutputReducer
   draws the Parent edge from the id it proposes, which has the time in it. A store that has
   the output already keeps it under the old id, so the edge leaves a block that is never
   stored. DESIGN.md:193 says the reducer stores the response and links it to the prior state.

Further observations, each with a configuration that shows it:

* `MCPgStoreDeadlock.cfg`: two purges can deadlock (`NoDeadlock`), each overtaken by a put of
  the other's block, because step 4 deletes rows it has not locked. The comment on step 2
  says the lock order rules this out. Postgres rolls one back.
* `MCPgStoreRetry.cfg`: a block deleted before step 2 of a purge and put again after it under
  the same id is not locked; step 6 deletes it under a put that has deduplicated onto
  it (`NoDanglingRef` with `Fresh = FALSE`). With ids used once the property holds.
* `MCGreedyPagerDropped.cfg`: a block can be dropped for a block that is dropped itself
  (`DroppedForKept`): reconcile_edges decides all edges before any drop.
* `MCComponentsPromotion.cfg`: a diff may hide that a block became required
  (`PromotionShows`). `reasons_by_id` keeps the last reason of a block, and page may select a
  pinned block again as a summary, with HighRelevance. The crate's documentation
  (diff/src/lib.rs:14) gives the promotion to Pinned as its example of a change that shows.
* `MCPgStoreThree.cfg` (passes): consistency and lock order with a third connection.
  `MCPgStoreLive.cfg` (passes): every call returns, with a session of two blocks.

## 4. Proofs

### LmdbStoreProofs

For all sets of ids, sessions, contents and edges:

| Theorem | States |
|---|---|
| `TypeCorrect` | `Spec => []TypeOK` |
| `TablesAgreeAlways` (and part by part `HashIndexCorrect`, `SessionsCorrect`, `EdgesCorrect`) | `Spec => []TablesAgree` |
| `EdgesDie` | `Spec => EdgesDieWithBlock`: a removed block takes every edge that names it |
| `Implementation` | `Spec => BS!Spec` with the refinement `blocks <- Stored, refs <- blocks_by_session, edges <- edges_from` |

Assumptions: ids are naturals (only their order matters, for repair), `HashOf` gives each
id one content, edges join ids, `None` is neither an id nor a hash.

The inductive invariant is `Inv == TypeOK /\ Consistent`, where `Consistent` joins
`HashIndexExact`, `SessionsExact`, `EdgesMirrored` and `RowsGenuine` (a row carries its
id's content). None of the four is inductive alone. `HashIndexExact` needs `RowsGenuine`,
without which a fresh put could overwrite a row and leave its hash entry. `SessionsExact`
needs `HashIndexExact`, or a deduplicated put would list a missing block. `EdgesMirrored`
is what makes `purge_edges_for_block`, which finds incoming edges through the other table,
remove them all. `Invariance` proves it, one step per action and one lemma per table
an action disturbs; the refinement then follows action by action: `PutDedup` and
`PutFresh` are the two cases of `Put`, a delete that finds nothing is `Delete` of an
absent block, and on a consistent store `Verify` reports clean and `Repair` changes nothing.

Of `LmdbDamage` it proves `RepairedStoreIsSafeAlways`, `DSpec => []RepairedStoreIsSafe`:
after any losses and calls, a store repaired since has a hash index that finds no missing
block and session entries that list none. `Consistent` does not survive a loss. `DamageInv`
is what does: `RowsGenuine`, `EntriesGenuine` (a hash entry names an id of that content; an
entry can go, but none can come to name another content) and finitely many rows
(`StoreBounded`). The index that `repair` rebuilds names, for each content, the highest id
stored with it; `HighestStored` shows that there is one, and so that no entry is left to
chance.

### PgStoreProofs

For any number of connections,
sessions, blocks and edges, with locks asked for in any order (`ScanOrder`), and any rows
left by an earlier process:

| Theorem | States |
|---|---|
| `TablesConsistentAlways` | `Fresh /\ Spec => []TablesConsistent` |
| `NoLeakWithoutOverlapAlways` | `Fresh /\ Spec => []NoLeakWithoutOverlap` |
| `CallsTakeEffectAlways` | `Fresh /\ Spec => CallsTakeEffect` |
| `ImplementsLooseStoreAlways` | `Fresh /\ Spec => BS!LooseSpec`, the trait as several statements may keep it |
| `PutNeverDeadlocksAlways` | `Fresh /\ Spec => []PutNeverDeadlocks` |

Assumptions: those of `PgStore` (ids are naturals, one content per id, edges join ids,
`None` is no session and no hash, the seed is consistent), and `Fresh`: no id is inserted
again after its block was deleted. It is needed: `MCPgStoreRetry.cfg` shows
the code without it (section 3, further observations).

The heart is that what a transaction knows stays true while others commit. `PgInv` says
what it knows: a block whose row it holds is there or is its own (`HoldsWhatIsThere`), what it
inserts is new (`InsertsNew`), its session rows and edges are those of the blocks it is about
(`PutStands`, `DeleteStands`, `PurgeStands`), and two transactions never hold blocks of one
content (`OneHolder`). `CommitOthersStand` shows that a commit leaves this to the other
transactions: it may only delete rows that it holds, and so none that they hold. `OneHolder`
makes the upsert's wait enough for one block per content; `PurgeStands` and `DeleteStands`
make sure that a deleted block's session rows go with it. `LeakInv` adds session rows: which
a purge has still to delete, that it holds those of the blocks it looked at, and that a row
it has missed belongs to a block that is in `overlapped`. A purge's orphans are exactly the
blocks that lose their last row, so `CallsTakeEffect` and the refinement follow from the two
invariants at the commit. For deadlocks, `AllBlocksFirst`: as long as a call asks for blocks
it has nothing but blocks. A put that waits for a block has nothing anyone could wait for.
One that waits to insert its session row has a block only, so who waits for it is still at
the blocks; but the calls past their blocks wait for each other only, and would be a
smaller deadlock without that one.

Of `PgClients`, for any number of stores, connections, callers and databases to
start from, crashes of processes included:

| Theorem | States |
|---|---|
| `OpensDoNotCollideAlways` | `ClientsSpec => []OpensDoNotCollide` |
| `ReadyMeansInstalledAlways` | `ClientsSpec => []ReadyMeansInstalled` |
| `RefusedIsUntouchedAlways` | `ClientsSpec => RefusedIsUntouched` |
| `ConnectionsArePrivateAlways` | `ClientsSpec => []ConnectionsArePrivate` |
| `TablesConsistentForClients` | `Fresh /\ ClientsSpec => []TablesConsistent` |

Assumptions: `None` is no store and no connection, a found database has tables of the schema
only, each connection is in the pool of one store. `OpeningInv` joins `LockHeld` (an open
bootstrap transaction has the advisory lock) and `LooksAreFresh` (what the holder found
missing still is: that is what the lock is for, and why IF NOT EXISTS cannot fail). In
`CallersInv` a caller holds a connection of its own pool that nobody else holds
(`HoldsOneOfItsPool`), a connection at rest has no transaction, one at work has its caller.
The last theorem takes `PgInv` over: a step of the clients is a step of PgStore, a
stutter, or `Close`, which aborts several transactions at once.

### GreedyPagerProofs, GreedyPagerEdgesProofs

For every request, budget, policy, set of blocks and rank, and
whatever others do to the store during the call:

| Theorem | States |
|---|---|
| `CandidatesOnceAlways` | `Spec => []CandidatesOnce` |
| `CompressedIsCoveredAlways` | `Spec => []CompressedIsCovered` |
| `BudgetsKeptAlways` | `Spec => []BudgetsKept` |
| `EstimateKeptAlways` | `Spec => []EstimateKept` |
| `DependenciesInReachAlways` | `Spec => []DependenciesInReach` |
| `LeftOutOnlyForRoomAlways` | `Spec => []LeftOutOnlyForRoom` |
| `EdgesReconciledAlways` | `Spec => []EdgesReconciled` |

Assumptions are those of `GreedyPager` on blocks, ranks, kinds, the initial store and
requests. The first two follow from `Sound`, over all phases: `Undecided` (a candidate is
not in the plan before its turn, unless as a summary: without it `TakeCandidate` could take
a block twice), `Accounted` (every loaded candidate is pending, selected or omitted),
`Covered` (a block omitted as compressed has its summary among the substituted ones),
`Expanded` (what is selected has been visited, so that expansion pulls nothing twice) and
`Rebuilding` (of the selections already passed, each is kept or omitted for its edge).

`BudgetsKept` is not more than it says: a plan of required blocks alone may exceed the input
budget with the task, the budget of a section is kept only without summary fallback, and
required blocks and pulled dependencies are charged to no section. `EstimateKept`: the
estimate is never below what the finished plan holds, and equal to it if nobody else wrote
during the call; a block that is deleted before it is dropped stays in it.

The budgets need what the counters of the call stand for (`CostInv`, which adds `Costed`).
`Spent`: `total` covers the tokens of the task and the selections. `Capped`: once anything
but required blocks is in, `total` is within the budget. `VariableSpent`: what was ranked
has come out of the variable budget. `SectionsSpent`: without summaries, a section is
charged only in its turn (a substituted summary is charged to the section being filled and
may belong to another; this is why `BudgetsKept` has that premise). `Estimates`: while the
plan is rebuilt, the estimate covers what is kept so far and what is still to come. The sums
run over sequences; `RecursionTheorems` gives the induction for the lemmas on appending and
on disjoint sets of positions.

`EdgesInv` adds, for a call during which nobody else writes, `Traversed` and `Reconciling`.
Expansion is breadth first and marks a block as visited before it knows whether it fits.
`Traversed` says that some function of levels explains `visited`: each visited block is
reached from a selected one by that many edges followed (`Levels`), the frontier is in the
order of levels and spans at most two (`Queued`), and all that a selected
block above the last level leads to has been visited, and got the next level at the latest,
unless the block or what it leads to still has its turn (`Explored`).
Order is what matters: with a stack instead of a queue a block reached first by a long path
would not be expanded again by a shorter one, and `LeftOutOnlyForRoom` would fail.
`Tried` says why a visited block may be missing. `Reconciling` says that edges already read
are settled: one end is to be dropped or a note is to be put on the other, by what the
policy says of that kind (`Settled`), that notes and drops name edges there are
(`NotesHold`), and that rebuilding keeps what has no drop (`Kept`, `Agreed`).

### PackCommandProofs

| Theorem | States |
|---|---|
| `TraceOfWholeCommandAlways` | `CSpec => []TraceOfWholeCommand` |
| `PatchKeepsCallAlways` | `CSpec => PatchKeepsCall` |
| `HoldsThePlanAlways` | `CSpec => []HoldsThePlan` |
| `NotedBlocksWarnAlways` | `CSpec => []NotedBlocksWarn` |
| `CachedPrefixKeptAlways` | `CSpec => []CachedPrefixKept` |

for every set of plans, options and requests, any number of agents, and blocks that come and
go. `PlansAssumption`: a plan is a sequence of ids. `PackInv` joins `CommandSound` (which
plan, task and packing a running command has got to), `CallSound` (of the plan's ids, some
are fetched and the rest are still to do; once packed, the text is the prompt of the call's
input), `TracesSound` (a record's tokens are what its prompt costs; its output is the one
counted) and `PatchesSound` (the copy an agent holds is that call's record, patches apart).
What a prompt looks like is not opened for the first two: the second packing of
`pack --chat` gives the messages of the traced plan because equal inputs give equal prompts.
`PatchKeepsCall` needs `PatchesSound`: an agent that writes back an old copy can lose
another agent's patch, and nothing else.

The other three are about the rendering. `PromptsRendered` is the invariant they need besides
`PackInv`: no call is under way but in the packing of a command; a packed chat call has the
messages and boundary of its input; so has the last chat prompt, with all of its plan fetched
and the packer's options. The rest is about one input:

* `InSection` lists the fetched blocks of its section, each as often as it was fetched
  (`BodiesCounted`) and in order (`BodiesOrdered`), since ranks are one to one.
* `Shown` relates a text to the list of blocks it shows: the bodies stand at increasing
  places, and each noted block has its note right before it. It holds for each piece and is
  kept when two are joined; induction over the partial joins carries it through `FlattenSeq`
  to sections and prompts. The contents of a chat prompt's messages, joined, are such a text.
* Two inputs whose plans agree on the stable blocks and their notes give equal stable
  messages (`SideAlike`). These come first, so the boundary counts them all and no more
  (`StablePrefix`), and two such prompts agree up to it.

### SessionCallsProofs

| Theorem | States |
|---|---|
| `VectorsAreTheirBlocksAlways` | `Spec => []VectorsAreTheirBlocks` |
| `OtherSessionOnlyByRaceAlways` | `Spec => []OtherSessionOnlyByRace` |
| `InvalidationCountsAlways` | `Spec => []InvalidationCounts` |
| `LinearFindsAllAlways` | `Spec => []LinearFindsAll` |
| `ParentsWereReadAlways` | `Spec => []ParentsWereRead` |

for any number of threads, sessions, texts and calls. Assumptions: the retrieval limit is
positive, similarities are naturals, the initial store is finite with ids 1 to n,
summarizers are the three of the code. `CallsInv` joins `OneText`, `SettledHolds` (a settled
block is stored, in its session, and readable), `IndexHolds` (of the blocks still stored,
the index has its session's only; it has all of the settled ones), and `TaskHolds`, which
says for each thread how far its call has got: `HnswHolds`, `LinearHolds`, `SummaryHolds`.
`OneText` is the heart: over everything that is said anywhere (the store, the index, the
linear retriever's cache, the batches and vectors of the calls under way) an id goes with
one text. As ids are not used twice, it survives deletes and lost races; a vector stored
under the id of another text would break it. `LinearFindsAll` counts: in a finite set with a
strict order, as many elements have a rank below k as there are such ranks (`LowestRanks` of
`RecursionTheorems`), so that a block left out has `Limit` better ones.

### ComponentsProofs

Of `PyStore`, for any number of threads and retriever objects, with `Nobody`
neither of them as the only assumption:

| Theorem | States |
|---|---|
| `OnlyFinalizersBlockHolds` | `PySpec => []OnlyFinalizersBlock` |
| `FinalizedWhenUnusedHolds` | `PySpec => []FinalizedWhenUnused` |
| `ClosedMeansReleasedHolds` | `PySpec => ClosedMeansReleased` |

All follow from `PyStoreInvariant`: `PyInv` joins the types, `CallsWellFormed` (only a page
holds clones, only an add an argument), `WriterFinalizes` (the list stays locked only in a
finalizer), `CloseIsAlone`, `ClosedIsQuiet` (no page runs on a closed store) and
`FinalizedExact`. `ClosedIsQuiet` needs `CloseIsAlone`, since close must meet no page;
`FinalizedExact` needs `CallsWellFormed`, which says whose references a step may drop.
Two lemmas carry most actions: a step that moves one thread on and lets no reference go
(`CallMovesOn`), and what a thread's step leaves of the other threads' references.

Of `CommandLine` it proves `DestroysOnlyAsToldAlways`, `CliSpec => DestroysOnlyAsTold`, for
any stores and config files. It assumes that paths are no URLs and that a [store] section
of backend "pg" has a URL, one of the other backend a path. `CliInv` keeps `OpenedAsChosen`:
what a running command works on is what `open_backend` made of its flags and file.

Of `Reductions`, `CommittedOnceAlways`, `AgentSpec => []CommittedOnce`, for every set of
envelopes and reducers, any number of turns, and any number of replays of the last one.
`AgentInv` joins `Committing` (how much of the turn is in the store: a prefix of its blocks,
and edges only when all are), `HeldOK` (each body is held under one id, made no later than now)
and `LinksOK` (edges come from outputs made no later than now; those of this turn are among the
ones a replay would write). It assumes that an envelope has finitely many events, and the three
reducers of the code. It does not say that every output gets its edge: a repeated output does
not (finding 5).

Of `PromptDiff`, `DiffIsExactAlways`, `DiffSpec => []DiffIsExact`, for any blocks and reasons and
all plans of selections of any length, with blocks selected again, or none. `DiffInv` is that
what is shown is `DiffPlans(prev, next)`. `InsertedIsLast` is the induction over the selections
as `ReasonsById` inserts them: the map holds the blocks seen so far, each with its last reason.
`ReasonsFacts` follows for the whole map, and the diff from that of both plans.

Of `ModelRegistry`, `ResolvesAsDocumentedAlways`, `RegistrySpec => []ResolvesAsDocumented`, for
any built-in profiles, any file and any number of its profiles. `RegistryInv` is
`LatestByName`: the index leads each registered name to its last profile. `FamilyMatchFinds` is
the induction over the one pass of `family_match`: what it has found so far beats every
earlier family that is a prefix, by length and then by position. Families are
sequences (`ProfilesAssumption`).

Of `Retrievers`, `RankedAsEarnedAlways`, `RetrieversSpec => []RankedAsEarned`, for any texts,
stamps, tasks, limits and deletions meanwhile, in sessions of any finite size. `LnAssumption` is
that the logarithm grows strictly over the numbers such a session leads to. `RetrievalInv` is
short: texts read are texts of the session that have a word the retriever looks at, and
`RankedAsEarned` itself; the proof is in the arithmetic.
`CutKeepsTheBest` is about sorting and cutting: the sorted candidates are the candidates by
rank, so what stands behind the limit scores no more. `AgesAreOrdered`: linear and halved
scores grow with the stamp, rounding included. `IdfIsPositive`: n documents, of which at most n
have the word, leave a positive difference of logarithms; the unsmoothed idf would be negative.
`Bm25TermGrows`: a term is then at least 1, in n-ths of that unit, whatever the length of the
text, and grows with the count of its word and falls with the length. `SumGrows` carries that
to the score, by induction over the set that a library sum runs through.

### RecursionTheorems

The library's induction theorems take an operator as parameter, which the installed provers
do not instantiate. Well-founded induction can be had for a *set* instead: `RecursionTheorems`
derives from it induction over the naturals for a set of numbers, and that the recursive
functions the models are written with satisfy their defining equation. All lemmas above on
sums and recursive lists, and on highest ids, rest on it. It also has what the proofs say of
order: the rank of an element of a finite ordered set is the number of elements before it;
ranks grow with the order, run from 0 without a gap, and k elements have a rank below k
(`RankGrows`, `RanksAreAll`, `LowestRanks`); a one-to-one map onto a set keeps size (`SameSize`).

### Model-checked only

* Liveness: `NobodyWaitsForever`, `Terminates`. The prover does neither fairness nor ENABLED.
* The findings of section 3, which are counterexamples.

## 5. Not modelled

* Tokenizers: encoders are third-party, a count is a constant of the models; the LRU of
  `CachingTokenizer` is used nowhere in the repository. The benchmark keeps no state.
* OpenAI and Anthropic clients: HTTP. The models let them fail or answer in full; an answer
  with fewer vectors than texts is not modelled.
* The approximation of the HNSW graph search, which is a library's.
* The text of TOML files, of CLI output and of prompts: only which piece stands where.
* Pools of size 0: r2d2 panics and deadpool waits forever.
* A retriever or finalizer that calls the same Store again on its own thread.
* The disk cache shared by embedders of one name, and serialisation of the core types.
* A put of an id that is stored with other content: ids are random or derived from content.

## 6. Plan

Stores, pager, packer, retrievers, command line, bindings, reducers and diff are modelled,
and every safety and action property of a passing run is a theorem. What could be
added are properties for the two hazards that have none: `verify` does not walk the hash index,
and after `repair` a content may have two blocks, of which deleting one drops the entry of both.
The code promises nothing of either.
