# A verification development for llm-agent-rag

`llm-agent-rag` is a Go library for retrieval augmented generation. It imports
documents into a store as chunks and as a graph of entities and relations,
detects communities over that graph, answers questions by retrieval, by
map-reduce over community reports or by following the graph, and evaluates
answers in benchmarks. It has no server of its own: its operations are called
from the goroutines of an application, and *the* hard question about it is what
these operations do to each other's state when they interleave, fail halfway or
are cancelled. This directory holds TLA+ models of that state, TLC
configurations that check them on small instances, and TLAPS proofs of the
results that should hold for every instance.

Paths in this file are relative to `src/`.

## Inventory

| component | state it keeps | operations | who calls it, what it calls |
|---|---|---|---|
| Import pipeline (`rag/import.go`) | none between calls; in a call the batch, the pending chunks, `staleGraphChunkIDs`, the raw graph, a snapshot | `Import` | application, llm-agent tool; calls splitter, embedder, extractor, resolver, detector, and up to seven kinds of store calls |
| In-memory store (`store/inmemory.go`, `store/graph.go`, `store/community.go`) | chunks by ID; per namespace a graph, a community set, reports; one mutex | `Upsert`, `List`, `Get`, `Search`, `Remove`, `RemoveByFilter`, `UpsertGraph`, `RemoveGraphBySource`, `Neighborhood`, `GraphSnapshot`, `UpsertCommunities`, `Communities`, `CommunityReport`, `PutCommunityReport` | everything else; each operation is atomic, sequences of them are not |
| PostgreSQL store (`postgres/`) | the same in tables | the same; some operations in one transaction, some in several statements | as above |
| Graph data (`graph/canonicalize.go`, `resolve.go`, `extract.go`, `dictionary.go`) | none between calls; in `Resolve` a forest of clusters | `Canonicalize`, `Resolve`, extract | Import |
| Paths (`graph/path.go`) | per call: the entities on the way | `RankPaths` | the graph retriever |
| Community detection (`graph/community.go`, `louvain.go`) | none | `Detect`, `CommunityContentHash` | Import; reports compare its hashes |
| Community reports (`rag/global.go`, `graph/summary.go`) | the report cache in the store | `AskGlobal`, `PrewarmCommunityReports` | application; read what imports write, pay a model for misses |
| Ask, reflection, grading, active retrieval (`rag/ask.go`, `reflection.go`, `grader.go`, `active_retrieval.go`, `query_planner.go`) | per call: rounds, follow-up budgets, adaptive budget | `Ask` | application, benchmark; calls retrieval and the model, follow-ups through the pool |
| Token budget (`rag/instrument.go`, `obs/obs.go`) | a usage accumulator shared by the goroutines of one question | check after every model call | Ask, AskGlobal, AskDrift |
| DRIFT (`rag/drift.go`) | per call: visited entities, frontier | `AskDrift` | application |
| Retrieval (`retrieve/`, `tree/`) | per call: a slot per signal, merged hits, route candidates | dense, lexical, structure, graph, hybrid, variants, multi-hop | Ask; reads the store in several calls, four of them from goroutines of its own |
| Splitters (`ingest/splitter.go`) | per call: the section path, the window | `Split` | Import |
| Rerankers, compressors, packer (`rerank/`, `compress/`, `pack/`) | per call: the tokens used so far | `Rerank`, `Compress`, `Pack` | a round of Ask |
| Fan-out pool (`internal/fanout`) | semaphore, wait group, results, two contexts | `Run` | benchmark, active retrieval, AskGlobal |
| Answer benchmark (`eval/benchmark.go`) | results, `firstErr` | `Run` | application; the pool, an asker, a judge |
| Retry (`eval/retry.go`) | the loop's attempt and delay | `retryLoop` around an asker or a judge | benchmark |
| Verdict caches (`eval/judge_cache.go`, `rag/grader_cache.go`) | a map and a recency list behind a mutex | `Get`, `Put` | caching judge, caching grader |
| Corrective asker, conversation, feedback, llm-agent tool | a loop; nothing; a writer and a mutex; a counter | | application |
| Guards, prompts, embedders, metrics, serialization, wiring | none | pure functions and formats | throughout |

What is hard in it:

* **Import is a sequence of atomic calls without a transaction.** Imports of
  different and of the same source interleave; any call may fail; the process may
  stop. Reconciliation depends on a list taken before a removal.
* **Three representations of one source must agree**: chunks, graph provenance
  and weights, communities; and a fourth, the report cache, is keyed by an ID
  that survives a change of what it identifies.
* **Report callers read, pay and write in separate calls** while imports run.
* **The pool** combines a semaphore, a wait group, two contexts, fail-fast and
  recovered panics; the benchmark adds an error gate and a cache that workers
  share, and a retry loop that ends in four ways.
* **Ask** is a bounded loop with four ways out and two budgets.
* **The hybrid retriever** runs its signals on goroutines that recover nothing,
  each of which lists the chunks and infers the route for itself, over a store
  that changes between their calls; the fused lists come from maps and have ties.
* **The PostgreSQL store** repeats the in-memory store's operations as statements
  under READ COMMITTED, each with a snapshot of its own and row locks.
* **The algorithms** (Louvain, splitting, packing) end, or lose nothing, because of
  comparisons at the boundary of an integer: ties of gains, windows shorter than
  their overlap, room for a marker; others (the entity resolver, the path ranker)
  because a forest or a set of marks is kept right over many steps.

What makes each component correct:

* *Import and store*: no relation without its endpoints; a source replaced by
  complete, non-overlapping imports has exactly the graph of its chunks whatever
  other imports do; nothing of a foreign source is touched; weights cover
  evidence; communities belong to the graph.
* *Reports*: a caller is answered about the membership it read; a stored report
  says what its hash vouches for; what was paid for and stored is not paid for again while
  the community stays the same; a prewarmed report stays usable.
* *PostgreSQL store*: what concurrent transactions commit is what the in-memory
  store could have been left with, save that a removal may miss what was written
  while it ran; no committed relation dangles; readers may see a newer relation
  without its entities, never an older one; no lock outlives its call.
* *Retrieval*: the fused answer waited for every signal and has its hits, or the
  error is the first signal's; a chunk that every signal ranks above another comes
  above it; hits come from the routes that were to be searched; a chunk found
  twice has its best score; a retrieval returns unless it crashes.
* *Detection*: the levels are nested partitions with parents; Louvain never makes
  the partition worse; the sweeps end before their cap.
* *Splitting and packing*: no text is lost, a section's breadcrumb is its ancestors,
  and what a prompt reports as used, packed, cut and dropped adds up.
* *Entity resolver and path ranker*: a chain of near-duplicates gets one name, whatever
  the order, and a relation is canonicalized to end at what its entities have become;
  the paths between two seeds are all found, once.
* *Pool*: bounded concurrency; every task settles once; a skip has a reason; the
  caller gets its own context's error and no other; `Run` returns.
* *Benchmark, retry, caches*: success means every example was scored, an error
  means no example is started after it, a verdict is one the judge gave for that
  query and answer, a retryable error is given up on only when attempts are spent.
* *Answer paths*: rounds are those the decisions called for, evidence judged
  poor is retried once, follow-ups and tokens are within their budgets, the
  adopted round is the best one, DRIFT never starts twice from an entity, what is
  reported as consulted was, and a question always ends.

## Modules

| module | models | depends on |
|---|---|---|
| `GraphStore` | the graph operators: `Canonicalize`, `UpsertGraph`, `RemoveGraphBySource` | |
| `Ingest` | `System.Import` and `System.Remove` by concurrent callers over chunks, graph and communities | `GraphStore` |
| `CommunityReports` | `AskGlobal`'s and `PrewarmCommunityReports`' report cache, beside the imports | `Ingest` |
| `Scatter` | what `fanout.Run` promises, abstractly | |
| `Fanout` | `fanout.Run` by goroutine, semaphore and context; implements `Scatter` | `Scatter` |
| `LruCache` | the operations of both verdict caches | |
| `Benchmark` | the benchmark, sequential or parallel, with retry and caching judge, on the pool as `Scatter` describes it | `LruCache`, `Scatter` |
| `Answering` | what the answer paths share: the request, the outcome, the token budget charged by every counted call | |
| `Ask` | `System.Ask`: retrieval, active retrieval, generation, decision, grading, adoption | `Answering` |
| `GlobalSearch` | the map-reduce of `AskGlobal` and the primer of `AskDrift` | `Answering` |
| `Drift` | `System.AskDrift` after its primer | `GlobalSearch` |
| `Answers` | a question by any path, and what the paths promise | `Ask`, `Drift` |
| `StoreContract` | what the writing calls of a store promise to concurrent callers, abstractly | `GraphStore` |
| `PostgresStore` | the PostgreSQL store's calls as transactions of statements that visit rows; implements `StoreContract` | `GraphStore`, `StoreContract` |
| `Retrieval` | a retrieval by signals, routes and queries, beside a store that changes | |
| `Detection` | label propagation and Louvain, one entity per step | |
| `Splitting` | the character and the Markdown splitter, one line or window per step | |
| `Packing` | from hits to cited hits: rerank, compress, pack, scan | `Sorting` |
| `Resolution` | the embedding entity resolver, one name or pair of entities per step | `Sorting` |
| `Paths` | the path ranker, one edge per step | `Sorting` |
| `Sorting` | the list of a finite set's elements in an order | |
| `Computations` | one of the five computations that nothing else takes part in | `Detection`, `Splitting`, `Packing`, `Resolution`, `Paths` |
| `MCIngest`, `MCReports`, `MCBenchmark`, `MCAnswers`, `MCPostgres`, `MCRetrieval`, `MCComputations` | instances for TLC | |
| `IngestProofs`, `ReportsProofs`, `FanoutProofs`, `BenchmarkProofs`, `AnswersProofs`, `PostgresProofs`, `RetrievalProofs`, `ComputationsProofs` | theorems | the module each is about |

### How the models correspond to the code

**`GraphStore`**. An element is an entity or a relation with fixed `Ends`. A
graph gives each element its `prov` (`SourceChunkIDs`) and each relation its
`weight`; an element is present when its provenance is not empty, which is what
the store's maps come to, since an element whose last source goes is deleted.
Names, types, descriptions and metadata are left out: no property of an import tells
them apart. Name normalization and the fuzzy resolver make several surface forms one
entity; `Entity` is the set of entities after that. Which entity the name at the end of
a relation stands for is the matter of `Resolution`.

**`Ingest`**. One action per store call: `ListStale`, `RemoveByFilter`,
`UpsertChunks`, `Reconcile` (`RemoveGraphBySource`), `MergeGraph`
(`Canonicalize` and `UpsertGraph`), `TakeSnapshot`, `PutCommunities`. `Start`
takes a batch, `Fail` is an error of any call or a crash between two,
`UpsertPrefix` is the in-memory bulk upsert that meets a bad vector halfway,
`RemoveChunk` is `System.Remove`. `pc[i]` is where an importer is, `local[i]` its
local variables under their own names. A community set is represented by the
snapshot it was detected from, because `Detect` is a function of it. The
variables `imports`, `lone`, `redetected`, `tainted` and `reimported` observe and
guard nothing, save that `imports` bounds the runs.

**`CommunityReports`** adds callers: `Begin` reads and selects communities,
`Hit` and `Miss` look a report up, `LoadSnapshot` is the lazy snapshot,
`Summarize` the generation, `PutReport` the store, `Break` an error anywhere. A
content hash is represented by the membership it digests, and a report's text by
the members the prompt could name. The walk takes communities in any order,
which includes the code's. The detector is a constant operator. The variables `warmed`,
`paid`, `disturbed` and `suspect` observe: `paid` holds the communities for which a
report was generated and put since they were last detected differently.

**`Fanout`**. `Spawn`, `Wait`, `Return` are `Run`; the other actions are
the blocks of `runOne`, deferred calls included and in the order Go runs them
(`CancelSiblings`, then `Release`, then `Leave`). `runDone` is the derived
context, `outerDone` the caller's; the derived one ends some time after the other
(`Propagate`). `Waiters` are tasks that return only when their context is done.

**`Benchmark`**. Whether the run is `parallel` and whether it is `judging` is chosen
at the start. `RunNext` and `ReturnAll` are the sequential loop, which returns on the
first error and lets a panic through; examples then go through the same steps
without the pool. Workers of the pool go through `Gate`, the retry loop around
the asker (`EnterLoop`, `Answered`, `Failed`, `Wake`, `Interrupted`), the cache
(`Lookup`, `Store`), the retry loop around the judge, then `Report` (the
progress callback) and `Record` (the first error). The wrapping is the one the
package's docs describe: a retrying asker, and a caching judge around a retrying
judge. `LruCache` keeps the recency list as a sequence and the map as a function.

**`Answering`, `Ask`, `GlobalSearch`, `Drift`, `Answers`**. One behaviour is
one call of `Ask`, `AskGlobal` or `AskDrift`; the request, constant in it, holds
the options that steer it. `pc` is where the call is, `used` the total of the
usage accumulator, `outcome` what is returned. `Replies` is `countingModel`: the
usage of a call that succeeds is appended, then the total compared.

`Ask` goes through its rounds as the code does. `Retrieve` is one retrieval with
its query expansion; `PreGrade` and `Plan` are the trigger and the planner,
`StartFollowup` and `EndFollowup` the two halves of a follow-up on the pool
(between the append and the comparison of its call other follow-ups may append),
`Union` the merge and the charge to both counters; `Draft` packs and generates;
`DecideByRule`, `StopForUnchangedEvidence`, `DecideByModel` and `DecisionFails` are
the decision; `GradeHit` is `gradeRound`; `NextRound` and `Finish` the two ends of
a round. A sequential dispatch is one worker. `rounds` is the list of recorded
rounds, `extra` `adaptiveBudget`, `remaining` and `spent` the follow-up counters.
Hits are sets cut at `TopK`; a grade is one of three classes, because the code
compares grades with the floor of active retrieval and the threshold of the
adaptive round only, and the neutral 0.5 lies between them; the weights of the best
score are equal.

`GlobalSearch` starts with the reports in hand: `SelectReports` and `ReportsFail`
stand for what `CommunityReports` models, which charges nothing, since the
summarizer's model is not a counting one. `MapReport` and `MapFails` are one map
call, `Reduce` the end of `AskGlobal`. `Drift` goes on with `Seed`, one `Explore`
and one `Lookup` per round, and `Synthesize`.

**`StoreContract` and `PostgresStore`**. The contract is the in-memory store seen
by callers that may overlap: a call is pending, and then at one moment is applied
as a whole or refused. Its one latitude is `late`: a call that takes something away
may miss what another call wrote while it was pending. The in-memory store, which
does each call under its lock, uses none of it.

`PostgresStore` is `postgres/*.go` by transactions: `Begin`, then per statement of
`Statements(c)` one `Execute`, which fixes the rows a scanning statement will visit,
and one `Visit` per row, which waits for the row's lock, acts on its latest version
and locks it; then `Commit`. `db` is what is committed, `mine[p]` the rows that p's
transaction wrote, `visiting[p]` the rows its statement has left. `Fail` is an error, a
crash or a lost connection; `KeyViolated` the INSERT of `UpsertCommunities` on a row
that another transaction committed; `DeadlockBroken` the server's choice of a victim.
`Execute`, `Visit` and the locks model PostgreSQL under READ COMMITTED, which is
external; the order of the rows is left open, as it is in the server for scans, and
for upserts covers any order of the input. The two reads are statements without a
transaction around them, which under READ COMMITTED is the same. A chunk is a row
with its namespace and source, a community a row that names the set it was stored
with, so that a mixed set shows.

**`Retrieval`**. `Launch` starts the goroutines of the hybrid retriever, each of which
has a record in `slot`: `Route` and `RouteUnlisted` are `withAutoRoute` (an error of its
listing is swallowed), `Search` a signal's call of the store and its scoring, `Link`,
`Fetch` and `RankByHops` the graph signal's three kinds of calls, `SignalFails` and
`Panic` their errors. `Join` waits for all and fuses; `TakeSingle`, `TakeProbe` and
`TakeRoute` are what `retrieveWithRoutePolicy` does with the result; `EndQuery` is the
merge of variants or hops, which is the same rule. Texts are given by what the
retrievers compute from them: the tokens of a query in a heading (`Matches`) or chunk
(`Terms`), and its `Similarity`. Scores are exact: integers in a unit named beside
them, and fractions after fusion: `Unit` is a common multiple of the denominators
`RRFConstant + rank`, so that a share of a fused score is a whole number of them. Lists that the code collects from a map and sorts by
score may come in any order where scores are equal; lexical scores, which depend on
the whole corpus, may rank the matching chunks in any order. There is one document;
a proposal keeps three candidates, the default of `AutoRouteMaxCandidates`.

**`Detection`**. IDs are numbers in their order, weights naturals and the resolution
a fraction, so that gains are compared exactly, as the code compares floating point
numbers for equality. `Visit` is one entity of a sweep, `Emit` the end of a level with
`communitiesFromLabels` and `coarsen`; `Linked` is `assignParents`. A self-loop of a
coarsened node is its diagonal entry.

**`Splitting`**. A character is a space, a newline or another one; bytes and
characters are the same. `ReadLine`, `EndLines` and `Window` are the loops of
`MarkdownSplitter.Split` and `splitText`. A chunk is a span of its section, so that
what is lost can be told. **`Packing`** has one action per hit packed or scanned; a
text is its number of words, `Count` is `SimpleCounter` on words.

**`Resolution`**. A name is a number, in lexical order, with a length; which names the
embeddings make alike is part of the input, so that `Threshold` and the cosine have no
place of their own. `EmbedName`, `ComparePair` and `RewriteNames` are the loops of
`Resolve`; `Union` and `Halved` work on `parent` as `union` and `find` do, and what
`find` does to it after the last pair, which nothing reads, is left out. `NodeOf`,
`Bearers` and `Lookup` are what `Canonicalize` does with the names: entities of a type
are one node if their names have one normal form (`NormalName`), and an endpoint goes to
the node that bears its normal form, of several types the highest. Types are numbers in
the order of the IDs they begin.
**`Paths`**. A call of the recursive `enumPaths` is an element of `stack`, with the path
so far and the edges it has left; `FollowEdge` is one turn of its loop, `Backtrack` its
return. Scores are exact for the default decay.
**`Computations`** runs one of the five; they share nothing.

## Runs

Every passing run's properties have a mutant: an operator beside the one it
mutates, such as a plausible slip would make it, under which TLC finds the
property violated. The mutants are named and explained next to their originals.

| run | question | bounds |
|---|---|---|
| `ingest_concurrent` | Do two overlapping importers of different or equal sources keep the graph whole and their sources apart? | 2 importers, 3 imports, any failure; 2 sources of one document, 3 chunk IDs |
| `ingest_shared` | The same when a batch has two documents of one source, imports are plain or replacing, chunks are removed, and the extractor does not name endpoints where it states relations | 2 importers, 2 imports |
| `reports_serial` | Does one caller beside an importer pay once, keep prewarmed reports usable, and return? | 3 calls, 2 imports, two community levels |
| `reports_concurrent` | Are two callers answered about what they read? | 2 callers, 3 calls, 2 imports |
| `fanout` | Does the pool keep its promise when tasks fail and panic, the caller cancels, and under fail-fast one failure must free queued, spawning and waiting tasks? | 4 tasks, 2 slots, one task that waits for its context |
| `benchmark` | Is a benchmark's answer complete or an error, its verdicts genuine, its cache LRU, its error gate shut? | 3 examples, one after the other or by 2 workers, judged or not; 2 answers, cache of 2, 2 attempts |
| `answers` | Do the answer paths keep their budgets, rounds, adoption and visited sets whatever the model, grader and planner reply and whichever call fails, and do they end? | 42 requests; 3 rounds, 2 hits, 2 follow-ups a round and 3 a question, 1 or 2 workers, 2 communities, 4 entities, budgets of 0, 1, 3 and 6 calls |
| `retrieval` | Does an answer hear every signal, rank and merge as it should and stay on its routes, while chunks go and come and signals fail? | 5 requests over 3 chunks in 3 sections (two nested), 1 or 2 queries, 4 signals, 1 change |
| `postgres` | Do interleaved, failing and deadlocking transactions keep the contract of the in-memory store, and readers from mixing in what was removed? | 2 clients, 3 calls of 7 kinds, 2 entities and their relation, 2 chunks, 2 communities |
| `algorithms` | Do detection, splitting, packing, the entity resolver and the path ranker end, and with what they promise? | every graph of 5 entities and 4 or 5 unit relations, weighted ones of 4 and torn ones; documents of 4 lines at 5 sizes; 3 lists of hits under 192 sets of options; 4 entities in each order under each likeness, 3 of two types with names that are shared, or differ in spelling only; 1,000 multigraphs of 4 relations, 1 to 3 seeds |
| `ingest_lost_reconcile`, `answers_budget` | see *Disagreements* | |

Why these bounds are enough to be interesting. Three imports with two importers
allow an import that fails, one that overlaps it and one that repairs it. The
revisions reuse a chunk ID for other content (`c10`), drop a trailing chunk
(`c11`) and empty a document; both documents mention the relation, so removal
meets shared provenance. The reports' revisions give the graphs `{a}`,
`{a, b, ab}` and `{a, b}`: memberships under one community ID grow, split and come
back. Two slots for four tasks make tasks queue behind others and behind a
cancellation. Three examples, two of which have one query, with two possible
answers and a cache of two, share keys and evict.

In `answers` three rounds leave room for an adaptive round before the last and
for the clamp on it; a planner may plan more than either cap, and the second
planning round meets a remaining budget smaller than the cap of a round. The
budgets trip at a map call, a reduce call, a round of the local loop, a follow-up
and a draft. Four entities let a DRIFT loop of three rounds run to its bound, and
`rounds` of 10 is above it.

In `retrieval` two of the three chunks lie in nested sections and two sections tie for
one of the queries, so that routings can disagree, a fan-out covers a section and its
parent, and a chunk is found by several signals, routes and queries with different
scores. The requests cover each way a retrieval goes: one unrouted with all four
signals; probe and fan-out with and without thresholds; automatic routes of single
searches; and hops under a given path. One change during a retrieval removes a chunk
between two calls or adds the one that was missing. In `postgres` an upsert and a removal share a chunk's
elements, two upserts conflict on them in both orders, two replacements of the
communities overlap, and a third call meets what two others left; two clients can
deadlock. In `algorithms` five entities are what Louvain needs for a second level with
a choice, and the torn graphs are what a snapshot of the PostgreSQL store may give it;
the sizes of the documents put breaks before, at and behind the overlap, one of them
with an overlap above the size; the budgets range from one that the question alone
exceeds to one that holds everything. Four entities in all orders make forests of
depth two, in which an element and its root differ; four relations allow two that run
in parallel to a middle entity, which a mark left behind would lose.

Deadlock is checked for `fanout` and `benchmark`, whose only terminal states are those
after the return. The other systems stop when their bound of imports or calls is
spent, and an answer, a retrieval or a computation when it has returned.

### Fairness

* `FairCallsSpec`: weak fairness of each caller's walk. A caller waits for nobody;
  its goroutine is scheduled and its calls answer. No fairness of imports is
  assumed, nor of failures.
* `Fanout!FairSpec` and `Benchmark!FairSpec`: weak fairness of the goroutines, the
  caller of `Run` and, in `Fanout`, the propagation from the outer context to the
  derived one. Semaphore slots need no strong fairness: a slot is released once
  per holder and each waiter takes at most one. A task that ignores its context
  and never returns is outside what `Run` promises and is not modelled as fair
  behaviour; cancellation by the caller is never assumed.

* `PostgresStore!FairSpec`: weak fairness of each client's transaction: the client sends
  its next statement when one returns, and the server runs what waits for nothing and
  breaks deadlocks. Failures are not assumed, and a lock need not be granted in turn:
  with a bounded number of calls nobody can be overtaken for ever.
* `Retrieval!FairSpec`: weak fairness of the retrieval as a whole: its goroutines are
  scheduled and its calls answer. Changes of the store are not assumed.
* `Computations!FairSpec`: weak fairness of the one loop that runs.
* `Answers!FairSpec`: weak fairness of the path's next step. A path is one
  goroutine, save for follow-ups, whose pool `RunReturns` is about; its calls
  return, with a result or an error.

## Disagreements between documentation and code

Each is a run whose one property states what the documentation says; TLC finds a
behaviour of the code's model that violates it.

* `ingest_lost_reconcile` (`ReingestReconciles`). An import that fails after
  `RemoveByFilter` has deleted the chunks whose IDs `Reconcile` would need. The
  retry lists nothing, succeeds, and the graph keeps what the old chunks said.
  `docs/graphrag.md` says a `ReplaceSource` re-ingest reconciles the graph.
* `answers_budget` (`AnswersStayWithinBudget`). `AskOptions.MaxTotalTokens` is
  documented to abort an Ask after *any* successful call above it, the grader's and
  the planner's included. The errors of those calls are taken for a neutral grade
  and for no follow-ups, and under `FailOpen` that of a decision for a stop: the
  answer is returned over the budget. What does hold is in `BudgetsAreKept`: the draft
  that is returned was generated within it.

Seen on the way, without a run of their own:

* `store/graph.go:75` takes chunks out of a relation's provenance and leaves its weight,
  to which the re-import adds again (`docs/graphrag.md:55` speaks of stale contributions
  removed); `EvidenceIsWeighed` is what does hold. Community detection reads the weights.
* `docs/graphrag.md:193` says that every re-ingest re-detects the whole namespace and
  replaces the stored set; of two overlapping imports that both succeed, the one with
  the older snapshot may store its communities last (`rag/import.go:202`).
  `LoneImportRedetects` is what does hold.
* Two overlapping `UpsertCommunities` on PostgreSQL (`postgres/community.go:54`) may leave
  a mixture of both sets, since the second DELETE does not see what the first
  transaction has yet to commit. This is the latitude of `StoreContract`.
* `retrieve/retrieve.go:1228` takes an error of its listing for no candidates: the
  retrieval then searches without a route.
* `pack/pack.go:155` does not count the title of a hit it cuts, and rounding adds up to
  two tokens, so that the context may exceed its budget by as much; the marker is
  appended also where all of the content fits. A hit that the scanner drops
  (`rag/inject.go:21`) is in none of the reported lists of packed and dropped hits.
* `ingest/splitter.go:34` speaks of chunks no larger than `maxChars`; they may be a fifth
  larger (`:114`), and sizes are in bytes. Where the overlap is not less than what a
  window advances, windows creep by one character.
* A heading that skips a level is nested into what came before it, so that two
  siblings below a skipped level nest into each other (`ingest/splitter.go:248`).
* Louvain's top level, when it merges nothing, repeats the one below it.
* The rewrite map of `graph/resolve.go` is keyed by the name alone (`:176`): where two
  types share a name, the last in order decides for both, which is not the rewriting
  "per-type consistently" of the comment (`:174`). Of the organizations "Acme" and
  "Acme Corp" the first keeps its name if a person "Acme" comes after it, and takes the
  person along to "Acme Corp" if it comes before. `ChainsShareAName` says what does hold.
* The endpoints are rewritten by exact spelling (`graph/resolve.go:188`), but
  `Canonicalize` finds them by `NormalizeName` (`graph/canonicalize.go:64`). A relation
  to "acme" ended at the entity "Acme" before; if that is renamed to "Acme Corp" and
  no entity is left of that name, the endpoint stays and its relation is dropped. This is
  the orphaned relation that a resolver "MUST" prevent (`:24`), and the comment on the
  type says that "every relation endpoint that named a member" is rewritten (`:48`).
* Where two types share a name, a rewritten endpoint may end at another entity than
  before. Let "Acme" be the name of a fruit only, and "Acme Corp" that of a fruit like it
  and of an organization. A relation to "Acme" ended at the fruit; it is rewritten to
  "Acme Corp", of whose two nodes `Canonicalize` takes the one with the highest ID
  (`graph/canonicalize.go:53`), the organization. `EndpointsFollow` therefore says which
  node is found only if no two types share a name.

Older comments that the code has left behind: `rag/options.go:178` still says that AskGlobal and
AskDrift ignore the budget, which they enforce; `rag/ask.go:76` says that grades of
active retrieval are reused, but `preGradedRelevance` is never read and the seeds
are graded twice; `rag/global.go:66` and `rag/drift.go:81` say that lazy
summarization is counted, but the summarizer's model is not wrapped, so that the
partial diagnostics `rag/global.go:110` prepares for a budget trip in that stage
are used only if a custom summarizer returns that error itself; `eval/retry.go:136` says that `OnRetry` fires only when there will
be another attempt, but the context may end during the sleep that follows.

## Proofs

All are checked by `tlapm`, for every value of the constants that satisfies the named
assumptions of the modules: `GraphAssumption`, `IngestAssumption`, `CallsAssumption`,
`FanoutAssumption`, `CacheAssumption`, `BenchmarkAssumption`, `CostsAssumption`,
`RequestsAssumption`, `AskAssumption`, `GlobalAssumption`, `DriftAssumption`,
`PostgresAssumption`, `RetrievalAssumption`, `RouteScoreAssumption`, `DetectAssumption`,
`SplitAssumption`, `PackAssumption`, `ResolveAssumption` and `PathAssumption`. These only give the constants their types
and say what makes the model's names mean what they stand for: a chunk ID belongs to one
document, `NoRev`, `NoReport`, `NoCall` and `Absent` are no revision, report, call or row,
communities have distinct IDs, a row is in one table, a call of the PostgreSQL store is
well formed, the judge's keys are those of the examples and there is an answer to judge,
the default number of DRIFT rounds is within their maximum, `Unit` is a multiple of every
denominator of a rank, and the score of a section, a sum that the provers cannot unfold,
is a natural number. For the computations: IDs and names are numbers in their order, what
the code passes as a slice is a list, the lines of a document are texts over three kinds
of characters, the size of a chunk, the default budget and the number of sentences kept
are not 0, graphs and seeds are finite, weights are whole numbers, and likeness of names is
mutual, as a cosine is. Sets of documents,
chunks, clients, workers and callers and the bounds on imports and calls are arbitrary,
except that the chunk IDs are finite where cardinalities are compared.

Eight theorems have hypotheses beside these, named in their statements.

* `ClosedExtraction` (of `NoRelationDangles` in `IngestProofs`) and `CoveringCalls` (of
  `NoRelationDangles` and `ReadersErrForward` in `PostgresProofs`) say of an extractor
  that a chunk that states a relation states its endpoints. `DictionaryEntityExtractor`
  does (`graph/dictionary.go:41`), if no term begins or ends with a blank: it relates
  only terms that it found in the chunk, and terms of one normal form, which then differ
  in case only, are found together, so that `Canonicalize` ends the relation at one of
  the chunk's entities whichever of them has the highest ID. `LLMEntityExtractor` does
  not: `parseExtraction` takes a RELATION line without its ENTITY lines
  (`graph/extract.go:73`), and `Canonicalize` ends it at an entity of any chunk of the
  batch (`graph/canonicalize.go:64`) or drops it. Nor does the dictionary behind an
  entity resolver, if two types share a name. For these extractions the three theorems
  say nothing.
* `TypedDetector` and `SoundDetector` (of the theorems of `ReportsProofs`) say that
  communities list elements of the graph they were detected in, and that no two of a
  level share their lowest member. Both detectors do.
* `OneCaller` is what `LoneCallersNeverPayTwice` and `PrewarmingLasts` say of callers that
  do not overlap. Two callers that miss one report together both pay for it.

* **`IngestProofs`** begins with what each graph operator preserves: its type, that
  relations have endpoints (`CoversRelations`) and that weights cover evidence
  (`WeighsEvidence`). Then `TypeInvariant`. `NoRelationDangles` needs
  `ClosedExtraction`, the guarantee of the dictionary extractor that a relation
  comes with its endpoints: entity and relation then lose the same chunks. Without
  that guarantee the invariant is false after a removal, and what remains is
  `MergesAddWholeRelations`, an action property. `WeightsCoverEvidence` needs no
  such assumption. `LocalsOwnedInvariant`, that what an import holds belongs to
  the sources of its batch, makes `ForeignSourcesStayUntouched` provable: the
  stale IDs given to `RemoveGraphBySource` are its own. `LoneImportsRedetect`
  uses the invariant `LoneInv`: an import alone since its start is the only one in
  flight and its snapshot is still the graph.
  `SourcesStayIsolated`: the property itself speaks of
  moments when no import of a source is in flight, so it is not inductive. The
  invariant `IsolationInv` says of every untainted source that at most one import
  has it, and by `Progress` how far it has got: before the removal the graph is
  covered by what is stored or captured, after it by what was captured, after the
  reconciliation by nothing, after the merge it is exact. A step of another import
  is a `Frame` step for the source, by `ForeignSourcesUntouched`'s argument, and
  keeps all of that.
* **`FanoutProofs`**: `FanoutTypeInvariant`, `RunningIsBounded` and
  `ResultsAreComplete` and `SkipsHaveAReason`, which no run repeats, and `RunRefinesScatter`: every step of
  `Fanout` is a step of `Scatter` or a stutter. The invariant says that the
  semaphore counts its holders and the wait group the live goroutines
  (cardinalities of sets), that tasks are spawned in order, that a result is
  written exactly when a goroutine is past its task, and that a derived context
  that is done has a reason. These hold for fail-fast and collect-all, bounded and
  unlimited alike, which is why the one run of the pool is with fail-fast only.
* **`ReportsProofs`**. `CallersLeaveImportsAlone` first: a behaviour with callers is one
  of `Ingest` for the import variables, so that its theorems can be cited.
  `AnswersCarryMembership` follows from `WritesWhatItRead`: what a caller is about to write
  carries the hash of the community it read, and it was compared with that hash before use.
  `UndisturbedCallersWriteTruth` needs `SeesOneState`: an undisturbed caller's communities
  and snapshot are those of the present graph. `LoneCallersNeverPayTwice` and
  `PrewarmingLasts` share `PaidInv`. Its core is `PaidStaysFresh`: every community that was
  paid for and has been detected the same since has a stored report with its hash. A put
  keeps that, because the communities that a lone caller reads share no key with one
  another or with what is detected now, so that a put replaces at most the report of a
  community that is gone (`PuttingKeeps`); an import keeps it, because what it detects
  differently leaves `paid`. Together with `PaysOnlyForStale` (between a miss and the
  summary nobody else wrote) nothing paid for is generated again.
* **`BenchmarkProofs`**. The invariant ties the cache's list, its index and the order of
  use together (`Mirrors`), makes every stored value one the judge gave for its key
  (`Stored`), and says of an example under way what it may hold (`Underway`), of one that
  ended that it was scored or recorded as an error (`Ended`), and of a sequential run that
  everything before it ended (`InOrder`). `CacheKeepsTheRecent`, `VerdictsCameFromTheJudge`
  and `SuccessIsComplete` follow. `ErrorsStopTheRun`, an action property, adds that a
  returned run is quiet (`Quiet`) and that behind a recorded error at most `Workers - 1`
  examples are past the gate (`GateHolds`), by counting. `RunUsesThePool` maps every step
  to one of `Scatter` or a stutter.
* **`PostgresProofs`**. Row locks exclude (`LocksExclude`), so what a transaction wrote was
  written on top of what is committed. `Progress` says for each kind of call and each
  statement what the transaction has done to every row: to the rows it visited what the
  operation does, and it left none unvisited but those committed by others since the call
  began. `TransactionsKeepContract`, the refinement of `StoreContract`, reads off at the
  commit that the call as a whole was applied, with `late` those that it missed. For
  `NoRelationDangles` the order of the statements matters: `EdgesFound` says that a
  removal, once it looks for relations, has met every relation that could be left without
  an endpoint, because an upsert locks its entities before its relations.
  `ReadersErrForward` needs `ReadersKnow`: what a reader's first query returned, and that an
  entity gone since then took its relations along.
* **`RetrievalProofs`**. `SignalsAreAlwaysHeard`: the slots are emptied with the fusion,
  and the first failed signal is the least of four places. The other proofs rest on lemmas
  about the operators on lists: what a sort may leave holds every element once
  (`ListingProperties`), what a cut keeps (`CutProperties`), that merging covers every hit
  with one of the same chunk that scores no less (`MergeProperties`), and that comparing
  fractions by cross products is transitive (`NotAboveIsTransitive`), over any numerators
  and denominators. `RetrievalTypesCorrect` needs them to keep the chunks of a list
  distinct. `FusionKeepsAgreedOrder`: a share of `Unit` falls strictly with the rank
  (`WorthOrder`), so a chunk that leads everywhere has a strictly higher sum.
  `TheBestIsReturned` needs `OfferedAreCovered`, that the merged list of the queries covers
  everything offered so far; `RoutesBindTheAnswer` needs `RouteInv`: every hit of a slot
  lies on the route of its goroutine (`SlotOnRoute`), that route is the path of the request
  or, if nothing changed, the head of a list the present chunks propose
  (`SearchesOnRoute`), planned routes are bound before they are searched, and merging,
  boosting and cutting leave chunks where they are. All lists of proposals have one
  length, so without a tie all goroutines choose the same one (`OneChoice`).
* **`AnswersProofs`**. `DiagnosticsAreComplete`: `PartialsAreComplete` speaks of
  what is returned, so `MapInv` says how far the map step has got: before it
  nothing is consulted, during it every consulted community has its partial (the
  code appends the ID before the call and the partial after it, which one step of
  `MapFails` must undo), after it all are reported. `SeedsAreNeverRevisited`:
  disjointness of the rounds is not inductive by itself; `DriftInv` adds that all
  that was explored was seen and that the seeds of the next round are new, and
  takes from `MapInv` that the first seeds are members of consulted communities.
  `RoundsAlwaysFollowDecisions`: while an Ask goes on, the round under way is the one the
  last recorded decision called for (`CalledFor`), the adaptive budget is spent exactly
  when a stop was overruled (`OverruledOnce`), and no decision calls for a round above
  `MaxRounds` (`DecidedWithinRounds`). `BudgetsAreAlwaysKept`: what is spent is what the
  recorded rounds planned, and once `Union` has charged them the follow-ups of the round
  under way (`SpendingAddsUp`); the sum is stated by its running totals, which a proof can
  extend by a round where it could not unfold a fold; whatever goes on or is answered is
  within the token budget (`WithinTokens`). The two parts are inductive together.
  `AdoptedIsAlwaysBest`: `PickBestRound` is a recursive function over the recorded rounds,
  and what it returns is the earliest of the best ones (`EarliestBest`), for a first round
  up to which it returned anything else would contradict the round before. `AdoptionInv`
  adds to the property that evidence is typed.
* **`ComputationsProofs`**. Of the five computations one runs and leaves the variables of
  the others alone (`DetectionNext`, `SplittingNext`, ...), so each has an invariant of its
  own. Two groups of lemmas serve all of them: about lists (what appending, cutting and
  replacing make of one) and about numbers (a least element, counting up to a bound, that a
  function given by iteration exists); with the latter a recursive function is unfolded at a
  place. `PlacedInOrder` says of `Sorting` that a strict total order lists every element of
  a finite set once.
  * `PathsAreAlwaysComplete`: a depth-first search is correct because of what has not been
    searched yet. `PathInv` says of the stack of calls that each is a walk from the seed
    over an edge that the call below has taken off its list (`CallOf`, `Beyond`), that the
    marks are the entities of the innermost walk, and of every path to be found that it was
    found, or some call awaits it (`Pending`), or its pair of seeds is still to come. The
    ranking is then a permutation of what was found.
  * `ContextAlwaysAddsUp`: while hits are packed, those before `next` are split into packed,
    truncated and dropped, and `usedTokens` is the count of the question and the packed ones
    (`PackedSoFar`). A cut hit exceeds its room by its title and two tokens of rounding at
    most (`TruncatedFits`, from `CountOfThree`: how far the rounded count of a text can be
    from the counts of its parts). The scan puts each packed hit on one of two lists
    (`Seen`).
  * `ChunksAlwaysKeepTheDocument`: `Reading` says that the path is that of the last heading
    read (`PathOfLast`, kept by `PathGrows`); `Cutting`, that all before the window's start
    is in a chunk and none exceeds `Slack`. For that a window must break between its start
    and the slack, and the next must start behind this start and skip nothing but blanks
    (`BreakIs`).
  * `ResolutionIsAlwaysFaithful`: `Clustering` says that `parent` is a forest in which no
    parent comes after its child, that two entities compared and found duplicates have one
    root (`JoinedSoFar`), that entities of one root are chained (`JoinedRightly`), and that
    of two entities of one name the one that came last is compared last (`InTurn`).
    Halving a way keeps all roots (`HalvingKeepsRoots`), hanging a root under an earlier one
    joins two trees and no others (`LinkingJoins`), and once all pairs are compared trees and
    chains are the same (`TreesAreChains`), which gives `ChainsShareAName`. For the endpoints,
    the name an entity gets was that of an entity of its own type, where no two types share
    one (`NameIsOfType`); so of all entities that bear the new name, in whatever spelling,
    the highest type is the entity's own (`EndpointIsFound`).
  * `HierarchyIsAlwaysNested`: super-nodes share out the entities (`Sharing`), the groups of
    any labelling of them do (`GroupsShareOut`), and so do the super-nodes after coarsening
    (`CoarseningShares`), in which the communities of the level lie (`AreLevels`). The
    invariant says nothing of labels: whatever communities the visits choose, by whatever
    weights, the hierarchy is nested. A parent is found by the lowest member, which lies in
    one community of the level above and no other (`ParentLies`).
  * `QualityIsNeverLost`: the modularity is compared as an exact number, as the model's gains
    are; rounding is not modelled. The library's sums are folds that choose their
    elements, so a third group of lemmas says first that sums over finite sets exist and
    add up in any order (`SumIs`, `SumSteps`), then how they split, are renamed and
    regrouped (`SumSplits`, `SumRenamed`, `SumByParts`, `SumByRows`). The invariant says that
    between the steps the graph is `Weighted`: weights are natural and the same from both
    ends, degrees are their sums, labels are nodes. A node that joins a community adds to
    its part twice the gain and an amount that does not depend on the community
    (`PartGrows`), so a move changes the modularity by twice the difference of two gains
    (`MoveGains`), and the community chosen has a gain at least that of the one left
    (`BestIsNoWorse`), also where it is the lowest of those without a gain. Coarsening takes
    communities to super-nodes one to one (`CoarseningIsOneToOne`) and keeps each one's inner
    weight and degree (`CoarseWeights`), so it keeps the modularity (`CoarseningKeeps`).

The type invariants, `ConcurrencyBounded`, `ResultsComplete`, `SkippedForAReason` and
`NewRelationsHaveEndpoints` are only proved: the runs leave them to the theorems and
check what the proofs do not reach. The other invariants of the proofs are not run either;
TLC checked them on the runs' instances before they were proved.

Only model-checked: liveness (`CallersReturn`, `RunReturns`, `BenchmarkReturns`,
`QuestionsEnd`, `RetrievalReturns`, `CallsEnd`, `EveryComputationEnds`), which the proof
system does not do under fairness.

## Abstractions, and what is not modelled

* Documents without a `SourceID` behave as with `ReplaceSource` unset; batches in
  which two documents share an ID (or have none), and so their chunk IDs, are left
  out, as is the same document in two namespaces.
* Embedding, redaction and injection guards sit between the removal and the
  upsert; they can fail, which `Fail` covers, and change no state.
* Summarization failures and store errors are one action
  (`Break`): the code returns the same way from each.
* Durations: a sleep ends by its timer or its context; back-off is planned.
* In `Ask` a failing reranker, compressor, packer or template is a failing draft;
  the calls of one query expansion are one call; tokens are counted up to one above
  the limit, since no comparison looks further; a reflection mode the code does not
  know, which answers after one round, is left out, as is the order of hits. A
  grader or a planner other than the shipped ones is not counted and costs nothing.
* `Benchmark` leaves out the textual scores and the aggregation of the metrics, pure
  functions of the results; in `Retry` delays, jitter and `OnRetry`.
* `Retrieval` leaves out query preprocessing and decomposition (the queries are given),
  filters, a `TopK` of zero (which cuts nothing), the retrieval of communities, neighbor
  expansion and the traces; the
  paths it may ask for are computed in `Paths`, for a decay of a half. `PostgresStore` leaves out migration and the calls that are one statement
  each: search, listing, statistics, reports.
* `Packing` counts words; the tokens of CJK text are not modelled.
* The corrective asker asks a fixed number of times and keeps the best answer in one
  variable; the feedback recorder is one write under a mutex; the llm-agent tool
  dispatches. What is hard in what they call is modelled, they are not.
* Components with status `not_modelled` in `PROJECT.json` say why there. Numeric
  code on floating point (embeddings, metrics), text templates, formats and the
  wiring of options are out of scope for good; the others are in the plan.

## Plan

The order is that of the damage a mistake does and of what depends on what.

1. *Done*: graph operators, import, reports, pool, benchmark with retry and caches;
   their runs; the safety of import and pool proved.
2. *Done*: the answer paths with their budgets (`Ask`, `GlobalSearch`, `Drift`).
3. *Done*: retrieval with its goroutines (`Retrieval`), the PostgreSQL store and the
   contract that both stores keep (`StoreContract`, `PostgresStore`), the algorithms
   (`Detection`, `Splitting`, `Packing`, `Resolution`, `Paths`), the sequential benchmark.
4. *Done*: proofs of every safety invariant that a passing run checks, of the action
   properties, and of the refinements.
5. Left to model, should the code grow there: the corrective asker, the caching grader
   inside Ask, namespaces across the two stores.
