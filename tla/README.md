# Open Graph Memory: specifications, model checking and proofs

This directory specifies in TLA+ how Open Graph Memory (the API and worker under
`apps/api`) keeps its promises when its processes crash, its queue forgets, its
requests run at once and its users call it in an unexpected order. Every
definition is translated from the source; `PROJECT.json` names for each of them
the file, the lines and the function it stands for. Paths below are relative to
`apps/api/app` unless they start elsewhere.

## 1. The system

Open Graph Memory turns uploaded documents into chunks, embeddings and a knowledge
graph, and keeps an "agent memory" of problem-solving episodes. One PostgreSQL
database holds all durable state. One Redis holds the arq queue and nothing that
must survive. Uploaded bytes are in an object store. API processes serve HTTP,
an MCP server exposes the same services as tools, and worker processes run arq
tasks and, each of them, one maintenance loop.

| Part | State | Operations | How it meets the others |
|---|---|---|---|
| Upload (`documents.py`, `enqueue_document` of `ingestion.py`) | `documents`, `indexing_jobs`, `indexing_outbox`, the object | upload, duplicate, retry of a failed document, store failure | one transaction holds the document's row lock and commits document, job and outbox row |
| Indexing worker (`ingestion.py`, `arq_worker.py`) | job status, document status, chunks | claim, four stages, final transaction, failure handler, retry, cancellation, requeue, heartbeat | started by arq, commits the graph job with the chunks |
| Indexing maintenance loop (`arq_worker.py`) | outbox attempts and `dispatched_at` | dispatch, publication failure, reconciliation (2 transactions) | reads what uploads and workers commit, writes to Redis |
| Graph jobs (`graph/dispatch.py`) | `graph_extraction_jobs` with lease, attempt and backoff; outbox; `documents.graph_stage` | dispatch, lease recovery, expiry, execute, renew, requeue | started by arq, calls the extraction |
| Extraction and consolidation (`graph/pipeline.py`) | extraction runs, entities, relations, evidence | plan, groups, persist, consolidate | calls external providers |
| Graph store (`graph/gc.py`, `graph/service.py`, `graph/store.py`, `graph/api.py`, `graph/analytics.py`) | entities, relations, evidence, aliases, analytics runs | garbage collection, reviews, walks, pages, snapshots | called by deletion and re-ingestion |
| Deletion (`documents.py`, `datasets.py`) | the same tables and the object store | delete a document, a dataset | races with uploads and workers |
| Codebase ingestion (`codebase.py`, `packages/core/.../code_extractor.py`) | the dataset's entities and relations | ingest files, synchronise one, index a directory | writes the same graph tables without documents |
| Agent memory (`memory/`) | episodes, attempts, outcomes, patterns, versions | create, attempt, outcome, feedback, merge, supersede, archive, delete | row locks, an advisory lock per pattern |
| MCP server (`mcp_server.py`) | none of its own | the memory tools, without the row locks of the endpoints | calls the services in the same database |
| Legal hold, retention, idempotency (`legal_hold.py`, `retention.py`, `idempotency.py`) | holds, policies, keys with a TTL | place and lift holds, apply a policy, look up and store a key | checked before deletions |
| Export and import (`export_import.py`) | none of its own | export a project's memory, import it | writes the memory tables |
| Retrieval, embeddings (`retrieval.py`, `retrieval_api.py`, `embedding.py`) | none | graph walk with a fallback, fusion of rankings | reads |
| Migrations (`apps/api/migrations`) | the schema and its version | upgrade, downgrade | run before a release starts, on any older database |
| Parsing, chunking, extraction core (`parsers.py`, `chunking.py`, `packages/core`) | none | pure functions of bytes and text | called by the workers |
| Plugin registry, contracts, SDK, dashboard, scripts | configuration | set-up, clients, operations | outside of the core |

### What is hard

* **Two sources of truth.** A job's life is in PostgreSQL, its delivery in Redis.
  Between a commit and the call to Redis a process may die, and a call to Redis
  may have been executed although it raised.
* **Several loops, several workers.** Every worker process runs a loop, so two
  dispatchers and two reconcilers work on the same rows, and a stale job may have
  a living worker.
* **Reads without locks.** `enqueue_document`, the failure handlers and the memory
  tools write from what they read earlier.
* **Limits.** Publications, attempts and deliveries are bounded; what happens at
  the bound decides whether somebody is told.
* **Multi-row operations.** Supersession walks a chain of rows, deletions touch
  many tables in several transactions, garbage collection depends on the order.
* **Reads of several statements.** Walks, traversals and pages read while extraction,
  reviews and deletions add and remove what they are about to read.
* **Old databases.** A revision runs on whatever an older release, an installation
  from newer models or a downgrade has left behind.

The hazards, each with its line and the properties that would catch it going wrong,
are listed in `PROJECT.json`.

### What makes each part correct

* Upload and indexing: one execution at a time; success, chunks and graph job
  appear together and are never taken back; a document that refuses uploads as "in
  progress" really has work; a queued job ends.
* Graph jobs: one extraction at a time; no finished chunk is paid for again; success
  means every chunk; a running job can always be recovered; failures are visible.
* Agent memory: supersession is atomic and acyclic; patterns count every verified
  outcome once; superseded patterns are not promoted.
* Graph store and deletion: evidence has its chunk, a cited relation its cited ends; a
  document reported complete is complete; a reviewer's decision is not lost.
* Retention, holds, idempotency: nothing held is deleted, a repeated request does its
  work once.
* Reads: a returned path explains its target, a walk within its limits misses nothing,
  a client that follows cursors sees every lasting row once.
* Codebase ingestion: what a client was told is ingested is there.
* Migrations: every chain of commands leads to a schema the models fit.

## 2. Modules

| Module | What it is |
|---|---|
| `ArqQueue` | What the workers rely on in arq and Redis (external): entries under a fixed job id, deliveries up to `MaxTries`, total loss. Shared by both pipelines. |
| `IndexingPipeline` | Upload, dispatch, publication, reconciliation, delivery, execution, heartbeat, requeue, faults. |
| `IndexingPipelineProofs` | The inductive invariant of `IndexingPipeline` and its consequences. |
| `GraphJobs` | The graph job: outbox, lease, attempts, resumed extraction in groups, completion, faults. |
| `Supersession` | The abstract specification of supersession, one atomic step each, with the proof that it never has a cycle. |
| `EpisodeChains` | Episodes, row locks, the statements of the endpoints that link episodes, and the endpoints that write one row. |
| `EpisodeChainsProofs` | The lock invariant of `EpisodeChains`, the refinement of `Supersession`, acyclicity. |
| `EvidenceGraph` | One dataset: documents, objects, chunks, extraction runs, entities, relations, evidence, reviews, analytics snapshots, deletion. |
| `MemoryStore` | Outcomes, attempts, patterns, idempotency keys, holds, retention and import, statement by statement. |
| `CodebaseIngest` | What the code extractor finds and the three requests that store it. |
| `Migrations` | Every revision of the schema, and the upgrade and downgrade commands. |
| `GraphRetrieval` | The bounded walk, the traversal, the explorer's pages, the fusion of rankings. |
| `GraphJobsProofs`, `EvidenceGraphProofs`, `MemoryStoreProofs`, `GraphRetrievalProofs` | Their inductive invariants and what follows. |
| `DataModelsProofs` | The same for `CodebaseIngest` and for `Migrations`. |
| `MCIndexingPipeline`, `MCGraphJobs`, `MCEpisodeChains`, `MCEvidenceGraph`, `MCMemoryStore` | Symmetry sets and small values for TLC; the constants are in the `.cfg` files. |
| `MCDataModels` | `CodebaseIngest`, `Migrations` and `GraphRetrieval` taking turns (section 3). |

Definitions named in a comment as *Mutant* are variants of the definition that
follows, wrong the way a plausible bug would be. No specification uses them. They
show that the properties can fail: with the mutant in place of the definition, TLC
finds the property violated (the pairs are listed in `PROJECT.json`).

### Grain

One action is one committed transaction, one call to Redis, or, where several
statements of one transaction can interleave with other transactions
(`enqueue_document`'s unlocked read, every statement of a supersession), one
statement. A row that is locked from a read to a commit is modelled as locked:
`uploadPc` for the document's row, `locked` for the episodes. SQLAlchemy writes only
the columns that differ from what it loaded; this matters and is modelled
(`EnqueueCommit`, `Persist`, `Link`).

### `IndexingPipeline`

A job id is a hash of its document, so the job, the outbox row and the arq entry are
indexed by the document.

| Code | Action |
|---|---|
| `upload` | `UploadBegin`, `StoreFails`, `UploadRollback`, `EnqueueRead`, `EnqueueCommit` |
| `_dispatch_pending_indexing` | `ClaimOutbox` (commits the claims), `Publish` (Redis executes), `PublishAck`, `PublishFails` (before or after Redis executed) |
| `_reconcile_indexing_jobs` | `RecoverRuns`, `ExpireDispatches` |
| `task_index_document` | `Deliver`, `Finish`, `Rearm`, `Cancel`, `AfterError`; `DropExhausted` is arq's discard |
| `run_ingestion` | `ClaimJob`, `SkipClaimed`, `Advance`, `Persist`, `RunFails`, `RunErrors` |
| `_requeue_indexing_job` | `Requeue`, `RequeueErrors` |
| `_indexing_heartbeat`, `_maintenance_loop` | `beating` with `HeartbeatDies`; `LoopAborts` |
| process death, Redis loss | `Crash`, `LoseRedis` |
| `execute_graph_job`, seen from here | `GraphEnds` |

Time is abstract. A heartbeat renews `updated_at` three times per stale interval, so a
running job is stale only when no living heartbeat renews it; a queued dispatch may be
old at any time. `dispatched_at` is the number of the attempt that set it: two claims
of one row have different times.

### `GraphJobs`

`Enqueue` is the commit of ingestion; `IngestAgain` and `Reupload` are the two ways a
document with a graph job is touched again. `ClaimOutbox`, `Publish`, `PublishFails`,
`RecoverLeases` and `ExpirePublications` are the loop; `SkipClaimed`, `GiveUp`,
`RefuseDocument`, `StartAttempt`, `FailAttempt`, `Complete` and `ExecuteErrors` are
`execute_graph_job`; `Plan`, `StartGroup`, `EndGroup`, `Project`, `ExtractFails` and
`Unwind` are `extract_document`, whose groups commit one by one. The renewal of the lease after a
group is part of `EndGroup`. A lease is absent, live or expired, and a living
heartbeat keeps it live. What the providers return is a success or a failure per
chunk; what a success stores is the subject of `EvidenceGraph`.

### `Supersession` and `EpisodeChains`

`EpisodeChains` has requests in flight. `Begin`, `ReadTarget` and each `Follow` are
one statement; the supersede endpoint (`"supersede"`) locks every row it reads, the
confidence endpoint (`"confidence"`) and the merge (`"merge"`) lock only the episode
of their path, the MCP tool (`"mcp"`) none. A commit waits for the rows it writes and
refers to (the foreign key takes a share lock of the referenced row). `Abandon` is
every way a transaction rolls back: a refusal, a missing row, a deadlock's victim, a
cancelled request. Everything else is one action under one row's lock. `Operations`
selects the endpoints in use. The MCP tool's merge, its corrections and confirmations, and
the values of confidence and version are not modelled.

### `EvidenceGraph`

A job here is its status; leases and queues are those of the two pipelines. `uploading`
is the row lock an upload holds while it stores the object. `Collect` is
`cleanup_document_graph`, as a function of the evidence its transaction sees;
`CascadeAndCollect` is the order in which `run_ingestion` and `delete_document` call
it. A snapshot of the analytics is the set of entities and relations it was made of.

| Code | Action |
|---|---|
| `upload` | `StoreObject`, `StoreFails`, `CommitUpload`, `UploadCrashes` |
| `run_ingestion` | `StartIndexing`, `PersistChunks`, `IndexingFails`, `LateIndexFailure` |
| `execute_graph_job`, `extract_document` | `StartExtraction`, `StartRun`, `FinishRun`, `ExtractionFails`, `RefreshAfterExtraction`, `CompleteExtraction` |
| `consolidate_document` | `Consolidate`, `ConsolidateAgain`, `ConsolidationFails` |
| `refresh_dataset_analytics` from its endpoint | `RefreshRequest` |
| `review_relation` | `ReviewRelation` |
| `delete_document` | `MarkDeleting`, `DeleteObject`, `DeleteObjectFails`, `DeleteRow`, `DeleteCrashes` |
| `datasets.delete` | `StartDatasetDeletion`, `MarkNext`, `DeleteNextRow`, `DeleteDatasetRow`, `DatasetRowStays` |

### `MemoryStore`

A request is a record of what it has read so far, a set of locks, and a place in its
endpoint (`pc`). `Goes` is a statement that reads, `Answered` the end of the
transaction; what it writes appears with the commit. A constraint that refuses a commit is
recorded in `collided`. `late[r]` collects the holds placed after request `r` has read
them. `tally` is what each pattern's weight should be. `using` is the set of endpoints
a deployment's clients call, chosen once.

| Code | Action |
|---|---|
| `record_outcome` | `BeginOutcome`, `LockKey`, `ReadPattern`, `CommitOutcome` |
| `feedback_pattern`, `supersede_pattern` | `BeginJudge`, `CommitJudge`; `BeginReplace`, `ReadReplacement`, `CommitReplace` |
| `append_attempt` | `BeginAttempt`, `ReadSequence`, `CommitAttempt` |
| creation with an idempotency key | `BeginCreate`, `CommitCreate` |
| deletion, `memory_forget` | `BeginDelete`, `BeginForget`, `BeginForgetSoftly`, `CheckHolds`, `CommitDelete`, `CommitForget`; `Retire` |
| `apply_retention` | `BeginRetention`, `ReadHolds`, `ReadItems`, `CommitRetention` |
| holds, `import_project` | `PlaceHold`, `LiftHold`; `Import` |

### `CodebaseIngest`

A file's content is the sequence of the syntax nodes the extractor visits.
`ExtractedEntities` and `ExtractedRelations` are the extraction; `Places` are the
positions of a batch in the order its entities are collected, of which the last of a name
enters the symbol table (`Resolve`) and the first of an id the row (`AfterUpserts`, with
`Refused` for a key that is taken). A request goes through
`Receive`, `CreateDataset`, `InsertEntities`, `AssertRelations`, `Answer`, each one
transaction, or ends in `Abort`.

### `Migrations`

A schema is a set of objects. What a revision does with one object it does in the order
drop, ensure, create, and statements on different objects commute, so that a script is
three sets of objects (`Script`); a creation fails where the object is already there
or a part has no table, a drop where it is missing (`Executes`), and a dropped table takes its
parts (`Without`). What a revision does to rows is `RowsUp` and `RowsDown`, with the
keys that may refuse it, `FitsUp` and `FitsDown`.

A command works on the schema and rows of its transaction (`command`). Revision 0006
creates tables from the models of the release that runs it, so `command` remembers the
release; what the database was installed with shows in its schema only.

| Code | Action |
|---|---|
| `alembic upgrade` on an empty database, on an older one; `alembic downgrade` | `Install`, `StartUpgrade`, `StartDowngrade` |
| `upgrade()`, `downgrade()` of one revision | `UpgradeRevision`, `DowngradeRevision`; a failing statement ends the command |
| the transaction of `online` in `env.py` | `Commit`; `Interrupt` is its rollback |
| what the release that fits the revision writes | `QueueJob`, `AdvanceJob`, `Analyze`, `Archive` |

The releases do not run while a command does.

### `GraphRetrieval`

One read at a time is under way (`task`), statement by statement, while `Change` adds and
removes entities and relations. `FirstRows` is an ORDER BY with a LIMIT, the rows with
fewer than so many before them.

| Code | Action |
|---|---|
| `bounded_walk` | `StartWalk`; `WalkRelations`, `WalkEntities` (its two statements), `VisitRelation` (one turn of its inner loop), `NextRound` |
| `path_ids` | `TraceBack`, one turn of its loop |
| `GraphStore.traverse` | `StartTraversal`; `TraverseRelations`, `TraverseEntities`, `FollowRelation`, `NextDepth`; `ReadEvidence` |
| `bounded_graph_search` | `GiveUpTraversal` (timeout or error), `PerChunk` |
| `build_explorer_node_page`, `list_explorer_relations` | `StartPaging`, `ReadPage` |
| `reciprocal_rank_fusion`, `hybrid_search` | `Fuse` |

A path from an entity to itself is left out: `path_ids` answers it without the walk.

## 3. Runs

| Run | Checks | Instance |
|---|---|---|
| `indexing_safety` | `TypeOK`, `SingleRunner`, `SucceededHasResults`, `InProgressHasWork`, `IndInv`, `SuccessIsFinal`, `LateFailureSpares` | 1 document, 2 workers, 2 loops, 3 publications, 2 deliveries, 1 fault; 2.3 million states |
| `indexing_liveness` | `QueuedJobsEnd` | 1 document, 2 workers, 1 loop, 2 publications, 2 deliveries, 1 fault |
| `indexing_stranded` | `PendingWorkIsRepublished` is violated | no fault |
| `graph_safety` | `TypeOK`, `SingleExtractor`, `SuccessIsComplete`, `RunningIsLeased`, `ExtractedOnce`, `GraphSuccessIsFinal` | 1 document of 2 chunks, 2 workers, 1 loop, 3 publications, 2 attempts, 2 faults; 4.0 million states |
| `graph_liveness` | `GraphJobsEnd` | 1 chunk, 1 fault |
| `graph_stuck` | `FailureIsReported` is violated | no fault |
| `chains_locked` | `NoCycles`, `ImplementsSupersession` | 4 episodes, 2 requests, the supersede endpoint and the one-row endpoints; 0.7 million states |
| `chains_mixed` | `TypeOK`, `NoDangling`, `ChainInv`, `AtomicSupersession` | 3 episodes, 2 requests, all linking endpoints, feedback and deletion; 1.0 million states |
| `chains_merge` | `NoCycles` is violated | 3 episodes, 1 request |
| `document_store` | `CitedEndpoints`, `EvidenceOfSucceededRuns`, `ReportedCompleteIsComplete`, `NothingIsCollected`, `DecisionsStay`, `RefreshShowsAll` | 2 documents of 1 chunk, 2 entities and a relation between them, 2 extractions, 1 request, 1 fault; 2.3 million states |
| `memory_store` | `PatternsCountOutcomes`, `NothingCollides`, `OneEpisodePerKey`, `PatternsImplementSupersession`, `HeldEpisodesStay` | 2 requests, 2 episodes, 2 patterns, 1 key, 1 hold, 11 deployments; 0.9 million states |
| `data_models` | `AnsweredIsStored`, `ModelsFitNewest`, `UpgradesSucceed`, `RefusedForRowsOnly`, `PathsExplain`, `WalkIsComplete`, `PagesAreWhole`, `FusionRespectsRanks` | 2 requests on 2 files of 2 contents; 6 installed releases, 1 job; 4 entities, 4 relations, 1 change during a read, rankings of 2; 2.6 million states |

### Why these bounds

* *One document.* Documents share only the loops' batches, the workers and Redis's
  loss. No guard relates two documents. The proofs cover any number.
* *Two workers, two loops.* Every race in the code is between two holders of a
  row or an entry: two executions, two dispatchers, a dispatcher and a reconciler.
* *Three publications.* One that fails late, one that another loop makes meanwhile, one
  left over: the fewest for which a late failure is neither the first nor the last.
  The code's limits (`MAX_INDEXING_OUTBOX_ATTEMPTS`, `MAX_GRAPH_OUTBOX_ATTEMPTS`) are
  larger; a violation at a limit is reached at any limit.
* *One or two faults.* Each fault alone, and for the graph job each pair. Failures the
  code handles itself (an enqueue that raises, an error, a cancellation) are not
  counted and happen any number of times.
* *Two documents of one chunk.* Whether a subject keeps the evidence of another
  document is the question of the collection; two chunks of one document differ in
  nothing the properties ask beyond what `graph_safety` checks. One fault: each alone,
  at every step. The proofs cover any number of each.
* *Deployments of `memory_store`.* The endpoints that read and write the same rows
  meet in one of the deployments; all twelve together exceed what TLC finishes in
  minutes. The proofs cover every combination.
* *Two files.* Every rule that resolves a name outside of the file needs two; the two
  contents of each are chosen for what can differ: a base class in the other file, a
  call of the other file, names that differ in case only, an unnamed C struct.
* *Six installed releases.* 0003, 0004 and 0007 are on both sides of the revisions
  that depend on rows (0005) and on models (0006), 0012 and 0014 of the levels, 0028 is
  the newest. From each, every chain of upgrades and downgrades above 0007.
* *A square of four entities.* The smallest graph with two ways to a node and a
  relation against the direction of the walk; limits are chosen below, at and above
  what it holds. One change during a read is any row going or coming at any point.
* *Rankings of at most two out of three chunks.* A chunk in both, in one, and in none.
* *Four episodes.* Two unlocked walks close a cycle only over four rows, two that
  requests hold and two that they only read; with three, a walk without locks would
  pass.

`CHECK_DEADLOCK FALSE` is used where episodes or documents can be deleted, or a bound
on attempts, feedback or requests be used up: the instance has nothing left to do.

### One run for three modules

`data_models` checks `CodebaseIngest`, `Migrations` and `GraphRetrieval` together because
they ask one kind of question, what a reader makes of what is stored, and each is small.
They share no variable; `MCDataModels` picks one of them at the start of a behaviour and
the others keep still, so that the states are the sum of the three, not the product.

### Fairness

Uploads are requests: nobody has to make one, but one that has begun ends. Loops poll
for ever and workers run what they hold (weak fairness of their steps, strong where a
row lock can make a step wait: PostgreSQL queues the waiters). What is waiting in
Redis is delivered sooner or later (strong: workers may be busy in between). Time passes: what stays
stale is found stale by some later poll (strong fairness of the reconciler's
transactions for each document). Faults have no fairness and are bounded.

### What the violated runs say

* `indexing_stranded`: the outbox counter survives a re-upload, so a job that used up
  its publications is queued again and never published (`README.md:366` promises that
  outboxes republish pending work).
* `graph_stuck`: a job given up for its attempts leaves the document in the stage
  "extracting" (`docs/graph-extraction.md` says the stage reports progress).
* `chains_merge`: two merges, one after the other, close a cycle
  (`docs/agent-memory.md:66` says cycles are prevented).

### What the models show of the code beside the properties

Each of these is behaviour the models include. No property forbids it, or a
property states it as it is.

* **Redelivery.** The failure handler of `run_ingestion` does not ask whether the job is
  still its own: the late loser of two executions fails the job the winner has
  completed, though ADR 0005 calls at-least-once delivery safe (`RunFails` after
  `LoseRedis`, `LateIndexFailure`). `SuccessIsFinal` and `ReportedCompleteIsComplete` name
  it in their premises.
* **Unlocked links.** The MCP tool's supersession walks the chain without locks, and two
  of them can close a cycle (`mcp_server.py:432`); they run in `chains_mixed`, where the
  properties hold whatever they do.
* **Collection.** `cleanup_document_graph` runs after the cascade that removed the evidence
  it starts from, so it never removes a subject (`NothingIsCollected`, proved); the
  unsupported entities stay, and with them the explorer reports its snapshot stale
  (`Stale`) until they are supported again.
* **Explorer.** The docstring of `build_explorer_view` says that analytics "enriches but
  never gates nodes" (`graph/service.py:411`); the join at line 489 shows the nodes of the
  newest run only (`ExplorerNodes`).
* **Patterns.** An outcome or feedback recomputes `promoted` of a superseded pattern and so
  promotes it again. The hard deletion of an episode leaves its weight in the pattern. The
  threshold is 0.7; `docs/agent-memory.md:52` says more than 0.8.
* **Retention and import.** An archival by retention overwrites a status that changed after
  the run had read it. An import brings outcomes without patterns, and superseded episodes
  without their links.
* **Codebase.** The quote of a base class ends in the heir's own name, so inheritance from
  another file is recorded nowhere (`InheritanceQuote`). A symbol renamed only in case
  clashes with its own row (`Clashes`), and no later synchronisation of that file succeeds.
  Symbols that have left a file stay, though `docs/codebase-knowledge-graph.md:66` speaks of
  removing them. One unnamed C struct sends the whole file to the line-by-line fallback,
  which sees no C functions (`FallsBack`, `Flat`).
* **Migrations.** 0017 is empty though its docstring announces indexes.
* **Traversal.** `bounded_graph_search` keeps, of several evidence rows of a chunk, the one
  with the lowest score (`PerChunk`). The limit of relations of a walk is used up by
  relations to entities that have expired (`WalkRelations`).

## 4. Proofs

All proofs are checked by TLAPS for every value of the constants.

**`IndexingPipelineProofs`.** The invariants that matter (`SingleRunner`,
`SucceededHasResults`, `InProgressHasWork`) are not inductive. `IndInv` adds who
protects what: a worker holds an entry that Redis marks running (`HeldEntries`); a
claim counts (`ClaimsCounted`) and is held once (`ClaimsAreExclusive`); the row lock
of an upload keeps its document (`LockedIsNew`); what `enqueue_document` read
unlocked can be outdated only in harmless ways (`SeenIsCurrent`); a stage has a job
that has not ended (`StagesHaveWork`); a graph job means success
(`GraphAfterSuccess`). `Invariance` proves `Spec => []IndInv` with one lemma per
action; the invariants follow, and from it the action properties `LateFailure` and
`SuccessFinal`. The premise `Sound` (Redis has kept its data, publications are left)
is needed: without it the violated runs show what happens.

**`Supersession`.** `Acyclic(f)` says that every non-empty set of items has a member
whose replacement is outside of the set. In this form adding a link needs no
induction: the set a walk has seen is closed and does not contain the item, so a set
that would contain a cycle has a smaller one inside of what was seen (`Linking`).
`AcyclicAlways` is `Spec => []NeverCyclic`.

**`EpisodeChainsProofs`.** `ChainInv` says that locks are exclusive, that locked rows
exist, and that a supersede request owns the rows it has seen, which are closed up to
the link it follows. `WalksAreOwned` proves it for all endpoints together: no other
transaction, locked or not, can write a row that is locked. Hence `SupersedeIsAtomic`
(each commit is an abstract supersession, whatever else runs), and, under
`LockingOnly` (no other endpoint links episodes), `Implements`
(`Spec => Supersession`) and `ChainsEnd` (no cycles).

`LinksLead` adds, for all endpoints, that a link leads to a row (`NoDangling`): what
commits a link has the referenced row locked by its foreign key, and a deletion clears
the links to its own row.

**`GraphJobsProofs`.** As in the other pipeline, the entry in Redis is what excludes a
second extraction: `HeldEntries` says that a worker at work holds an entry marked
running under its job id, and `SingleExtractor` follows. `WorkIsOpen` says that during an
attempt the job has not succeeded, and that what is pending is what has not been extracted; `JobsExist` and `NothingBefore` that nothing is extracted before
there is a job; `RunningIsLeased` is inductive with them. `SuccessIsComplete` needs that
a worker about to complete its job finds every chunk extracted, which is part of
`WorkIsOpen`; `NoRepeatedCalls` and `SuccessFinal` are action properties under the same
invariant. Where Redis has lost its data the properties do not claim anything.

**`EvidenceGraphProofs`.** The key is `CollectsNothing`: the collection sees no evidence
of its document, so it removes nothing. Hence subjects only accumulate, what is cited is
there (`CitedIsThere`), a decision keeps its row (`DecisionsOutlive`), and every snapshot
of the analytics is contained in the newest (`SnapshotsGrow`), which is why a refresh that
returns an older run hides nothing (`RefreshShows`). `ReportsAreTrue` needs more history:
`StagesAreEarned` says of each step of an extraction what of the document's chunks, runs
and consolidation must be there, whatever uploads, deletions and re-indexing do to its
status meanwhile. It holds for every bound on faults and requests.

**`MemoryStoreProofs`.** A lock has one holder (`LocksAreExclusive`), and what a request
knows of the rows it has locked stays true (`Knows`, kept by every step that spares those
rows, `Spared`): its episode exists and has no outcome, the pattern's weight is the one
it has read, or the pattern is not there and the advisory lock keeps it from being
made. Commits therefore count on current weights (`WeightsAreCounted`) and meet no
constraint (`ConstraintsRest`; for attempts because their numbers have no gap,
`AttemptsAreNumbered`). Holds are read without locks, so there `Knows` is weaker:
all holds but the late ones (`HoldsAreKept`). `ReplacementsImplement` maps the
replacement of patterns to `Supersession`, whose theorem then gives
`PatternChainsEnd`. Nothing limits the endpoints in use.

**`DataModelsProofs`, ingestion.** The rows and assertions of a dataset are only added to, so what
a request has committed is there for its next transaction and for its answer, whatever
other requests commit between (`EntitiesAreThere`, `RelationsAreThere`). What remains are
facts of the extraction: every relation starts at a symbol of its own file
(`SourcesAreExtracted`: a node lies in a declaration or in the file, and either is
extracted), also in a file that fell back to the line-by-line extraction, and a target in
the batch is never redirected (`FilesAreResolved`). `AnswersAreStored` follows for any
languages, contents and number of requests.

**`DataModelsProofs`, migrations.** The question is what every chain of installations,
upgrades, downgrades, refusals and interruptions leaves. The objects that always come and
go together are a group, numbered after the revision that adds them (`Group`). At revision
v a schema has the groups of the revisions up to v that 0015 has not dropped (`Firm`), and
nothing else but four groups that newer models, or a downgrade that keeps them, leave early
(`Early`): this is `Fits`. An object is in one group, because its name says which
(`GroupsAreMarked`), so that sets of objects can be compared by comparing sets of numbers. Each
script uses whole groups (`Uses`), and if the numbers fit (`Moves`), then every statement
executes on every schema that fits the one revision and leaves one that fits the other
(`ScriptMoves`). That leaves one small fact for each of the 28 scripts and, above 0007, for
each of their downgrades (`UpgradesFollow`, `DowngradesFollow`). Of the rows it is enough
to know their types: whatever events there are, those that 0016 keeps are still distinct when
it has remapped them (`RowsOfUpgrades`). That a command which meets an older schema's limits is
refused for rows that stay there needs that its transaction has not changed them
(`CommandOK`: the levels down to 0014, the archived episode down to 0021). `MigInv` is all of it for the database, for the transaction of the
command that runs (`CommandOK`), and for the outcome of the last one; `SchemasFit` proves
it, and `NoUpgradeFails`, `OnlyRowsRefuse` and `NewestFitsModels` follow, for any jobs and
any set of installed releases.

**`GraphRetrievalProofs`.** Each kind of read has its part of the invariant `Inv`, and each
action keeps it.
*Pages:* what is there all the time and not beyond the cursor is on one of the pages read so
far, and nothing on them is beyond it (`PagingOK`). The step is `PageUpToCursor`: a page
and its cursor are all the rows up to the cursor and no others (`NoGaps`), whatever came
or went before it.
*Traversals:* the nodes of a path all have paths themselves (`Leads`), so a step to a node
without one never closes a circle.
*Walks:* what a walk has found is a tree around its root whose nodes have a level
(`Tree`); `path_ids` goes up one level with each turn (`Climbs`), hence ends at the root and
meets no node twice, also when relations and nodes have gone meanwhile. For completeness
`Searched` says what is done after k rounds: the frontier is the level k, and from every
level below it each step along a relation stays inside (`Closed`); within a round it holds
but for the rows still to be visited. A trail of d steps therefore never leaves what was
found in d rounds (`TrailsStayInside`), and the level of the target is its distance.
*Fusion:* a rank's part of a score falls with the rank (`PartFalls`), for rankings of any
length; the place of a chunk is the number of those ahead of it, so that who is ahead of
the better one is ahead of the worse (`FuseKeeps`).

The induction these proofs need (over the steps of a trail, and for the greatest and
least row) is one over sets of natural numbers: `Least` follows from the well-foundedness
of `<`, and `Counting` says that a set with 0 that is closed under + 1 has every number.

Assumptions on constants are the named `ASSUME`s of the modules: the null value is not a
member of its set, limits are positive naturals, `Operations` are endpoints;
`ContentsAssumption` (a syntax node lies in a declaration or in the file, as the
extractors' recursion gives it), `GraphAssumption` (finitely many rows, a relation has two
ends, as its foreign keys demand), `LimitsAssumption` (what the parameters of the routes
allow), `InstalledAssumption` (a database is installed with a release that exists),
`RanksAssumption` (`Common` is a unit in which every score is a whole number).

**Only model-checked:** the liveness properties `QueuedJobsEnd` and `GraphJobsEnd`, since
TLAPS does not prove liveness under fairness. Each of the other properties of the passing
runs is stated by a theorem.

## 5. Assumptions

* A commit that returns has happened and one that raises has not.
* PostgreSQL runs at READ COMMITTED; row locks are those of `FOR UPDATE`, of writes and of foreign keys.
* arq's in-progress mark of a dead worker may expire at once. Entries are delivered in
  any order.
* Batches take every eligible row (the limit of 100 only delays).
* The job's own attempt counter and the stage events of indexing, which no guard reads,
  are left out.
* No document is deleted in the two pipelines: the branches for missing rows are those
  of `EvidenceGraph`, where at most one execution of each job is under way.
* Identifiers that are hashes are the tuples they are hashes of: no two collide.

## 6. Not modelled

* **In modelled components.** Validation of requests, authentication and rate limits;
  two inserts of one content at once (a document is its content); stage events and the
  attempt counter of indexing; the batch limit of the loops; aliases and their evidence,
  the merge history and the audit record of a cleanup; versions, confidence values,
  verifiers and evidence of episodes; the expiry of idempotency keys
  (`cleanup_expired_keys` has no caller); holds on entity types nothing checks; searches,
  summaries and citations, which read one statement; the communities (Louvain, a library);
  keyword and vector scores; downgrades below 0007, where types shared by tables of
  the models decide; AST chunks, which nothing stores.
* **Parsing, chunking, extraction core.** Functions of bytes and text without state:
  parsers are third-party calls, prompts and the reading of responses are data
  transformations. `EvidenceGraph` takes any result the schema allows,
  `CodebaseIngest` any syntax nodes.
* **Plugin registry, projects and authentication, service shell, SDK, dashboard,
  deployment, evaluation, scripts.** Registered once, single-row requests, configuration,
  clients and operations: no state that two actors meet in. What a repeated or retried
  request of a client meets is in `MemoryStore` and `CodebaseIngest`.

Work that remains worthwhile: an abstract durable job that both pipelines implement, and
their composition over one document's status, of which `EvidenceGraph` now holds the
coarse form; the windows of the chunker and the batches of the extraction as pure
algorithms.
