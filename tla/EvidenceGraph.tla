--------------------------- MODULE EvidenceGraph ---------------------------
(***************************************************************************)
(* One dataset: its documents and their objects in the object store, the   *)
(* chunks the indexing worker persists, and the knowledge graph extracted  *)
(* from them: canonical entities, relation assertions, and the evidence    *)
(* rows that tie each of them to a chunk.  An alias is one more piece of    *)
(* evidence for its entity; the alias tables are left out.                 *)
(*                                                                         *)
(*   apps/api/app/documents.py        upload, delete_document              *)
(*   apps/api/app/datasets.py         delete                               *)
(*   apps/api/app/ingestion.py        run_ingestion (its transactions on   *)
(*                                    the document and its chunks)         *)
(*   apps/api/app/graph/pipeline.py   _persist_chunk_result,               *)
(*                                    consolidate_document                 *)
(*   apps/api/app/graph/gc.py         cleanup_document_graph               *)
(*   apps/api/app/graph/analytics.py  refresh_dataset_analytics            *)
(*   apps/api/app/graph/service.py    build_explorer_view                  *)
(*   apps/api/app/graph/api.py        review_relation                      *)
(*   apps/api/app/graph/models.py     the foreign keys                     *)
(*                                                                         *)
(* Each action is one committed transaction, or one call of the object     *)
(* store.  Jobs, leases and queues are the subject of IndexingPipeline and *)
(* GraphJobs; here a job is its status, and at most one execution of each  *)
(* job is under way.                                                       *)
(***************************************************************************)
EXTENDS FiniteSets, Integers

CONSTANTS
    Documents,      \* content hashes, hence documents
    ChunkNumbers,   \* the chunks the chunker makes of every document
    Entities,       \* (normalized name, normalized type): canonical entities
    Relations,      \* <<source, target>> pairs of one relation type
    NoSnapshot,     \* no analytics run yet
    MaxFaults,      \* bound on failing calls, failing executions and crashes
    MaxExtractions, \* bound on the executions of graph jobs
    MaxRequests     \* bound on delete and refresh requests

ASSUME RelationsAssumption ==
    /\ Relations \subseteq Entities \X Entities
    /\ \A r \in Relations : r[1] # r[2]     \* ck source_entity_id <> target_entity_id
    /\ Entities \intersect Relations = {}

ASSUME BoundsAssumption == {MaxFaults, MaxExtractions, MaxRequests} \subseteq Nat

Chunks == Documents \X ChunkNumbers
ChunksOf(d) == {d} \X ChunkNumbers
Subjects == Entities \union Relations

Evidence == Chunks \X Subjects        \* rows of graph_evidence: a chunk quoted for a subject
Snapshots == [entities : SUBSET Entities, relations : SUBSET Relations]

VARIABLES
    \* documents, the object store and the requests that are under way
    status,         \* documents.status, "absent" when there is no row
    stage,          \* documents.graph_stage
    objects,        \* documents whose object is in the store
    uploading,      \* uploads that hold the document's row lock, the object stored
    deleting,       \* delete requests: none, marked, objectGone
    dataset,        \* active, deleting (a request is under way), interrupted, failed, gone
    datasetTodo,    \* documents the dataset's delete request still has to delete
    \* jobs
    indexJob,       \* indexing_jobs.status, "none" when there is no row
    graphJob,       \* graph_extraction_jobs.status
    extraction,     \* the execution of a graph job: idle, chunks, consolidated, refreshed
    faults,         \* failures and crashes so far, the late failures of indexing apart
    lateFailures,   \* late failures of indexing so far
    extractions,    \* executions of graph jobs so far
    requests,       \* delete and refresh requests so far
    \* the graph
    chunkRows,      \* chunks
    run,            \* graph_extraction_runs.status per chunk
    consolidation,  \* status of the consolidation run of the document's present extraction
    entities,       \* canonical_entities
    relations,      \* relation_assertions
    review,         \* relation_assertions.review_state; unreviewed and needs_review are open
    evidence,       \* graph_evidence
    \* analytics
    snapshots,      \* snapshots that have a graph_analytics_runs row
    latest          \* the snapshot of the newest row

documentVars == <<status, stage, objects, uploading, deleting, dataset, datasetTodo>>
boundVars == <<faults, lateFailures, extractions, requests>>
jobVars == <<indexJob, graphJob, extraction, boundVars>>
factVars == <<entities, relations, review, evidence>>
graphVars == <<chunkRows, run, consolidation, entities, relations, review, evidence>>
analyticsVars == <<snapshots, latest>>
vars == <<status, stage, objects, uploading, deleting, dataset, datasetTodo,
          indexJob, graphJob, extraction, faults, lateFailures, extractions,
          requests, chunkRows, run, consolidation,
          entities, relations, review, evidence, snapshots, latest>>

TypeOK ==
    /\ status \in [Documents -> {"absent", "storage_failed", "queued", "persisting", "indexed",
                                 "failed", "deleting", "delete_failed"}]
    /\ stage \in [Documents -> {"none", "queued", "extracting", "complete", "failed"}]
    /\ objects \subseteq Documents
    /\ uploading \subseteq Documents
    /\ deleting \in [Documents -> {"none", "marked", "objectGone"}]
    /\ dataset \in {"active", "deleting", "interrupted", "failed", "gone"}
    /\ datasetTodo \subseteq Documents
    /\ indexJob \in [Documents -> {"none", "queued", "running", "succeeded", "failed"}]
    /\ graphJob \in [Documents -> {"none", "queued", "running", "succeeded", "failed"}]
    /\ extraction \in [Documents -> {"idle", "chunks", "consolidated", "refreshed"}]
    /\ faults \in 0..MaxFaults
    /\ lateFailures \in 0..MaxFaults
    /\ extractions \in 0..MaxExtractions
    /\ requests \in 0..MaxRequests
    /\ chunkRows \subseteq Chunks
    /\ run \in [Chunks -> {"none", "running", "succeeded", "failed"}]
    /\ consolidation \in [Documents -> {"none", "failed", "succeeded"}]
    /\ entities \subseteq Entities
    /\ relations \subseteq Relations
    /\ review \in [Relations -> {"open", "approved", "rejected"}]
    /\ evidence \subseteq Evidence
    /\ snapshots \subseteq Snapshots
    /\ latest \in Snapshots \union {NoSnapshot}

Init ==
    /\ status = [d \in Documents |-> "absent"]
    /\ stage = [d \in Documents |-> "none"]
    /\ objects = {}
    /\ uploading = {}
    /\ deleting = [d \in Documents |-> "none"]
    /\ dataset = "active" /\ datasetTodo = {}
    /\ indexJob = [d \in Documents |-> "none"]
    /\ graphJob = [d \in Documents |-> "none"]
    /\ extraction = [d \in Documents |-> "idle"]
    /\ faults = 0 /\ lateFailures = 0 /\ extractions = 0 /\ requests = 0
    /\ chunkRows = {}
    /\ run = [c \in Chunks |-> "none"]
    /\ consolidation = [d \in Documents |-> "none"]
    /\ entities = {} /\ relations = {} /\ evidence = {}
    /\ review = [r \in Relations |-> "open"]
    /\ snapshots = {} /\ latest = NoSnapshot

Fault == faults + lateFailures < MaxFaults /\ faults' = faults + 1
Request == requests < MaxRequests /\ requests' = requests + 1

-----------------------------------------------------------------------------
(* What the graph says *)

DocumentOf(e) == e[1][1]
EvidenceOf(d) == {e \in evidence : DocumentOf(e) = d}
Cited(x) == \E e \in evidence : e[2] = x

\* helpers.supported_relation and analytics.analytics_relation
SupportedRelations ==
    {r \in relations : review[r] # "rejected" /\ (review[r] = "approved" \/ Cited(r))}

\* helpers.supported_entity: no endpoint of this program reviews an entity
SupportedEntities ==
    {x \in entities : \/ Cited(x)
                      \/ \E r \in relations : /\ Cited(r)
                                              /\ review[r] # "rejected"
                                              /\ x \in {r[1], r[2]}}

\* serialize: what a client is told of an INDEXED document
ReportedComplete(d) == status[d] = "indexed" /\ stage[d] = "complete"

\* There is a row, and no upload holds its lock (SELECT ... FOR UPDATE).
Present(d) == status[d] # "absent" /\ d \notin uploading

-----------------------------------------------------------------------------
(* Cascades and collection *)

\* ON DELETE CASCADE from chunks
Uncascaded(cs) == {e \in evidence : e[1] \notin cs}

\* cleanup_document_graph, on the evidence ev its transaction sees: the
\* evidence of d goes, then what that evidence supported and nothing supports
\* any more.  No statement of the program writes entity_merge_history, whose
\* rows would protect an entity.
Collect(d, ev) ==
    LET seen == {e \in ev : DocumentOf(e) = d}
        left == ev \ seen
        SupportedIn(x) == \E e \in left : e[2] = x
        affected == {e[2] : e \in seen}
        relations1 == {r \in relations : r \notin affected \/ SupportedIn(r)}
        candidates == (affected \intersect Entities)
                        \union {x \in Entities : \E r \in relations1 \intersect affected :
                                                        x \in {r[1], r[2]}}
        unsupported == {x \in candidates : /\ ~SupportedIn(x)
                                           /\ \A r \in relations1 : x \notin {r[1], r[2]}}
    IN  [evidence |-> left,
         relations |-> relations1,
         entities |-> entities \ unsupported]

\* *Mutant:* the collection runs before the cascade has removed the evidence.
CollectBeforeCascade(d) == Collect(d, evidence)

\* run_ingestion and delete_document remove the chunks first: the foreign key
\* removes their evidence, and the collection sees what is left.
CascadeAndCollect(d) == Collect(d, Uncascaded(ChunksOf(d)))

FactsBecome(g) ==
    /\ evidence' = g.evidence
    /\ relations' = g.relations
    /\ review' = [r \in Relations |-> IF r \in g.relations THEN review[r] ELSE "open"]
    /\ entities' = g.entities

ForgetRuns(d) ==
    /\ run' = [c \in Chunks |-> IF c \in ChunksOf(d) THEN "none" ELSE run[c]]
    /\ consolidation' = [consolidation EXCEPT ![d] = "none"]

-----------------------------------------------------------------------------
(* Upload *)

InProgress == {"queued", "persisting", "indexed"}

MayUpload(d) == dataset # "gone" /\ d \notin uploading /\ status[d] \notin InProgress

\* The row is inserted or locked, and the object stored.  An upload of a
\* document in progress is answered as a duplicate and changes nothing.
StoreObject(d) ==
    /\ MayUpload(d)
    /\ uploading' = uploading \union {d}
    /\ objects' = objects \union {d}
    /\ UNCHANGED <<status, stage, deleting, dataset, datasetTodo, jobVars, graphVars,
                   analyticsVars>>

StoreFails(d) ==
    /\ MayUpload(d) /\ Fault
    /\ status' = [status EXCEPT ![d] = "storage_failed"]
    /\ UNCHANGED <<stage, objects, uploading, deleting, dataset, datasetTodo, indexJob, graphJob,
                   extraction, lateFailures, extractions, requests, graphVars, analyticsVars>>

\* enqueue_document and the commit: a document whose indexing job succeeded
\* is INDEXED at once, and its graph job is left as it is.
CommitUpload(d) ==
    /\ d \in uploading
    /\ uploading' = uploading \ {d}
    /\ IF indexJob[d] = "succeeded"
       THEN /\ status' = [status EXCEPT ![d] = "indexed"]
            /\ UNCHANGED indexJob
       ELSE /\ status' = [status EXCEPT ![d] = "queued"]
            /\ indexJob' = [indexJob EXCEPT ![d] = IF @ \in {"none", "failed"} THEN "queued"
                                                                               ELSE @]
    /\ UNCHANGED <<stage, objects, deleting, dataset, datasetTodo, graphJob, extraction,
                   boundVars, graphVars, analyticsVars>>

\* The request dies with its transaction; an object already stored stays.
UploadCrashes(d) ==
    /\ d \in uploading /\ Fault
    /\ uploading' = uploading \ {d}
    /\ UNCHANGED <<status, stage, objects, deleting, dataset, datasetTodo, indexJob, graphJob,
                   extraction, lateFailures, extractions, requests, graphVars, analyticsVars>>

-----------------------------------------------------------------------------
(* Indexing: the transactions of run_ingestion on the document *)

\* Claim, read the object, parse, chunk.  The worker's stage commits overwrite
\* whatever status the row has, DELETING included.
StartIndexing(d) ==
    /\ Present(d) /\ indexJob[d] = "queued"
    /\ IF d \in objects
       THEN /\ indexJob' = [indexJob EXCEPT ![d] = "running"]
            /\ status' = [status EXCEPT ![d] = "persisting"]
       ELSE /\ indexJob' = [indexJob EXCEPT ![d] = "failed"]
            /\ status' = [status EXCEPT ![d] = "failed"]
    /\ UNCHANGED <<stage, objects, uploading, deleting, dataset, datasetTodo, graphJob,
                   extraction, boundVars, graphVars, analyticsVars>>

\* The chunks are replaced, the graph collected, the graph job queued.  The
\* session wrote PERSISTING before, so its flush does not write status again.
PersistChunks(d) ==
    /\ Present(d) /\ indexJob[d] = "running"
    /\ FactsBecome(CascadeAndCollect(d))
    /\ ForgetRuns(d)
    /\ chunkRows' = chunkRows \union ChunksOf(d)
    /\ indexJob' = [indexJob EXCEPT ![d] = "succeeded"]
    /\ graphJob' = [graphJob EXCEPT ![d] = "queued"]
    /\ stage' = [stage EXCEPT ![d] = "queued"]
    /\ UNCHANGED <<status, objects, uploading, deleting, dataset, datasetTodo, extraction,
                   boundVars, analyticsVars>>

IndexingFails(d) ==
    /\ Present(d) /\ indexJob[d] = "running" /\ Fault
    /\ indexJob' = [indexJob EXCEPT ![d] = "failed"]
    /\ status' = [status EXCEPT ![d] = "failed"]
    /\ UNCHANGED <<stage, objects, uploading, deleting, dataset, datasetTodo, graphJob,
                   extraction, lateFailures, extractions, requests, graphVars, analyticsVars>>

\* An execution that lost its job to a redelivery fails after the other one
\* has succeeded (IndexingPipeline has the steps that lead there).
LateIndexFailure(d) ==
    /\ Present(d) /\ indexJob[d] = "succeeded" /\ faults + lateFailures < MaxFaults
    /\ lateFailures' = lateFailures + 1
    /\ indexJob' = [indexJob EXCEPT ![d] = "failed"]
    /\ status' = [status EXCEPT ![d] = "failed"]
    /\ UNCHANGED <<stage, objects, uploading, deleting, dataset, datasetTodo, graphJob,
                   extraction, faults, extractions, requests, graphVars, analyticsVars>>

-----------------------------------------------------------------------------
(* Extraction: execute_graph_job and extract_document *)

Running(d) == Present(d) /\ extraction[d] # "idle"

StartExtraction(d) ==
    /\ Present(d) /\ graphJob[d] = "queued" /\ extraction[d] = "idle"
    /\ status[d] \in {"indexed", "persisting"}
    /\ extractions < MaxExtractions
    /\ extractions' = extractions + 1
    /\ graphJob' = [graphJob EXCEPT ![d] = "running"]
    /\ extraction' = [extraction EXCEPT ![d] = "chunks"]
    /\ stage' = [stage EXCEPT ![d] = "extracting"]
    /\ UNCHANGED <<status, objects, uploading, deleting, dataset, datasetTodo, indexJob, faults,
                   lateFailures, requests, graphVars, analyticsVars>>

\* _ensure_running_run, committed before the model is called.
StartRun(c) ==
    /\ Running(c[1]) /\ extraction[c[1]] = "chunks"
    /\ c \in chunkRows /\ run[c] \in {"none", "failed"}
    /\ run' = [run EXCEPT ![c] = "running"]
    /\ UNCHANGED <<documentVars, jobVars, chunkRows, consolidation, factVars, analyticsVars>>

\* The model names the entities es and the relations rs; those whose quotes
\* are not in the chunk are already skipped, a relation whose endpoints are
\* not among the chunk's entities is skipped here.
ExtractedFacts(c, es, rs) ==
    {c} \X (es \union {r \in rs : {r[1], r[2]} \subseteq es})

\* *Mutant:* the rows are written anew, the review state included.
RowsAreAdded(new) ==
    LET subjects == {e[2] : e \in new}
    IN  /\ entities' = entities \union (subjects \intersect Entities)
        /\ relations' = relations \union (subjects \intersect Relations)
        /\ evidence' = evidence \union new
        /\ review' = [r \in Relations |-> IF r \in subjects THEN "open" ELSE review[r]]

\* Rows found by their deterministic id are left as they are.
AddRows(new) ==
    LET subjects == {e[2] : e \in new}
    IN  /\ entities' = entities \union (subjects \intersect Entities)
        /\ relations' = relations \union (subjects \intersect Relations)
        /\ evidence' = evidence \union new
        /\ UNCHANGED review

\* _persist_chunk_result, in the commit of the chunk's batch: a run deleted
\* with its chunk makes the flush fail instead.
FinishRun(c) ==
    /\ Running(c[1]) /\ extraction[c[1]] = "chunks"
    /\ run[c] = "running"
    /\ \E es \in SUBSET Entities, rs \in SUBSET Relations : AddRows(ExtractedFacts(c, es, rs))
    /\ run' = [run EXCEPT ![c] = "succeeded"]
    /\ UNCHANGED <<documentVars, jobVars, chunkRows, consolidation, analyticsVars>>

\* _persist_consolidation_output resolves names among the entities the
\* document has evidence for.
\* *Mutant:* among all the entities of the dataset.
DatasetEntities(d) == entities

DocumentEntities(d) == {x \in entities : \E e \in EvidenceOf(d) : e[2] = x}

Resolves(d, r) == {r[1], r[2]} \subseteq DocumentEntities(d)

\* The relations the model proposes for the document, each quoted from one of
\* its chunks; only those that resolve are written.
PersistConsolidation(d) ==
    \E c \in ChunksOf(d), rs \in SUBSET Relations :
        /\ \A r \in rs : Resolves(d, r)
        /\ AddRows({c} \X rs)

\* *Mutant:* the document is consolidated whatever became of its chunks.
ConsolidationEager(d) ==
    /\ Running(d) /\ extraction[d] = "chunks"
    /\ ChunksOf(d) \subseteq chunkRows

ConsolidationReady(d) ==
    /\ Running(d) /\ extraction[d] = "chunks"
    /\ ChunksOf(d) \subseteq chunkRows
    /\ \A c \in ChunksOf(d) : run[c] = "succeeded"

Consolidate(d) ==
    /\ ConsolidationReady(d) /\ consolidation[d] # "succeeded"
    /\ PersistConsolidation(d)
    /\ consolidation' = [consolidation EXCEPT ![d] = "succeeded"]
    /\ extraction' = [extraction EXCEPT ![d] = "consolidated"]
    /\ UNCHANGED <<documentVars, indexJob, graphJob, boundVars, chunkRows, run, analyticsVars>>

\* A consolidation that succeeded before is persisted again, which finds every
\* row there.
ConsolidateAgain(d) ==
    /\ ConsolidationReady(d) /\ consolidation[d] = "succeeded"
    /\ extraction' = [extraction EXCEPT ![d] = "consolidated"]
    /\ UNCHANGED <<documentVars, indexJob, graphJob, boundVars, graphVars, analyticsVars>>

\* *Mutant:* every run of the document fails with the attempt.
EndAttemptAndRuns(d) ==
    /\ Present(d)
    /\ extraction' = [extraction EXCEPT ![d] = "idle"]
    /\ run' = [c \in Chunks |-> IF c \in ChunksOf(d) THEN "failed" ELSE run[c]]
    /\ graphJob' = [graphJob EXCEPT ![d] = "queued"]
    /\ UNCHANGED <<status, stage>>

\* The attempt ends: the runs it started are failed; the job waits for its
\* next attempt, or has had its last one and fails with its document.
EndAttempt(d) ==
    /\ Present(d)
    /\ extraction' = [extraction EXCEPT ![d] = "idle"]
    /\ run' = [c \in Chunks |-> IF c \in ChunksOf(d) /\ run[c] = "running" THEN "failed"
                                                                         ELSE run[c]]
    /\ \/ /\ graphJob' = [graphJob EXCEPT ![d] = "queued"]
          /\ UNCHANGED <<status, stage>>
       \/ /\ graphJob' = [graphJob EXCEPT ![d] = "failed"]
          /\ status' = [status EXCEPT ![d] = "failed"]
          /\ stage' = [stage EXCEPT ![d] = "failed"]

ExtractionFails(d) ==
    /\ extraction[d] # "idle" /\ Fault
    /\ EndAttempt(d)
    /\ UNCHANGED <<objects, uploading, deleting, dataset, datasetTodo, indexJob, lateFailures,
                   extractions, requests, chunkRows, consolidation, factVars, analyticsVars>>

\* A relation does not resolve: the rows written before it are committed with
\* the FAILED run, and the attempt fails.
ConsolidationFails(d) ==
    /\ ConsolidationReady(d) /\ consolidation[d] # "succeeded" /\ Fault
    /\ PersistConsolidation(d)
    /\ consolidation' = [consolidation EXCEPT ![d] = "failed"]
    /\ EndAttempt(d)
    /\ UNCHANGED <<objects, uploading, deleting, dataset, datasetTodo, indexJob, lateFailures,
                   extractions, requests, chunkRows, analyticsVars>>

-----------------------------------------------------------------------------
(* Analytics *)

\* *Mutant:* the refresh reads the entities of the relations only.
ConnectedSnapshot ==
    [entities |-> {x \in entities : \E r \in SupportedRelations : x \in {r[1], r[2]}},
     relations |-> SupportedRelations]

\* refresh_dataset_analytics reads every entity and the analytics relations ...
CurrentSnapshot == [entities |-> entities, relations |-> SupportedRelations]

\* ... and returns the existing run of that snapshot when there is one.
Refresh ==
    /\ snapshots' = snapshots \union {CurrentSnapshot}
    /\ latest' = IF CurrentSnapshot \in snapshots THEN latest ELSE CurrentSnapshot

\* build_explorer_view: the newest run is stale unless it is the run of the
\* supported entities and relations; its nodes are joined with that run's.
ExplorerSnapshot == [entities |-> SupportedEntities, relations |-> SupportedRelations]
Stale == latest = NoSnapshot \/ latest # ExplorerSnapshot
ExplorerNodes == IF latest = NoSnapshot THEN SupportedEntities
                                        ELSE SupportedEntities \intersect latest.entities

\* POST .../analytics/refresh
RefreshRequest ==
    /\ dataset # "gone" /\ Request
    /\ Refresh
    /\ UNCHANGED <<documentVars, indexJob, graphJob, extraction, faults, lateFailures,
                   extractions, graphVars>>

RefreshAfterExtraction(d) ==
    /\ Running(d) /\ extraction[d] = "consolidated"
    /\ Refresh
    /\ extraction' = [extraction EXCEPT ![d] = "refreshed"]
    /\ UNCHANGED <<documentVars, indexJob, graphJob, boundVars, graphVars>>

\* The last transaction of execute_graph_job asks only whether the rows exist.
CompleteExtraction(d) ==
    /\ Running(d) /\ extraction[d] = "refreshed"
    /\ extraction' = [extraction EXCEPT ![d] = "idle"]
    /\ graphJob' = [graphJob EXCEPT ![d] = "succeeded"]
    /\ status' = [status EXCEPT ![d] = "indexed"]
    /\ stage' = [stage EXCEPT ![d] = "complete"]
    /\ UNCHANGED <<objects, uploading, deleting, dataset, datasetTodo, indexJob, boundVars,
                   graphVars, analyticsVars>>

-----------------------------------------------------------------------------
(* Review *)

\* A request refuses a decided relation, but reads it without a lock: one that
\* read the open row decides it again when its commit comes late.
ReviewRelation(r) ==
    /\ r \in relations
    /\ \E decision \in {"approved", "rejected"} : review' = [review EXCEPT ![r] = decision]
    /\ UNCHANGED <<documentVars, jobVars, chunkRows, run, consolidation, entities, relations,
                   evidence, analyticsVars>>

-----------------------------------------------------------------------------
(* Deletion.  One delete request of a document is under way at a time, and   *)
(* none beside a delete request of the dataset.                              *)

Marked(d) ==
    /\ status' = [status EXCEPT ![d] = "deleting"]
    /\ deleting' = [deleting EXCEPT ![d] = "marked"]

\* The row's status is committed before the object is deleted.
MarkDeleting(d) ==
    /\ Present(d) /\ deleting[d] = "none" /\ dataset # "deleting" /\ Request
    /\ Marked(d)
    /\ UNCHANGED <<stage, objects, uploading, dataset, datasetTodo, indexJob, graphJob,
                   extraction, faults, lateFailures, extractions, graphVars, analyticsVars>>

\* Either request: the object store is called outside the transaction.
DeleteObject(d) ==
    /\ deleting[d] = "marked"
    /\ objects' = objects \ {d}
    /\ deleting' = [deleting EXCEPT ![d] = "objectGone"]
    /\ UNCHANGED <<status, stage, uploading, dataset, datasetTodo, jobVars, graphVars,
                   analyticsVars>>

\* A dataset's request ends with the first object it cannot delete.
DeleteObjectFails(d) ==
    /\ deleting[d] = "marked" /\ Present(d) /\ Fault
    /\ status' = [status EXCEPT ![d] = "delete_failed"]
    /\ deleting' = [deleting EXCEPT ![d] = "none"]
    /\ dataset' = IF d \in datasetTodo THEN "failed" ELSE dataset
    /\ datasetTodo' = IF d \in datasetTodo THEN {} ELSE datasetTodo
    /\ UNCHANGED <<stage, objects, uploading, indexJob, graphJob, extraction, lateFailures,
                   extractions, requests, graphVars, analyticsVars>>

\* The row goes, and with it its jobs, chunks and runs; an execution under way
\* finds neither its job nor its chunks and writes nothing more.
RowGoes(d) ==
    /\ status' = [status EXCEPT ![d] = "absent"]
    /\ stage' = [stage EXCEPT ![d] = "none"]
    /\ deleting' = [deleting EXCEPT ![d] = "none"]
    /\ indexJob' = [indexJob EXCEPT ![d] = "none"]
    /\ graphJob' = [graphJob EXCEPT ![d] = "none"]
    /\ extraction' = [extraction EXCEPT ![d] = "idle"]
    /\ chunkRows' = chunkRows \ ChunksOf(d)
    /\ ForgetRuns(d)

DeleteRow(d) ==
    /\ deleting[d] = "objectGone" /\ Present(d) /\ d \notin datasetTodo
    /\ RowGoes(d)
    /\ FactsBecome(CascadeAndCollect(d))
    /\ UNCHANGED <<objects, uploading, dataset, datasetTodo, boundVars, analyticsVars>>

\* The request's process dies between two of its transactions.
DeleteCrashes(d) ==
    /\ deleting[d] # "none" /\ Fault
    /\ deleting' = [deleting EXCEPT ![d] = "none"]
    /\ dataset' = IF d \in datasetTodo THEN "interrupted" ELSE dataset
    /\ datasetTodo' = IF d \in datasetTodo THEN {} ELSE datasetTodo
    /\ UNCHANGED <<status, stage, objects, uploading, indexJob, graphJob, extraction,
                   lateFailures, extractions, requests, graphVars, analyticsVars>>

\* The dataset is found by its normalized id, its documents by the id as given:
\* without the prefix that finds none of them.
StartDatasetDeletion ==
    /\ dataset \in {"active", "interrupted", "failed"} /\ Request
    /\ \A d \in Documents : deleting[d] = "none"
    /\ dataset' = "deleting"
    /\ datasetTodo' \in {{}, {d \in Documents : status[d] # "absent"}}
    /\ UNCHANGED <<status, stage, objects, uploading, deleting, indexJob, graphJob, extraction,
                   faults, lateFailures, extractions, graphVars, analyticsVars>>

MarkNext(d) ==
    /\ d \in datasetTodo /\ \A x \in Documents : deleting[x] = "none"
    /\ Present(d)
    /\ Marked(d)
    /\ UNCHANGED <<stage, objects, uploading, dataset, datasetTodo, jobVars, graphVars,
                   analyticsVars>>

\* The cascade without a collection.
DeleteNextRow(d) ==
    /\ d \in datasetTodo /\ deleting[d] = "objectGone" /\ Present(d)
    /\ RowGoes(d)
    /\ evidence' = Uncascaded(ChunksOf(d))
    /\ datasetTodo' = datasetTodo \ {d}
    /\ UNCHANGED <<objects, uploading, dataset, boundVars, entities, relations, review,
                   analyticsVars>>

\* The dataset's row goes and everything that hangs on it, documents uploaded
\* meanwhile included.
DeleteDatasetRow ==
    /\ dataset = "deleting" /\ datasetTodo = {}
    /\ uploading = {}
    /\ dataset' = "gone"
    /\ status' = [d \in Documents |-> "absent"]
    /\ stage' = [d \in Documents |-> "none"]
    /\ deleting' = [d \in Documents |-> "none"]
    /\ indexJob' = [d \in Documents |-> "none"]
    /\ graphJob' = [d \in Documents |-> "none"]
    /\ extraction' = [d \in Documents |-> "idle"]
    /\ chunkRows' = {}
    /\ run' = [c \in Chunks |-> "none"]
    /\ consolidation' = [d \in Documents |-> "none"]
    /\ entities' = {} /\ relations' = {} /\ evidence' = {}
    /\ review' = [r \in Relations |-> "open"]
    /\ snapshots' = {} /\ latest' = NoSnapshot
    /\ UNCHANGED <<objects, uploading, datasetTodo, boundVars>>

\* relation_assertions restrict the deletion of their entities: the cascade of a
\* dataset with relations may be refused, and the request answers 500.
DatasetRowStays ==
    /\ dataset = "deleting" /\ datasetTodo = {} /\ relations # {}
    /\ dataset' = "interrupted"
    /\ UNCHANGED <<status, stage, objects, uploading, deleting, datasetTodo, jobVars, graphVars,
                   analyticsVars>>

-----------------------------------------------------------------------------
UploadStep(d) == StoreObject(d) \/ StoreFails(d) \/ CommitUpload(d) \/ UploadCrashes(d)
IndexingStep(d) == StartIndexing(d) \/ PersistChunks(d) \/ IndexingFails(d)
                     \/ LateIndexFailure(d)
ExtractionStep(d) ==
    \/ StartExtraction(d) \/ Consolidate(d) \/ ConsolidateAgain(d) \/ ConsolidationFails(d)
    \/ ExtractionFails(d) \/ RefreshAfterExtraction(d) \/ CompleteExtraction(d)
    \/ \E c \in ChunksOf(d) : StartRun(c) \/ FinishRun(c)
DeletionStep(d) ==
    \/ MarkDeleting(d) \/ DeleteObject(d) \/ DeleteObjectFails(d) \/ DeleteRow(d)
    \/ DeleteCrashes(d) \/ MarkNext(d) \/ DeleteNextRow(d)

Next ==
    \/ \E d \in Documents : UploadStep(d) \/ IndexingStep(d) \/ ExtractionStep(d) \/ DeletionStep(d)
    \/ \E r \in Relations : ReviewRelation(r)
    \/ RefreshRequest
    \/ StartDatasetDeletion \/ DeleteDatasetRow \/ DatasetRowStays

Spec == Init /\ [][Next]_vars

-----------------------------------------------------------------------------
(* Properties *)

\* A relation the document's evidence supports has both its endpoints supported
\* by evidence of the same document: extraction skips relations whose endpoints
\* the chunk does not name (_persist_chunk_result), consolidation resolves names
\* among the document's entities (_persist_consolidation_output), and what
\* removes evidence removes all of the document's.
CitedEndpoints ==
    \A e \in evidence : e[2] \in Relations =>
        /\ e[2] \in relations
        /\ \A x \in {e[2][1], e[2][2]} : \E f \in EvidenceOf(DocumentOf(e)) : f[2] = x

\* No evidence of a chunk that is gone, is being extracted again, or whose
\* extraction failed: re-indexing and deletion cascade, and the failure
\* bookkeeping of extract_document spares the runs that succeeded.
EvidenceOfSucceededRuns ==
    \A e \in evidence : e[1] \in chunkRows /\ run[e[1]] = "succeeded"

\* A document reported INDEXED with a complete graph has all of it, however
\* uploads, deletions, retries and reviews interleave (documents.serialize):
\* an upload that finds the indexing job succeeded sets INDEXED at once
\* (enqueue_document), whatever its graph job is doing.  A late failure of
\* indexing breaks this: the upload after it indexes the document again beside
\* the extraction that still runs.
ReportedCompleteIsComplete ==
    lateFailures = 0 =>
        \A d \in Documents : ReportedComplete(d) =>
            /\ \A c \in ChunksOf(d) : c \in chunkRows /\ run[c] = "succeeded"
            /\ consolidation[d] = "succeeded"

\* What cleanup_document_graph promises, to remove what a document leaves
\* unsupported, never happens: it runs after the cascade that removed the
\* evidence it looks for, so entities and relations only ever accumulate.
NothingIsCollected ==
    [][dataset' = "gone" \/ (entities \subseteq entities' /\ relations \subseteq relations')]_vars

\* A reviewer's decision outlives re-extraction, re-indexing and deletion of the
\* documents that gave the relation its evidence: rows are found by their
\* deterministic id, and only another reviewer changes the decision.
DecisionsStay ==
    [][\A r \in Relations : review[r] # "open" =>
            \/ review'[r] = review[r]
            \/ dataset' = "gone"
            \/ review'[r] # "open" /\ UNCHANGED <<documentVars, evidence>>]_vars

\* After a refresh the explorer hides no supported entity, though the refresh
\* may return an older run than the newest one, whose nodes the explorer shows
\* (refresh_dataset_analytics, build_explorer_view).
RefreshShowsAll ==
    [][RefreshRequest \/ (\E d \in Documents : RefreshAfterExtraction(d))
            => SupportedEntities' \subseteq ExplorerNodes']_vars
=============================================================================
