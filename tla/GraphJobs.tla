------------------------------ MODULE GraphJobs ------------------------------
(***************************************************************************)
(* The graph stage of a document: ingestion commits a graph job and its     *)
(* outbox row with the chunks, the maintenance loops publish the row, and a *)
(* worker that arq gives the job extracts the chunks in groups, projects    *)
(* the graph and reports the end on the document.                          *)
(*                                                                         *)
(* One action is one committed transaction, or one call to Redis, of       *)
(*   apps/api/app/graph/dispatch.py  (outbox, lease, execute_graph_job)    *)
(*   apps/api/app/graph/pipeline.py  (extract_document)                    *)
(*   apps/api/app/arq_worker.py      (task_extract_graph)                  *)
(* A job runs under a lease that a heartbeat renews; every attempt is       *)
(* counted when it starts, and its extraction runs are rows of their own    *)
(* that outlive it.                                                        *)
(***************************************************************************)
EXTENDS ArqQueue

CONSTANTS
  NoDocument,         \* what an idle worker works on
  Chunks,             \* the chunks of a document
  Workers,            \* arq execution slots
  Pollers,            \* maintenance loops, one per worker process
  MaxOutboxAttempts,  \* MAX_GRAPH_OUTBOX_ATTEMPTS
  MaxAttempts,        \* graph_extraction_jobs.max_attempts
  MaxFaults           \* bound on crashes, Redis losses and lost transactions

ASSUME NoDocumentAssumption == NoDocument \notin Documents
ASSUME OutboxAssumption == MaxOutboxAttempts \in Nat \ {0}
ASSUME MaxAttemptsAssumption == MaxAttempts \in Nat \ {0}
ASSUME FaultsAssumption == MaxFaults \in Nat

VARIABLES
  docStatus,   \* documents.status, from the commit of the chunks on
  stage,       \* documents.graph_stage
  job,         \* graph_extraction_jobs.status, "absent" when there is no row
  attempt,     \* graph_extraction_jobs.attempt
  lease,       \* lease_expires_at: NULL, in the future or in the past
  due,         \* the jobs whose next_attempt_at has come
  attempts,    \* graph_extraction_outbox.attempts
  published,   \* graph_extraction_outbox.published_at: 0 for NULL, else the
               \* attempt that set it
  runs,        \* the status of the extraction run of each chunk
  pc,          \* where each worker is
  doc,         \* the document it works on
  beating,     \* the workers whose heartbeat task lives
  pending,     \* the chunks it still has to extract
  active,      \* the chunks of the group it is extracting
  phase,       \* where each maintenance loop is
  batch,       \* the outbox rows it has claimed and not yet published
  faults       \* faults so far

documentVars == <<docStatus, stage>>
jobVars      == <<job, attempt, lease, due>>
outboxVars   == <<attempts, published>>
workerVars   == <<pc, doc, beating>>
groupVars    == <<pending, active>>
loopVars     == <<phase, batch>>
vars == <<documentVars, jobVars, outboxVars, runs, redisVars, workerVars, groupVars,
          loopVars, faults>>

-----------------------------------------------------------------------------
DocStatuses == {"absent", "persisting", "indexed", "failed"}
GraphStages == {"none", "queued", "extracting", "complete", "failed"}
JobStatuses == {"absent", "queued", "running", "succeeded", "failed"}
RunStatuses == {"absent", "running", "succeeded", "failed"}

\* Where the task is inside extract_document: a group is extracted, or an
\* exception unwinds through its handler.
Extracting == {"group", "calling", "unwinding", "cancelling"}

\* CancelledError has left the task's body; the job is to be requeued.
Requeuing == {"cancelled", "timed_out"}

WorkerPcs == {"idle", "claim", "plan", "failing", "completing", "rearm", "done"}
               \cup Extracting \cup Requeuing

Claims == [doc : Documents, claim : 1..MaxOutboxAttempts]

Init ==
  /\ docStatus = [d \in Documents |-> "absent"]
  /\ stage = [d \in Documents |-> "none"]
  /\ job = [d \in Documents |-> "absent"]
  /\ attempt = [d \in Documents |-> 0]
  /\ lease = [d \in Documents |-> "none"]
  /\ due = {}
  /\ attempts = [d \in Documents |-> 0]
  /\ published = [d \in Documents |-> 0]
  /\ runs = [d \in Documents |-> [c \in Chunks |-> "absent"]]
  /\ QueueInit
  /\ pc = [w \in Workers |-> "idle"]
  /\ doc = [w \in Workers |-> NoDocument]
  /\ beating = {}
  /\ pending = [w \in Workers |-> {}]
  /\ active = [w \in Workers |-> {}]
  /\ phase = [p \in Pollers |-> "dispatch"]
  /\ batch = [p \in Pollers |-> {}]
  /\ faults = 0

\* Faults are bounded.
Fault == faults < MaxFaults /\ faults' = faults + 1

-----------------------------------------------------------------------------
(* enqueue_graph_extraction, in the transaction that commits the chunks.    *)

\* The chunks are new rows, and the runs of the chunks they replace are gone.
Enqueue(d) ==
  /\ docStatus' = [docStatus EXCEPT ![d] = "persisting"]
  /\ stage' = [stage EXCEPT ![d] = "queued"]
  /\ job' = [job EXCEPT ![d] = "queued"]
  /\ attempt' = [attempt EXCEPT ![d] = 0]
  /\ due' = due \cup {d}
  /\ published' = [published EXCEPT ![d] = 0]
  /\ runs' = [runs EXCEPT ![d] = [c \in Chunks |-> "absent"]]
  /\ UNCHANGED <<lease, attempts, redisVars, workerVars, groupVars, loopVars>>

Ingest(d) == job[d] = "absent" /\ Enqueue(d) /\ UNCHANGED faults

\* A document is ingested twice only when its indexing job is executed twice,
\* which the indexing pipeline excludes while Redis keeps its data.
IngestAgain(d) == redisLost /\ Fault /\ job[d] # "absent" /\ Enqueue(d)

\* An upload of the content of a failed document finds the indexing job
\* succeeded and marks the document indexed; its graph job is left as it is.
Reupload(d) ==
  /\ docStatus[d] = "failed"
  /\ docStatus' = [docStatus EXCEPT ![d] = "indexed"]
  /\ UNCHANGED <<stage, jobVars, outboxVars, runs, redisVars, workerVars, groupVars,
                 loopVars, faults>>

-----------------------------------------------------------------------------
(* The maintenance loop: dispatch_pending_graph_jobs, reconcile_graph_jobs.  *)

Dispatchable(d) ==
  /\ job[d] = "queued"
  /\ d \in due
  /\ published[d] = 0
  /\ attempts[d] < MaxOutboxAttempts

ClaimOutbox(p) ==
  /\ phase[p] = "dispatch"
  /\ LET rows == {d \in Documents : Dispatchable(d)}
     IN /\ attempts' = [d \in Documents |->
                          IF d \in rows THEN attempts[d] + 1 ELSE attempts[d]]
        /\ published' = [d \in Documents |->
                           IF d \in rows THEN attempts[d] + 1 ELSE published[d]]
        /\ batch' = [batch EXCEPT ![p] = {[doc |-> d, claim |-> attempts[d] + 1] : d \in rows}]
  /\ phase' = [phase EXCEPT ![p] = "publish"]
  /\ UNCHANGED <<documentVars, jobVars, runs, redisVars, workerVars, groupVars, faults>>

\* Mutant: the enqueue without _job_id, so that every publication is a new entry.
PublishWithoutJobId(p, row) ==
  /\ row \in batch[p]
  /\ queue' = [queue EXCEPT ![row.doc] = "waiting"]
  /\ tries' = [tries EXCEPT ![row.doc] = 0]
  /\ batch' = [batch EXCEPT ![p] = @ \ {row}]
  /\ UNCHANGED <<documentVars, jobVars, outboxVars, runs, redisLost, workerVars, groupVars,
                 phase, faults>>

\* arq accepts the job, or ignores it.
Publish(p, row) ==
  /\ row \in batch[p]
  /\ EnqueueJob(row.doc)
  /\ batch' = [batch EXCEPT ![p] = @ \ {row}]
  /\ UNCHANGED <<documentVars, jobVars, outboxVars, runs, workerVars, groupVars, phase,
                 faults>>

\* The enqueue raises, before or after Redis executed it.
PublishFails(p, row) ==
  /\ row \in batch[p]
  /\ EnqueueJob(row.doc) \/ UNCHANGED redisVars
  /\ LET d == row.doc
         own == published[d] = row.claim
         last == own /\ attempts[d] >= MaxOutboxAttempts
     IN /\ published' = [published EXCEPT ![d] = IF own THEN 0 ELSE @]
        /\ job' = [job EXCEPT ![d] = IF last THEN "failed" ELSE @]
        /\ docStatus' = [docStatus EXCEPT ![d] = IF last THEN "failed" ELSE @]
        /\ stage' = [stage EXCEPT ![d] = IF last THEN "failed" ELSE @]
  /\ batch' = [batch EXCEPT ![p] = @ \ {row}]
  /\ UNCHANGED <<attempt, lease, due, attempts, runs, workerVars, groupVars, phase, faults>>

\* Mutant: the reconciler forgets that the job is queued again.
RecoverLeasesOnly(p) ==
  /\ phase[p] = "publish"
  /\ batch[p] = {}
  /\ lease' = [d \in Documents |->
                 IF job[d] = "running" /\ lease[d] = "expired" THEN "none" ELSE lease[d]]
  /\ phase' = [phase EXCEPT ![p] = "expire"]
  /\ UNCHANGED <<documentVars, job, due, attempt, outboxVars, runs, redisVars, workerVars,
                 groupVars, batch, faults>>

\* First transaction of the reconciler: the running jobs whose lease is over.
RecoverLeases(p) ==
  /\ phase[p] = "publish"
  /\ batch[p] = {}
  /\ LET jobs == {d \in Documents : job[d] = "running" /\ lease[d] = "expired"}
     IN /\ job' = [d \in Documents |-> IF d \in jobs THEN "queued" ELSE job[d]]
        /\ lease' = [d \in Documents |-> IF d \in jobs THEN "none" ELSE lease[d]]
        /\ due' = due \cup jobs
        /\ published' = [d \in Documents |-> IF d \in jobs THEN 0 ELSE published[d]]
  /\ phase' = [phase EXCEPT ![p] = "expire"]
  /\ UNCHANGED <<documentVars, attempt, attempts, runs, redisVars, workerVars, groupVars,
                 batch, faults>>

\* Second transaction: the publications of queued jobs that are old enough.
ExpirePublications(p, rows) ==
  /\ phase[p] = "expire"
  /\ \A d \in rows : job[d] = "queued" /\ published[d] # 0
  /\ published' = [d \in Documents |-> IF d \in rows THEN 0 ELSE published[d]]
  /\ phase' = [phase EXCEPT ![p] = "dispatch"]
  /\ UNCHANGED <<documentVars, jobVars, attempts, runs, redisVars, workerVars, groupVars,
                 batch, faults>>

\* Time passes: a backoff ends; a lease no heartbeat renews runs out.
BackoffEnds(d) ==
  /\ job[d] # "absent" /\ d \notin due
  /\ due' = due \cup {d}
  /\ UNCHANGED <<documentVars, job, attempt, lease, outboxVars, runs, redisVars, workerVars,
                 groupVars, loopVars, faults>>

LeaseExpires(d) ==
  /\ lease[d] = "live"
  /\ \A w \in Workers : doc[w] = d => w \notin beating
  /\ lease' = [lease EXCEPT ![d] = "expired"]
  /\ UNCHANGED <<documentVars, job, attempt, due, outboxVars, runs, redisVars, workerVars,
                 groupVars, loopVars, faults>>

-----------------------------------------------------------------------------
(* task_extract_graph and execute_graph_job.                                *)

NoGroup(w) ==
  /\ pending' = [pending EXCEPT ![w] = {}]
  /\ active' = [active EXCEPT ![w] = {}]

Goto(w, l) == pc' = [pc EXCEPT ![w] = l] /\ UNCHANGED <<doc, beating>>

Idle(w) ==
  /\ pc' = [pc EXCEPT ![w] = "idle"]
  /\ doc' = [doc EXCEPT ![w] = NoDocument]
  /\ beating' = beating \ {w}
  /\ NoGroup(w)

\* The task starts its heartbeat.
Deliver(w, d) ==
  /\ pc[w] = "idle"
  /\ TakeEntry(d)
  /\ pc' = [pc EXCEPT ![w] = "claim"]
  /\ doc' = [doc EXCEPT ![w] = d]
  /\ beating' = beating \cup {w}
  /\ UNCHANGED <<documentVars, jobVars, outboxVars, runs, groupVars, loopVars, faults>>

DropExhausted(w, d) ==
  /\ pc[w] = "idle"
  /\ DropEntry(d)
  /\ UNCHANGED <<documentVars, jobVars, outboxVars, runs, workerVars, groupVars, loopVars,
                 faults>>

Claimed(d) == job[d] = "succeeded" \/ (job[d] = "running" /\ lease[d] = "live")

\* A job that has succeeded, or runs under a lease, is left alone.
SkipClaimed(w) ==
  /\ pc[w] = "claim"
  /\ Claimed(doc[w])
  /\ Goto(w, "done")
  /\ UNCHANGED <<documentVars, jobVars, outboxVars, runs, redisVars, groupVars, loopVars,
                 faults>>

\* No attempt is left: the job fails.
GiveUp(w) ==
  /\ pc[w] = "claim"
  /\ ~Claimed(doc[w])
  /\ attempt[doc[w]] >= MaxAttempts
  /\ job' = [job EXCEPT ![doc[w]] = "failed"]
  /\ lease' = [lease EXCEPT ![doc[w]] = "none"]
  /\ Goto(w, "done")
  /\ UNCHANGED <<documentVars, attempt, due, outboxVars, runs, redisVars, groupVars,
                 loopVars, faults>>

Extractable(d) == docStatus[d] \in {"indexed", "persisting"}

\* The document has failed meanwhile: the task raises and leaves the job.
RefuseDocument(w) ==
  /\ pc[w] = "claim"
  /\ ~Claimed(doc[w])
  /\ attempt[doc[w]] < MaxAttempts
  /\ ~Extractable(doc[w])
  /\ Goto(w, "done")
  /\ UNCHANGED <<documentVars, jobVars, outboxVars, runs, redisVars, groupVars, loopVars,
                 faults>>

\* Mutant: the attempts are not bounded.
StartAttemptUnbounded(w) ==
  /\ pc[w] = "claim"
  /\ ~Claimed(doc[w])
  /\ Extractable(doc[w])
  /\ job' = [job EXCEPT ![doc[w]] = "running"]
  /\ attempt' = [attempt EXCEPT ![doc[w]] = @ + 1]
  /\ lease' = [lease EXCEPT ![doc[w]] = "live"]
  /\ stage' = [stage EXCEPT ![doc[w]] = "extracting"]
  /\ Goto(w, "plan")
  /\ UNCHANGED <<docStatus, due, outboxVars, runs, redisVars, groupVars, loopVars, faults>>

\* Mutant: the attempt starts without a lease.
StartAttemptUnleased(w) ==
  /\ pc[w] = "claim"
  /\ ~Claimed(doc[w])
  /\ attempt[doc[w]] < MaxAttempts
  /\ Extractable(doc[w])
  /\ job' = [job EXCEPT ![doc[w]] = "running"]
  /\ attempt' = [attempt EXCEPT ![doc[w]] = @ + 1]
  /\ stage' = [stage EXCEPT ![doc[w]] = "extracting"]
  /\ Goto(w, "plan")
  /\ UNCHANGED <<docStatus, lease, due, outboxVars, runs, redisVars, groupVars, loopVars, faults>>

\* The claim commits the attempt, its lease and the document's graph stage.
StartAttempt(w) ==
  /\ pc[w] = "claim"
  /\ ~Claimed(doc[w])
  /\ attempt[doc[w]] < MaxAttempts
  /\ Extractable(doc[w])
  /\ job' = [job EXCEPT ![doc[w]] = "running"]
  /\ attempt' = [attempt EXCEPT ![doc[w]] = @ + 1]
  /\ lease' = [lease EXCEPT ![doc[w]] = "live"]
  /\ stage' = [stage EXCEPT ![doc[w]] = "extracting"]
  /\ Goto(w, "plan")
  /\ UNCHANGED <<docStatus, due, outboxVars, runs, redisVars, groupVars, loopVars, faults>>

-----------------------------------------------------------------------------
(* extract_document.                                                        *)

\* Mutant: a retry extracts every chunk again.
PlanAll(w) ==
  /\ pc[w] = "plan"
  /\ IF Extractable(doc[w])
     THEN pending' = [pending EXCEPT ![w] = Chunks] /\ Goto(w, "group")
     ELSE UNCHANGED pending /\ Goto(w, "failing")
  /\ UNCHANGED <<documentVars, jobVars, outboxVars, runs, redisVars, active, loopVars, faults>>

\* The chunks without a succeeded run are to be extracted.
Plan(w) ==
  /\ pc[w] = "plan"
  /\ IF Extractable(doc[w])
     THEN /\ pending' = [pending EXCEPT ![w] = {c \in Chunks : runs[doc[w]][c] # "succeeded"}]
          /\ Goto(w, "group")
     ELSE /\ UNCHANGED pending
          /\ Goto(w, "failing")
  /\ UNCHANGED <<documentVars, jobVars, outboxVars, runs, redisVars, active, loopVars, faults>>

\* The runs of the next group are committed as running, then the model is called.
StartGroup(w, group) ==
  /\ pc[w] = "group"
  /\ group # {} /\ group \subseteq pending[w]
  /\ runs' = [runs EXCEPT ![doc[w]] = [c \in Chunks |-> IF c \in group THEN "running" ELSE @[c]]]
  /\ active' = [active EXCEPT ![w] = group]
  /\ Goto(w, "calling")
  /\ UNCHANGED <<documentVars, jobVars, outboxVars, redisVars, pending, loopVars, faults>>

Renewed(d) == [lease EXCEPT ![d] = IF job[d] = "running" THEN "live" ELSE @]

\* Mutant: an error of one chunk of the group is dropped.
EndGroupQuietly(w, extracted) ==
  /\ pc[w] = "calling"
  /\ extracted \subseteq active[w]
  /\ runs' = [runs EXCEPT ![doc[w]] =
                [c \in Chunks |-> IF c \in extracted THEN "succeeded" ELSE @[c]]]
  /\ pending' = [pending EXCEPT ![w] = @ \ active[w]]
  /\ lease' = Renewed(doc[w])
  /\ Goto(w, "group")
  /\ UNCHANGED <<documentVars, job, attempt, due, outboxVars, redisVars, active, loopVars,
                 faults>>

\* What was extracted is committed, also when another chunk of the group
\* failed, and the lease of a running job is renewed.
EndGroup(w, extracted) ==
  /\ pc[w] = "calling"
  /\ extracted \subseteq active[w]
  /\ runs' = [runs EXCEPT ![doc[w]] =
                [c \in Chunks |-> IF c \in extracted THEN "succeeded" ELSE @[c]]]
  /\ pending' = [pending EXCEPT ![w] = @ \ active[w]]
  /\ lease' = Renewed(doc[w])
  /\ Goto(w, IF extracted = active[w] THEN "group" ELSE "unwinding")
  /\ UNCHANGED <<documentVars, job, attempt, due, outboxVars, redisVars, active, loopVars,
                 faults>>

\* All chunks are extracted: consolidation, projection and analytics succeed.
Project(w) ==
  /\ pc[w] = "group"
  /\ pending[w] = {}
  /\ lease' = Renewed(doc[w])
  /\ Goto(w, "completing")
  /\ UNCHANGED <<documentVars, job, attempt, due, outboxVars, runs, redisVars, groupVars,
                 loopVars, faults>>

\* The model, the projection or the database raises.
ExtractFails(w) ==
  /\ pc[w] \in {"group", "calling"}
  /\ Goto(w, "unwinding")
  /\ UNCHANGED <<documentVars, jobVars, outboxVars, runs, redisVars, groupVars, loopVars,
                 faults>>

\* The handler of extract_document fails the group's runs that have not
\* succeeded, and raises again; its own transaction may fail too.
Unwind(w) ==
  /\ pc[w] \in {"unwinding", "cancelling"}
  /\ \/ runs' = [runs EXCEPT ![doc[w]] =
                   [c \in Chunks |->
                      IF c \in active[w] /\ @[c] \in {"running", "failed"} THEN "failed" ELSE @[c]]]
     \/ UNCHANGED runs
  /\ IF pc[w] = "unwinding"
     THEN Goto(w, "failing")
     ELSE \E l \in Requeuing : Goto(w, l)
  /\ UNCHANGED <<documentVars, jobVars, outboxVars, redisVars, groupVars, loopVars, faults>>

-----------------------------------------------------------------------------
(* execute_graph_job, after the extraction.                                 *)

\* The extraction raised: the job is queued again, or fails with its document.
FailAttempt(w) ==
  /\ pc[w] = "failing"
  /\ LET d == doc[w] IN
       /\ lease' = [lease EXCEPT ![d] = "none"]
       /\ IF attempt[d] >= MaxAttempts
          THEN /\ job' = [job EXCEPT ![d] = "failed"]
               /\ docStatus' = [docStatus EXCEPT ![d] = "failed"]
               /\ stage' = [stage EXCEPT ![d] = "failed"]
               /\ UNCHANGED <<due, published>>
          ELSE /\ job' = [job EXCEPT ![d] = "queued"]
               /\ due' = due \ {d}
               /\ published' = [published EXCEPT ![d] = 0]
               /\ UNCHANGED documentVars
  /\ Goto(w, "done")
  /\ UNCHANGED <<attempt, attempts, runs, redisVars, groupVars, loopVars, faults>>

Complete(w) ==
  /\ pc[w] = "completing"
  /\ job' = [job EXCEPT ![doc[w]] = "succeeded"]
  /\ lease' = [lease EXCEPT ![doc[w]] = "none"]
  /\ docStatus' = [docStatus EXCEPT ![doc[w]] = "indexed"]
  /\ stage' = [stage EXCEPT ![doc[w]] = "complete"]
  /\ Goto(w, "done")
  /\ UNCHANGED <<attempt, due, outboxVars, runs, redisVars, groupVars, loopVars, faults>>

\* A transaction of execute_graph_job raises: the task raises, the job is left.
ExecuteErrors(w) ==
  /\ pc[w] \in {"claim", "failing", "completing"}
  /\ Goto(w, "done")
  /\ UNCHANGED <<documentVars, jobVars, outboxVars, runs, redisVars, groupVars, loopVars,
                 faults>>

\* arq cancels the task: the worker shuts down, or the job's timeout expires.
Cancel(w) ==
  /\ \/ pc[w] \in {"claim", "plan", "failing", "completing"} /\ \E l \in Requeuing : Goto(w, l)
     \/ pc[w] \in {"group", "calling", "unwinding"} /\ Goto(w, "cancelling")
  /\ UNCHANGED <<documentVars, jobVars, outboxVars, runs, redisVars, groupVars, loopVars,
                 faults>>

\* Mutant: requeue_graph_job does not ask whether the job has succeeded.
RequeueAlways(w) ==
  /\ pc[w] \in Requeuing
  /\ job' = [job EXCEPT ![doc[w]] = "queued"]
  /\ lease' = [lease EXCEPT ![doc[w]] = "none"]
  /\ due' = due \cup {doc[w]}
  /\ published' = [published EXCEPT ![doc[w]] = 0]
  /\ Goto(w, IF pc[w] = "timed_out" THEN "done" ELSE "rearm")
  /\ UNCHANGED <<documentVars, attempt, attempts, runs, redisVars, groupVars, loopVars,
                 faults>>

\* requeue_graph_job, then the CancelledError goes to arq.
Requeue(w) ==
  /\ pc[w] \in Requeuing
  /\ LET d == doc[w] IN
       IF job[d] = "succeeded"
       THEN UNCHANGED <<job, lease, due, published>>
       ELSE /\ job' = [job EXCEPT ![d] = "queued"]
            /\ lease' = [lease EXCEPT ![d] = "none"]
            /\ due' = due \cup {d}
            /\ published' = [published EXCEPT ![d] = 0]
  /\ Goto(w, IF pc[w] = "timed_out" THEN "done" ELSE "rearm")
  /\ UNCHANGED <<documentVars, attempt, attempts, runs, redisVars, groupVars, loopVars,
                 faults>>

\* The task has returned or raised.
Finish(w) ==
  /\ pc[w] = "done"
  /\ ForgetEntry(doc[w])
  /\ Idle(w)
  /\ UNCHANGED <<documentVars, jobVars, outboxVars, runs, loopVars, faults>>

\* The task was cancelled by a shutdown.
Rearm(w) ==
  /\ pc[w] = "rearm"
  /\ KeepEntry(doc[w])
  /\ Idle(w)
  /\ UNCHANGED <<documentVars, jobVars, outboxVars, runs, loopVars, faults>>

-----------------------------------------------------------------------------
(* Faults.                                                                  *)

\* The worker process dies.
Crash(w) ==
  /\ Fault
  /\ pc[w] # "idle"
  /\ KeepEntry(doc[w])
  /\ Idle(w)
  /\ UNCHANGED <<documentVars, jobVars, outboxVars, runs, loopVars>>

\* A heartbeat's renewal raises; nothing catches it, so the heartbeat ends
\* while the task runs on.
HeartbeatDies(w) ==
  /\ Fault
  /\ w \in beating
  /\ beating' = beating \ {w}
  /\ UNCHANGED <<documentVars, jobVars, outboxVars, runs, redisVars, pc, doc, groupVars,
                 loopVars>>

\* The requeue's transaction fails: its error replaces the cancellation.
RequeueErrors(w) ==
  /\ Fault
  /\ pc[w] \in Requeuing
  /\ Goto(w, "done")
  /\ UNCHANGED <<documentVars, jobVars, outboxVars, runs, redisVars, groupVars, loopVars>>

\* An iteration of a maintenance loop raises, or its process dies.
LoopAborts(p) ==
  /\ Fault
  /\ phase[p] # "dispatch"
  /\ phase' = [phase EXCEPT ![p] = "dispatch"]
  /\ batch' = [batch EXCEPT ![p] = {}]
  /\ UNCHANGED <<documentVars, jobVars, outboxVars, runs, redisVars, workerVars, groupVars>>

LoseRedis ==
  /\ Fault
  /\ LoseEntries
  /\ UNCHANGED <<documentVars, jobVars, outboxVars, runs, workerVars, groupVars, loopVars>>

-----------------------------------------------------------------------------
DocumentStep(d) == Ingest(d) \/ IngestAgain(d) \/ Reupload(d)

TimePasses(d) == BackoffEnds(d) \/ LeaseExpires(d)

DeliverStep(d) == \E w \in Workers : Deliver(w, d) \/ DropExhausted(w, d)

ExtractStep(w) ==
  \/ Plan(w)
  \/ \E group \in SUBSET Chunks : StartGroup(w, group) \/ EndGroup(w, group)
  \/ Project(w)
  \/ ExtractFails(w)
  \/ Unwind(w)

WorkerStep(w) ==
  \/ SkipClaimed(w)
  \/ GiveUp(w)
  \/ RefuseDocument(w)
  \/ StartAttempt(w)
  \/ ExtractStep(w)
  \/ FailAttempt(w)
  \/ Complete(w)
  \/ ExecuteErrors(w)
  \/ Cancel(w)
  \/ Requeue(w)
  \/ Finish(w)
  \/ Rearm(w)

LoopStep(p) ==
  \/ ClaimOutbox(p)
  \/ \E row \in batch[p] : Publish(p, row) \/ PublishFails(p, row)
  \/ RecoverLeases(p)
  \/ \E S \in SUBSET Documents : ExpirePublications(p, S)

Next ==
  \/ \E d \in Documents : DocumentStep(d) \/ TimePasses(d) \/ DeliverStep(d)
  \/ \E w \in Workers : WorkerStep(w) \/ Crash(w) \/ HeartbeatDies(w) \/ RequeueErrors(w)
  \/ \E p \in Pollers : LoopStep(p) \/ LoopAborts(p)
  \/ LoseRedis

Spec == Init /\ [][Next]_vars

(* Time passes, loops poll for ever, workers run what they hold and take     *)
(* what is waiting; a publication that stays old is found old by some poll.  *)
Fairness ==
  /\ \A d \in Documents : WF_vars(TimePasses(d)) /\ SF_vars(DeliverStep(d))
  /\ \A w \in Workers : WF_vars(WorkerStep(w))
  /\ \A p \in Pollers : WF_vars(LoopStep(p))
  /\ \A d \in Documents :
        SF_vars(\E p \in Pollers, S \in SUBSET Documents : d \in S /\ ExpirePublications(p, S))

FairSpec == Spec /\ Fairness

-----------------------------------------------------------------------------
(* Properties.                                                              *)

(* Every variable keeps its type: no job starts more attempts than           *)
(* max_attempts and no outbox row is claimed more often than its limit.      *)
TypeOK ==
  /\ docStatus \in [Documents -> DocStatuses]
  /\ stage \in [Documents -> GraphStages]
  /\ job \in [Documents -> JobStatuses]
  /\ attempt \in [Documents -> 0..MaxAttempts]
  /\ lease \in [Documents -> {"none", "live", "expired"}]
  /\ due \in SUBSET Documents
  /\ attempts \in [Documents -> 0..MaxOutboxAttempts]
  /\ published \in [Documents -> 0..MaxOutboxAttempts]
  /\ runs \in [Documents -> [Chunks -> RunStatuses]]
  /\ QueueTypeOK
  /\ pc \in [Workers -> WorkerPcs]
  /\ doc \in [Workers -> Documents \cup {NoDocument}]
  /\ beating \in SUBSET Workers
  /\ pending \in [Workers -> SUBSET Chunks]
  /\ active \in [Workers -> SUBSET Chunks]
  /\ phase \in [Pollers -> {"dispatch", "publish", "expire"}]
  /\ batch \in [Pollers -> SUBSET Claims]
  /\ faults \in 0..MaxFaults

(* While Redis keeps its data no two workers hold the graph job of one       *)
(* document, whatever crashes, lapsed leases and repeated publications do.   *)
SingleExtractor ==
  ~redisLost =>
    \A w1, w2 \in Workers : w1 # w2 /\ doc[w1] # NoDocument => doc[w1] # doc[w2]

(* A succeeded job has extracted every chunk, across the attempts it took,   *)
(* and the document says so: execute_graph_job reports nothing extract_document *)
(* did not commit.                                                           *)
SuccessIsComplete ==
  ~redisLost =>
    \A d \in Documents : job[d] = "succeeded" =>
      /\ \A c \in Chunks : runs[d][c] = "succeeded"
      /\ attempts[d] < MaxOutboxAttempts => docStatus[d] = "indexed" /\ stage[d] = "complete"

(* A running job has a lease, so that reconcile_graph_jobs finds it once its *)
(* worker is gone: it only looks at leases that are over.                    *)
RunningIsLeased == \A d \in Documents : job[d] = "running" => lease[d] # "none"

(* A chunk that has been extracted is not extracted again: "Retry does not   *)
(* repeat successful chunk calls" (docs/liteparse-knowledge-graph-plan.md).  *)
ExtractedOnce ==
  [][\A d \in Documents, c \in Chunks :
       runs[d][c] = "succeeded" /\ ~redisLost => runs'[d][c] = "succeeded"]_vars

(* A succeeded graph job stays succeeded, against requeues by cancelled      *)
(* tasks and expired publications, while its outbox row has attempts left.   *)
GraphSuccessIsFinal ==
  [][\A d \in Documents :
       job[d] = "succeeded" /\ ~redisLost /\ attempts[d] < MaxOutboxAttempts
         => job'[d] = "succeeded"]_vars

(* A queued graph job ends, through crashes, lapsed leases, lost Redis data  *)
(* and aborted loops, unless all its publication attempts are spent.         *)
GraphJobsEnd ==
  \A d \in Documents :
    job[d] = "queued" ~> (job[d] \in {"succeeded", "failed"} \/ attempts[d] = MaxOutboxAttempts)

(* What docs/graph-extraction.md says: "documents.status and                 *)
(* documents.graph_stage report ingestion and graph progress".  A document   *)
(* that reports a running extraction while its job has failed contradicts it. *)
FailureIsReported ==
  \A d \in Documents : job[d] = "failed" => stage[d] \notin {"queued", "extracting"}
=============================================================================
