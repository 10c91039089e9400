-------------------------- MODULE IndexingPipeline --------------------------
(***************************************************************************)
(* The indexing pipeline: an upload commits a document, its indexing job   *)
(* and an outbox row in PostgreSQL; the maintenance loop of every worker   *)
(* process publishes outbox rows to Redis; arq delivers a published job to *)
(* a worker, which reads, parses, chunks and persists the document and     *)
(* commits the graph job in the transaction that commits the chunks.       *)
(*                                                                         *)
(* One action is one committed transaction, or one call to Redis, of       *)
(*   apps/api/app/documents.py   (upload)                                  *)
(*   apps/api/app/ingestion.py   (enqueue_document, run_ingestion)         *)
(*   apps/api/app/arq_worker.py  (task, dispatcher, reconciler, heartbeat) *)
(* Redis and arq are external (ArqQueue): modelled from the calls above.    *)
(*                                                                         *)
(* A job id is a hash of the document, so a document has one job and one   *)
(* outbox row, and all three are indexed by the document.                  *)
(***************************************************************************)
EXTENDS ArqQueue

CONSTANTS
  NoDocument,         \* what an idle worker works on
  Workers,            \* arq execution slots
  Pollers,            \* maintenance loops, one per worker process
  MaxOutboxAttempts,  \* MAX_INDEXING_OUTBOX_ATTEMPTS
  MaxFaults           \* bound on crashes, Redis losses and lost transactions

ASSUME DocumentsAssumption == NoDocument \notin Documents
ASSUME AttemptsAssumption == MaxOutboxAttempts \in Nat \ {0}
ASSUME FaultsAssumption == MaxFaults \in Nat

VARIABLES
  docStatus,    \* documents.status, "absent" when there is no row
  uploadPc,     \* where the upload request holding the document's row lock is
  seen,         \* what enqueue_document read of the job and its outbox row
  jobStatus,    \* indexing_jobs.status, "absent" when there is no row
  attempts,     \* indexing_outbox.attempts
  dispatched,   \* indexing_outbox.dispatched_at: 0 for NULL, else the attempt
                \* that set it (two claims of a row never have the same time)
  chunked,      \* the documents whose chunks are committed
  graph,        \* the document's graph job
  pc,           \* where each worker is
  doc,          \* the document it works on
  jobTry,       \* ctx["job_try"]: the delivery it serves
  beating,      \* the workers whose heartbeat task lives
  phase,        \* where each maintenance loop is
  batch,        \* the outbox rows it has claimed and not yet published
  faults        \* faults so far

uploadVars == <<uploadPc, seen>>
outboxVars == <<attempts, dispatched>>
resultVars == <<chunked, graph>>
workerVars == <<pc, doc, jobTry, beating>>
loopVars   == <<phase, batch>>
vars == <<docStatus, uploadVars, jobStatus, outboxVars, resultVars, redisVars,
          workerVars, loopVars, faults>>

-----------------------------------------------------------------------------
(* Committed document statuses.  PENDING_UPLOAD and UPLOADED are only ever  *)
(* set inside the upload's transaction; deletion is not part of this module. *)
DocStatuses == {"absent", "storage_failed", "queued", "parsing", "chunking",
                "persisting", "indexed", "failed"}

JobStatuses == {"absent", "queued", "running", "succeeded", "failed"}

\* An upload of a document in one of these returns it as a duplicate.
DuplicateStatuses == {"queued", "parsing", "chunking", "persisting", "indexed"}

GraphStates == {"absent", "queued", "complete", "failed"}

\* The stages of run_ingestion, after the claim of the job has committed.
Stages == {"reading", "parsing", "chunking", "persisting"}

\* CancelledError or a transient error was raised; the job is to be requeued.
Requeuing == {"retry", "cancelled", "timed_out"}

WorkerPcs == {"idle", "claim", "rearm", "done"} \cup Stages \cup Requeuing

Claims == [doc : Documents, claim : 1..MaxOutboxAttempts, sent : BOOLEAN]

Init ==
  /\ docStatus = [d \in Documents |-> "absent"]
  /\ uploadPc = [d \in Documents |-> "idle"]
  /\ seen = [d \in Documents |-> [job |-> "absent", dispatched |-> FALSE]]
  /\ jobStatus = [d \in Documents |-> "absent"]
  /\ attempts = [d \in Documents |-> 0]
  /\ dispatched = [d \in Documents |-> 0]
  /\ chunked = {}
  /\ graph = [d \in Documents |-> "absent"]
  /\ QueueInit
  /\ pc = [w \in Workers |-> "idle"]
  /\ doc = [w \in Workers |-> NoDocument]
  /\ jobTry = [w \in Workers |-> 0]
  /\ beating = {}
  /\ phase = [p \in Pollers |-> "dispatch"]
  /\ batch = [p \in Pollers |-> {}]
  /\ faults = 0

-----------------------------------------------------------------------------
(* Upload.  The request holds the document's row lock (SELECT ... FOR       *)
(* UPDATE, or the uncommitted insert) from its first read to its commit, so *)
(* every other transaction that writes the document's row waits for it.     *)

DocUnlocked(d) == uploadPc[d] = "idle"

NothingSeen == [job |-> "absent", dispatched |-> FALSE]

EndUpload(d) ==
  /\ uploadPc' = [uploadPc EXCEPT ![d] = "idle"]
  /\ seen' = [seen EXCEPT ![d] = NothingSeen]

\* A request finds no row, or one that is not a duplicate, and starts storing.
UploadBegin(d) ==
  /\ DocUnlocked(d)
  /\ docStatus[d] \notin DuplicateStatuses
  /\ uploadPc' = [uploadPc EXCEPT ![d] = "storing"]
  /\ UNCHANGED <<docStatus, seen, jobStatus, outboxVars, resultVars, redisVars,
                 workerVars, loopVars, faults>>

\* The object store refuses the object.
StoreFails(d) ==
  /\ uploadPc[d] = "storing"
  /\ docStatus' = [docStatus EXCEPT ![d] = "storage_failed"]
  /\ EndUpload(d)
  /\ UNCHANGED <<jobStatus, outboxVars, resultVars, redisVars, workerVars,
                 loopVars, faults>>

\* The request is cancelled or the API process dies: the transaction rolls back.
UploadRollback(d) ==
  /\ ~DocUnlocked(d)
  /\ EndUpload(d)
  /\ UNCHANGED <<docStatus, jobStatus, outboxVars, resultVars, redisVars,
                 workerVars, loopVars, faults>>

\* The object is stored and enqueue_document reads the job and its outbox row,
\* neither of which it locks.
EnqueueRead(d) ==
  /\ uploadPc[d] = "storing"
  /\ uploadPc' = [uploadPc EXCEPT ![d] = "enqueuing"]
  /\ seen' = [seen EXCEPT ![d] = [job |-> jobStatus[d],
                                  dispatched |-> dispatched[d] # 0]]
  /\ UNCHANGED <<docStatus, jobStatus, outboxVars, resultVars, redisVars,
                 workerVars, loopVars, faults>>

\* The flush writes the attributes enqueue_document changed with respect to
\* what it read, and commits.
EnqueueCommit(d) ==
  /\ uploadPc[d] = "enqueuing"
  /\ docStatus' = [docStatus EXCEPT ![d] =
                     IF seen[d].job = "succeeded" THEN "indexed" ELSE "queued"]
  /\ jobStatus' = [jobStatus EXCEPT ![d] =
                     IF seen[d].job \in {"absent", "failed"} THEN "queued" ELSE @]
  /\ dispatched' = [dispatched EXCEPT ![d] =
                     IF seen[d].job # "succeeded" /\ seen[d].dispatched THEN 0 ELSE @]
  /\ EndUpload(d)
  /\ UNCHANGED <<attempts, resultVars, redisVars, workerVars, loopVars, faults>>

-----------------------------------------------------------------------------
(* The maintenance loop: dispatch, then reconcile, then sleep.              *)

\* Mutant: the dispatcher's query does not bound the attempts.
DispatchableUnbounded(d) == jobStatus[d] = "queued" /\ dispatched[d] = 0

Dispatchable(d) ==
  /\ jobStatus[d] = "queued"
  /\ dispatched[d] = 0
  /\ attempts[d] < MaxOutboxAttempts

\* _dispatch_pending_indexing commits the claim of every row it may publish.
ClaimOutbox(p) ==
  /\ phase[p] = "dispatch"
  /\ LET rows == {d \in Documents : Dispatchable(d)}
     IN /\ attempts' = [d \in Documents |->
                          IF d \in rows THEN attempts[d] + 1 ELSE attempts[d]]
        /\ dispatched' = [d \in Documents |->
                            IF d \in rows THEN attempts[d] + 1 ELSE dispatched[d]]
        /\ batch' = [batch EXCEPT ![p] =
                       {[doc |-> d, claim |-> attempts[d] + 1, sent |-> FALSE] : d \in rows}]
  /\ phase' = [phase EXCEPT ![p] = "publish"]
  /\ UNCHANGED <<docStatus, uploadVars, jobStatus, resultVars, redisVars,
                 workerVars, faults>>

\* Mutant: the enqueue without _job_id, so that every publication is a new entry.
PublishWithoutJobId(p, row) ==
  /\ row \in batch[p]
  /\ \A r \in batch[p] : ~r.sent
  /\ queue' = [queue EXCEPT ![row.doc] = "waiting"]
  /\ tries' = [tries EXCEPT ![row.doc] = 0]
  /\ batch' = [batch EXCEPT ![p] =
               (@ \ {row}) \cup {[doc |-> row.doc, claim |-> row.claim, sent |-> TRUE]}]
  /\ UNCHANGED <<docStatus, uploadVars, jobStatus, outboxVars, resultVars,
                 redisLost, workerVars, phase, faults>>

\* Redis executes the enqueue; the loop does not know it yet.
Publish(p, row) ==
  /\ row \in batch[p]
  /\ \A r \in batch[p] : ~r.sent
  /\ EnqueueJob(row.doc)
  /\ batch' = [batch EXCEPT ![p] =
               (@ \ {row}) \cup {[doc |-> row.doc, claim |-> row.claim, sent |-> TRUE]}]
  /\ UNCHANGED <<docStatus, uploadVars, jobStatus, outboxVars, resultVars,
                 workerVars, phase, faults>>

\* The reply arrives, whether arq accepted the job or ignored it.
PublishAck(p, row) ==
  /\ row \in batch[p]
  /\ row.sent
  /\ batch' = [batch EXCEPT ![p] = @ \ {row}]
  /\ UNCHANGED <<docStatus, uploadVars, jobStatus, outboxVars, resultVars,
                 redisVars, workerVars, phase, faults>>

\* Mutant: the handler does not compare the claim with the row's.
PublishFailsUnfenced(p, row) ==
  /\ row \in batch[p]
  /\ LET d == row.doc
         last == attempts[d] >= MaxOutboxAttempts
     IN /\ last => DocUnlocked(d)
        /\ dispatched' = [dispatched EXCEPT ![d] = 0]
        /\ jobStatus' = [jobStatus EXCEPT ![d] = IF last THEN "failed" ELSE @]
        /\ docStatus' = [docStatus EXCEPT ![d] = IF last THEN "failed" ELSE @]
  /\ batch' = [batch EXCEPT ![p] = @ \ {row}]
  /\ UNCHANGED <<uploadVars, attempts, resultVars, redisVars, workerVars, phase,
                 faults>>

\* The enqueue raises, before or after Redis executed it.  The handler gives
\* the row back if the claim is still its own, and fails the job and the
\* document when that was the last attempt.
PublishFails(p, row) ==
  /\ row \in batch[p]
  /\ LET d == row.doc
         own == dispatched[d] = row.claim
         last == own /\ attempts[d] >= MaxOutboxAttempts
     IN /\ last => DocUnlocked(d)
        /\ dispatched' = [dispatched EXCEPT ![d] = IF own THEN 0 ELSE @]
        /\ jobStatus' = [jobStatus EXCEPT ![d] = IF last THEN "failed" ELSE @]
        /\ docStatus' = [docStatus EXCEPT ![d] = IF last THEN "failed" ELSE @]
  /\ batch' = [batch EXCEPT ![p] = @ \ {row}]
  /\ UNCHANGED <<uploadVars, attempts, resultVars, redisVars, workerVars, phase,
                 faults>>

\* A heartbeat renews updated_at three times per stale interval, so only a
\* running job that no living heartbeat renews can become stale.
Stale(d) ==
  /\ jobStatus[d] = "running"
  /\ \A w \in Workers : doc[w] = d => w \notin beating

\* _reconcile_indexing_jobs, first transaction: the jobs that have been stale
\* for long enough are queued again.
RecoverRuns(p, jobs) ==
  /\ phase[p] = "publish"
  /\ batch[p] = {}
  /\ \A d \in jobs : Stale(d)
  /\ jobStatus' = [d \in Documents |-> IF d \in jobs THEN "queued" ELSE jobStatus[d]]
  /\ dispatched' = [d \in Documents |-> IF d \in jobs THEN 0 ELSE dispatched[d]]
  /\ phase' = [phase EXCEPT ![p] = "expire"]
  /\ UNCHANGED <<docStatus, uploadVars, attempts, resultVars, redisVars,
                 workerVars, batch, faults>>

\* Mutant: the second transaction looks at running jobs.
ExpireDispatchesOfRunning(p, rows) ==
  /\ phase[p] = "expire"
  /\ \A d \in rows : jobStatus[d] = "running" /\ dispatched[d] # 0
  /\ dispatched' = [d \in Documents |-> IF d \in rows THEN 0 ELSE dispatched[d]]
  /\ phase' = [phase EXCEPT ![p] = "dispatch"]
  /\ UNCHANGED <<docStatus, uploadVars, jobStatus, attempts, resultVars,
                 redisVars, workerVars, batch, faults>>

\* Second transaction: the dispatches of queued jobs that are old enough are
\* given up.
ExpireDispatches(p, rows) ==
  /\ phase[p] = "expire"
  /\ \A d \in rows : jobStatus[d] = "queued" /\ dispatched[d] # 0
  /\ dispatched' = [d \in Documents |-> IF d \in rows THEN 0 ELSE dispatched[d]]
  /\ phase' = [phase EXCEPT ![p] = "dispatch"]
  /\ UNCHANGED <<docStatus, uploadVars, jobStatus, attempts, resultVars,
                 redisVars, workerVars, batch, faults>>

-----------------------------------------------------------------------------
(* arq (external) hands the job to a worker.                                *)

Idle(w) ==
  /\ pc' = [pc EXCEPT ![w] = "idle"]
  /\ doc' = [doc EXCEPT ![w] = NoDocument]
  /\ jobTry' = [jobTry EXCEPT ![w] = 0]
  /\ beating' = beating \ {w}

Goto(w, l) == pc' = [pc EXCEPT ![w] = l] /\ UNCHANGED <<doc, jobTry, beating>>

\* A worker takes a waiting entry; task_index_document starts its heartbeat.
Deliver(w, d) ==
  /\ pc[w] = "idle"
  /\ TakeEntry(d)
  /\ pc' = [pc EXCEPT ![w] = "claim"]
  /\ doc' = [doc EXCEPT ![w] = d]
  /\ jobTry' = [jobTry EXCEPT ![w] = tries[d] + 1]
  /\ beating' = beating \cup {w}
  /\ UNCHANGED <<docStatus, uploadVars, jobStatus, outboxVars, resultVars,
                 loopVars, faults>>

\* An entry delivered max_tries times is dropped without running the task.
DropExhausted(w, d) ==
  /\ pc[w] = "idle"
  /\ DropEntry(d)
  /\ UNCHANGED <<docStatus, uploadVars, jobStatus, outboxVars, resultVars,
                 workerVars, loopVars, faults>>

\* The task has returned or raised: arq forgets the entry.
Finish(w) ==
  /\ pc[w] = "done"
  /\ ForgetEntry(doc[w])
  /\ Idle(w)
  /\ UNCHANGED <<docStatus, uploadVars, jobStatus, outboxVars, resultVars,
                 loopVars, faults>>

\* The task raised Retry or was cancelled by a shutdown: arq keeps the entry.
Rearm(w) ==
  /\ pc[w] = "rearm"
  /\ KeepEntry(doc[w])
  /\ Idle(w)
  /\ UNCHANGED <<docStatus, uploadVars, jobStatus, outboxVars, resultVars,
                 loopVars, faults>>

-----------------------------------------------------------------------------
(* run_ingestion.                                                           *)

\* The claim, under the job's row lock, commits with the first stage.
ClaimJob(w) ==
  /\ pc[w] = "claim"
  /\ jobStatus[doc[w]] \notin {"succeeded", "running"}
  /\ jobStatus' = [jobStatus EXCEPT ![doc[w]] = "running"]
  /\ Goto(w, "reading")
  /\ UNCHANGED <<docStatus, uploadVars, outboxVars, resultVars, redisVars,
                 loopVars, faults>>

\* A job that is running or has succeeded is left alone.
SkipClaimed(w) ==
  /\ pc[w] = "claim"
  /\ jobStatus[doc[w]] \in {"succeeded", "running"}
  /\ Goto(w, "done")
  /\ UNCHANGED <<docStatus, uploadVars, jobStatus, outboxVars, resultVars,
                 redisVars, loopVars, faults>>

\* A stage ends and the next one commits with the document's new status.
EnterStage(w, from, to) ==
  /\ pc[w] = from
  /\ DocUnlocked(doc[w])
  /\ docStatus' = [docStatus EXCEPT ![doc[w]] = to]
  /\ Goto(w, to)
  /\ UNCHANGED <<uploadVars, jobStatus, outboxVars, resultVars, redisVars,
                 loopVars, faults>>

Advance(w) ==
  \/ EnterStage(w, "reading", "parsing")
  \/ EnterStage(w, "parsing", "chunking")
  \/ EnterStage(w, "chunking", "persisting")

\* Mutant: the graph job is left to a later transaction.
PersistWithoutGraph(w) ==
  /\ pc[w] = "persisting"
  /\ DocUnlocked(doc[w])
  /\ chunked' = chunked \cup {doc[w]}
  /\ jobStatus' = [jobStatus EXCEPT ![doc[w]] = "succeeded"]
  /\ Goto(w, "done")
  /\ UNCHANGED <<docStatus, uploadVars, outboxVars, graph, redisVars, loopVars, faults>>

\* Mutant: the last transaction does not touch the document's row.
PersistUnlocked(w) ==
  /\ pc[w] = "persisting"
  /\ chunked' = chunked \cup {doc[w]}
  /\ graph' = [graph EXCEPT ![doc[w]] = "queued"]
  /\ jobStatus' = [jobStatus EXCEPT ![doc[w]] = "succeeded"]
  /\ Goto(w, "done")
  /\ UNCHANGED <<docStatus, uploadVars, outboxVars, redisVars, loopVars, faults>>

\* The last transaction replaces the chunks, completes the job and enqueues the
\* graph job.  documents.status is PERSISTING already in the session, so only
\* graph_stage of the document's row is written.
Persist(w) ==
  /\ pc[w] = "persisting"
  /\ DocUnlocked(doc[w])
  /\ chunked' = chunked \cup {doc[w]}
  /\ graph' = [graph EXCEPT ![doc[w]] = "queued"]
  /\ jobStatus' = [jobStatus EXCEPT ![doc[w]] = "succeeded"]
  /\ Goto(w, "done")
  /\ UNCHANGED <<docStatus, uploadVars, outboxVars, redisVars, loopVars, faults>>

\* What task_index_document does with an exception: a transient one is retried
\* by all but the last delivery, any other is raised.
AfterError(w) == {"done"} \cup (IF jobTry[w] < MaxTries THEN {"retry"} ELSE {})

\* Mutant: the handler fails the job and forgets the document.
RunFailsJobOnly(w) ==
  /\ pc[w] \in Stages
  /\ jobStatus' = [jobStatus EXCEPT ![doc[w]] = "failed"]
  /\ \E l \in AfterError(w) : Goto(w, l)
  /\ UNCHANGED <<docStatus, uploadVars, outboxVars, resultVars, redisVars, loopVars,
                 faults>>

\* The work raises: the handler fails the job and the document.
RunFails(w) ==
  /\ pc[w] \in Stages
  /\ DocUnlocked(doc[w])
  /\ jobStatus' = [jobStatus EXCEPT ![doc[w]] = "failed"]
  /\ docStatus' = [docStatus EXCEPT ![doc[w]] = "failed"]
  /\ \E l \in AfterError(w) : Goto(w, l)
  /\ UNCHANGED <<uploadVars, outboxVars, resultVars, redisVars, loopVars, faults>>

\* The database is away: the claim, or the handler's own transaction, raises.
RunErrors(w) ==
  /\ pc[w] \in Stages \cup {"claim"}
  /\ \E l \in AfterError(w) : Goto(w, l)
  /\ UNCHANGED <<docStatus, uploadVars, jobStatus, outboxVars, resultVars,
                 redisVars, loopVars, faults>>

\* arq cancels the task: the worker shuts down, or the job's timeout expires.
Cancel(w) ==
  /\ pc[w] \in Stages \cup {"claim"}
  /\ \E l \in {"cancelled", "timed_out"} : Goto(w, l)
  /\ UNCHANGED <<docStatus, uploadVars, jobStatus, outboxVars, resultVars,
                 redisVars, loopVars, faults>>

\* Mutant: the requeue does not ask whether the job has succeeded.
RequeueAlways(w) ==
  /\ pc[w] \in Requeuing
  /\ jobStatus' = [jobStatus EXCEPT ![doc[w]] = "queued"]
  /\ dispatched' = [dispatched EXCEPT ![doc[w]] = 0]
  /\ Goto(w, IF pc[w] = "timed_out" THEN "done" ELSE "rearm")
  /\ UNCHANGED <<docStatus, uploadVars, attempts, resultVars, redisVars,
                 loopVars, faults>>

\* _requeue_indexing_job, then the exception goes to arq: Retry and a shutdown's
\* CancelledError keep the entry, a timeout ends it.
Requeue(w) ==
  /\ pc[w] \in Requeuing
  /\ IF jobStatus[doc[w]] = "succeeded"
     THEN UNCHANGED <<jobStatus, dispatched>>
     ELSE /\ jobStatus' = [jobStatus EXCEPT ![doc[w]] = "queued"]
          /\ dispatched' = [dispatched EXCEPT ![doc[w]] = 0]
  /\ Goto(w, IF pc[w] = "timed_out" THEN "done" ELSE "rearm")
  /\ UNCHANGED <<docStatus, uploadVars, attempts, resultVars, redisVars,
                 loopVars, faults>>

-----------------------------------------------------------------------------
(* The graph job ends (apps/api/app/graph/dispatch.py, in its own module).  *)
GraphEnds(d) ==
  /\ graph[d] = "queued"
  /\ DocUnlocked(d)
  /\ \/ /\ graph' = [graph EXCEPT ![d] = "complete"]
        /\ docStatus' = [docStatus EXCEPT ![d] = "indexed"]
     \/ /\ graph' = [graph EXCEPT ![d] = "failed"]
        /\ docStatus' = [docStatus EXCEPT ![d] = "failed"]
  /\ UNCHANGED <<uploadVars, jobStatus, outboxVars, chunked, redisVars,
                 workerVars, loopVars, faults>>

-----------------------------------------------------------------------------
(* Faults.                                                                  *)

Fault == faults < MaxFaults /\ faults' = faults + 1

\* The worker process dies; arq's in-progress mark expires and the entry waits.
Crash(w) ==
  /\ Fault
  /\ pc[w] # "idle"
  /\ KeepEntry(doc[w])
  /\ Idle(w)
  /\ UNCHANGED <<docStatus, uploadVars, jobStatus, outboxVars, resultVars,
                 loopVars>>

\* A heartbeat's update raises; nothing catches it, so the heartbeat ends while
\* the task runs on.
HeartbeatDies(w) ==
  /\ Fault
  /\ w \in beating
  /\ beating' = beating \ {w}
  /\ UNCHANGED <<docStatus, uploadVars, jobStatus, outboxVars, resultVars,
                 redisVars, pc, doc, jobTry, loopVars>>

\* The requeue's transaction fails: its error replaces the task's exception.
RequeueErrors(w) ==
  /\ Fault
  /\ pc[w] \in Requeuing
  /\ Goto(w, "done")
  /\ UNCHANGED <<docStatus, uploadVars, jobStatus, outboxVars, resultVars,
                 redisVars, loopVars>>

\* An iteration of a maintenance loop raises, or its process dies.
LoopAborts(p) ==
  /\ Fault
  /\ phase[p] # "dispatch"
  /\ phase' = [phase EXCEPT ![p] = "dispatch"]
  /\ batch' = [batch EXCEPT ![p] = {}]
  /\ UNCHANGED <<docStatus, uploadVars, jobStatus, outboxVars, resultVars,
                 redisVars, workerVars>>

\* Redis is transient: it loses the queue, its job ids and its counters.
LoseRedis ==
  /\ Fault
  /\ LoseEntries
  /\ UNCHANGED <<docStatus, uploadVars, jobStatus, outboxVars, resultVars,
                 workerVars, loopVars>>

-----------------------------------------------------------------------------
UploadStep(d) ==
  \/ StoreFails(d)
  \/ UploadRollback(d)
  \/ EnqueueRead(d)
  \/ EnqueueCommit(d)

DeliverStep(d) == \E w \in Workers : Deliver(w, d) \/ DropExhausted(w, d)

WorkerStep(w) ==
  \/ ClaimJob(w)
  \/ SkipClaimed(w)
  \/ Advance(w)
  \/ Persist(w)
  \/ RunFails(w)
  \/ RunErrors(w)
  \/ Cancel(w)
  \/ Requeue(w)
  \/ Finish(w)
  \/ Rearm(w)

PublishStep(p) ==
  \E row \in batch[p] : Publish(p, row) \/ PublishAck(p, row) \/ PublishFails(p, row)

LoopStep(p) ==
  \/ ClaimOutbox(p)
  \/ PublishStep(p)
  \/ \E S \in SUBSET Documents : RecoverRuns(p, S) \/ ExpireDispatches(p, S)

Next ==
  \/ \E d \in Documents : UploadBegin(d) \/ UploadStep(d) \/ DeliverStep(d) \/ GraphEnds(d)
  \/ \E w \in Workers :
        WorkerStep(w) \/ Crash(w) \/ HeartbeatDies(w) \/ RequeueErrors(w)
  \/ \E p \in Pollers : LoopStep(p) \/ LoopAborts(p)
  \/ LoseRedis

Spec == Init /\ [][Next]_vars

(* Uploads are requests and may stop coming; one that has begun ends.  The  *)
(* loops poll for ever and workers run what they hold.  A transaction that   *)
(* waits for the document's row gets its turn (row locks are queued), and    *)
(* time passes: what stays stale is found stale by some later poll.          *)
Fairness ==
  /\ \A d \in Documents : WF_vars(UploadStep(d)) /\ SF_vars(DeliverStep(d))
  /\ \A w \in Workers : SF_vars(WorkerStep(w))
  /\ \A p \in Pollers : WF_vars(LoopStep(p))
  /\ \A d \in Documents :
        /\ SF_vars(\E p \in Pollers, S \in SUBSET Documents : d \in S /\ RecoverRuns(p, S))
        /\ SF_vars(\E p \in Pollers, S \in SUBSET Documents : d \in S /\ ExpireDispatches(p, S))

FairSpec == Spec /\ Fairness

-----------------------------------------------------------------------------
(* Properties.                                                              *)

(* Every variable keeps its type: the values each column, Redis key and      *)
(* program counter can hold.                                                 *)
TypeOK ==
  /\ docStatus \in [Documents -> DocStatuses]
  /\ uploadPc \in [Documents -> {"idle", "storing", "enqueuing"}]
  /\ seen \in [Documents -> [job : JobStatuses, dispatched : BOOLEAN]]
  /\ jobStatus \in [Documents -> JobStatuses]
  /\ attempts \in [Documents -> 0..MaxOutboxAttempts]
  /\ dispatched \in [Documents -> 0..MaxOutboxAttempts]
  /\ chunked \in SUBSET Documents
  /\ graph \in [Documents -> GraphStates]
  /\ QueueTypeOK
  /\ pc \in [Workers -> WorkerPcs]
  /\ doc \in [Workers -> Documents \cup {NoDocument}]
  /\ jobTry \in [Workers -> 0..MaxTries]
  /\ beating \in SUBSET Workers
  /\ phase \in [Pollers -> {"dispatch", "publish", "expire"}]
  /\ batch \in [Pollers -> SUBSET Claims]
  /\ faults \in 0..MaxFaults

(* While Redis keeps its data no two workers run the job of one document,    *)
(* whatever crashes, dead heartbeats, requeues and repeated publications do: *)
(* the dispatcher's fixed arq job id is what a stale claim relies on.         *)
SingleRunner ==
  ~redisLost =>
    \A w1, w2 \in Workers : w1 # w2 /\ doc[w1] # NoDocument => doc[w1] # doc[w2]

(* run_ingestion commits chunks, success and graph job together: a succeeded *)
(* job always has its chunks and a graph job, also after a crash anywhere.   *)
SucceededHasResults ==
  \A d \in Documents :
    /\ jobStatus[d] = "succeeded" => graph[d] # "absent"
    /\ graph[d] # "absent" => d \in chunked

\* Redis keeps its data and the outbox row has attempts left.
Sound(d) == ~redisLost /\ attempts[d] < MaxOutboxAttempts

(* A document whose upload is refused as a duplicate because it is in        *)
(* progress has a job that is queued, running or done, never a failed one:   *)
(* no client is told to wait for work nobody will do.  Holds while Redis     *)
(* keeps its data and the outbox row has attempts left.                      *)
InProgressHasWork ==
  \A d \in Documents :
    Sound(d) =>
      /\ docStatus[d] \in {"queued", "parsing", "chunking"} =>
            jobStatus[d] \in {"queued", "running"}
      /\ docStatus[d] = "persisting" =>
            jobStatus[d] \in {"queued", "running", "succeeded"}

(* A loop whose publication fails late neither gives back nor fails a row    *)
(* that another loop has claimed since: the handler compares dispatched_at.  *)
LateFailureSpares ==
  [][\A p, q \in Pollers : p # q =>
       \A r \in batch[p], s \in batch[q] :
         r.doc = s.doc /\ dispatched[r.doc] = r.claim /\ PublishFails(q, s) =>
           /\ dispatched'[r.doc] = dispatched[r.doc]
           /\ jobStatus'[r.doc] = jobStatus[r.doc]]_vars

(* A succeeded job stays succeeded, against uploads that read it before, the *)
(* requeues and the reconciler, while Redis keeps its data and the outbox    *)
(* row has attempts left.                                                    *)
SuccessIsFinal ==
  [][\A d \in Documents :
       jobStatus[d] = "succeeded" /\ Sound(d) => jobStatus'[d] = "succeeded"]_vars

(* The strengthening that makes the invariants above inductive.              *)

\* A worker that holds a document serves an entry Redis has marked running.
HeldEntries ==
  /\ \A w \in Workers : doc[w] = NoDocument <=> pc[w] = "idle"
  /\ ~redisLost => \A w \in Workers : doc[w] # NoDocument => queue[doc[w]] = "running"

\* A claim in a batch is one of the attempts its row has counted.
ClaimsCounted == \A p \in Pollers : \A r \in batch[p] : r.claim <= attempts[r.doc]

\* Two dispatchers never hold the same claim of an outbox row.
ClaimsAreExclusive ==
  \A p, q \in Pollers : p # q =>
    \A r \in batch[p], s \in batch[q] : r.doc = s.doc => r.claim # s.claim

\* The document's row does not change under the upload that has locked it.
LockedIsNew == \A d \in Documents : ~DocUnlocked(d) => docStatus[d] \notin DuplicateStatuses

\* What enqueue_document has read of the job is not outdated by its end.
SeenIsCurrent ==
  \A d \in Documents : uploadPc[d] = "enqueuing" =>
    /\ seen[d].job # "succeeded" => jobStatus[d] # "succeeded"
    /\ seen[d].job \in {"queued", "running"} /\ Sound(d) =>
          jobStatus[d] \in {"queued", "running"}

\* Work in a stage belongs to a job that has not ended.
StagesHaveWork ==
  \A w \in Workers : pc[w] \in Stages /\ Sound(doc[w]) =>
    /\ jobStatus[doc[w]] \in {"queued", "running"}
    /\ pc[w] = "persisting" => docStatus[doc[w]] = "persisting"

\* A graph job exists only once the indexing job has succeeded.
GraphAfterSuccess ==
  \A d \in Documents : Sound(d) /\ jobStatus[d] # "succeeded" => graph[d] = "absent"

(* The inductive invariant: who holds what Redis and the row locks protect.  *)
IndInv ==
  /\ TypeOK
  /\ HeldEntries
  /\ SingleRunner
  /\ SucceededHasResults
  /\ ClaimsCounted
  /\ ClaimsAreExclusive
  /\ LockedIsNew
  /\ SeenIsCurrent
  /\ StagesHaveWork
  /\ GraphAfterSuccess
  /\ InProgressHasWork

(* A queued job reaches an end, through crashes, lost Redis data and aborted *)
(* loops, unless all its publication attempts are spent.                     *)
QueuedJobsEnd ==
  \A d \in Documents :
    jobStatus[d] = "queued" ~>
      (jobStatus[d] \in {"succeeded", "failed"} \/ attempts[d] = MaxOutboxAttempts)

(* What README.md says of Redis and the outboxes: "Redis is transient;       *)
(* PostgreSQL outboxes republish pending work."  A queued job nothing will   *)
(* ever publish, deliver or requeue contradicts it.                          *)
PendingWorkIsRepublished ==
  \A d \in Documents :
    ~ /\ jobStatus[d] = "queued"
      /\ dispatched[d] = 0
      /\ attempts[d] = MaxOutboxAttempts
      /\ queue[d] = "absent"
      /\ \A w \in Workers : doc[w] # d
=============================================================================
