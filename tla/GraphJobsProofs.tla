-------------------------- MODULE GraphJobsProofs --------------------------
(***************************************************************************)
(* Theorems about GraphJobs, for every set of documents, chunks, workers    *)
(* and loops and every limit.  A worker holds the arq entry of its document  *)
(* (HeldEntries), so only it writes the extraction runs of that document     *)
(* while Redis keeps its data; what it still has to extract is what has not  *)
(* succeeded (WorkIsOpen).  Leases, crashes, requeues and publications that  *)
(* are repeated change neither.                                              *)
(***************************************************************************)
EXTENDS GraphJobs, TLAPS

(* A busy worker has a document, whose arq entry it holds.                   *)
HeldEntries ==
  /\ \A w \in Workers : doc[w] = NoDocument <=> pc[w] = "idle"
  /\ ~redisLost => \A w \in Workers : doc[w] # NoDocument => queue[doc[w]] = "running"

(* Whatever is queued, claimed or held has a job: jobs are never deleted.    *)
JobsExist ==
  /\ \A d \in Documents : queue[d] # "absent" => job[d] # "absent"
  /\ \A p \in Pollers : \A row \in batch[p] : job[row.doc] # "absent"
  /\ \A w \in Workers : doc[w] # NoDocument => job[doc[w]] # "absent"

(* A job that was never enqueued has extracted nothing.                      *)
NothingBefore ==
  \A d \in Documents : job[d] = "absent" => \A c \in Chunks : runs[d][c] = "absent"

Attempting == Extracting \cup {"plan", "failing", "completing"}

(* During an attempt the job has not succeeded, what is pending is what has  *)
(* not been extracted, and at its end everything is.                         *)
Open(w) ==
  /\ pc[w] \in Attempting => job[doc[w]] # "succeeded"
  /\ pc[w] \in {"group", "calling"} =>
       pending[w] = {c \in Chunks : runs[doc[w]][c] # "succeeded"}
  /\ pc[w] = "calling" => active[w] \subseteq pending[w]
  /\ pc[w] = "completing" => \A c \in Chunks : runs[doc[w]][c] = "succeeded"

WorkIsOpen == ~redisLost => \A w \in Workers : Open(w)

IndInv ==
  /\ TypeOK
  /\ HeldEntries
  /\ SingleExtractor
  /\ JobsExist
  /\ NothingBefore
  /\ RunningIsLeased
  /\ WorkIsOpen
  /\ SuccessIsComplete

(* The initial state satisfies the inductive invariant.                      *)
LEMMA InitInv == Init => IndInv
<1> USE OutboxAssumption, MaxAttemptsAssumption, FaultsAssumption, TriesAssumption
    DEF Init, QueueInit
<1> SUFFICES ASSUME Init PROVE IndInv
  OBVIOUS
<1>1. TypeOK
  <2> USE DEF DocStatuses, GraphStages, JobStatuses, RunStatuses, WorkerPcs, Extracting,
              Requeuing, Claims
  <2>1. /\ docStatus \in [Documents -> DocStatuses]
        /\ stage \in [Documents -> GraphStages]
        /\ job \in [Documents -> JobStatuses]
        /\ attempt \in [Documents -> 0..MaxAttempts]
        /\ lease \in [Documents -> {"none", "live", "expired"}]
    OBVIOUS
  <2>2. /\ due \in SUBSET Documents
        /\ attempts \in [Documents -> 0..MaxOutboxAttempts]
        /\ published \in [Documents -> 0..MaxOutboxAttempts]
        /\ runs \in [Documents -> [Chunks -> RunStatuses]]
    OBVIOUS
  <2>3. QueueTypeOK
    <3>1. redisLost \in BOOLEAN
      OBVIOUS
    <3> QED
      BY <3>1 DEF QueueTypeOK
  <2>4. /\ pc \in [Workers -> WorkerPcs]
        /\ doc \in [Workers -> Documents \cup {NoDocument}]
        /\ beating \in SUBSET Workers
        /\ pending \in [Workers -> SUBSET Chunks]
        /\ active \in [Workers -> SUBSET Chunks]
    OBVIOUS
  <2>5. /\ phase \in [Pollers -> {"dispatch", "publish", "expire"}]
        /\ batch \in [Pollers -> SUBSET Claims]
        /\ faults \in 0..MaxFaults
    OBVIOUS
  <2> QED
    BY <2>1, <2>2, <2>3, <2>4, <2>5 DEF TypeOK
<1>2. HeldEntries /\ SingleExtractor /\ JobsExist /\ NothingBefore
        /\ RunningIsLeased
  BY DEF HeldEntries, SingleExtractor, JobsExist, NothingBefore, RunningIsLeased
<1>3. WorkIsOpen /\ SuccessIsComplete
  BY DEF WorkIsOpen, Open, SuccessIsComplete, Attempting, Extracting
<1> QED
  BY <1>1, <1>2, <1>3 DEF IndInv

(* A worker that is not idle works on a document.                            *)
LEMMA Busy ==
  ASSUME TypeOK, HeldEntries, NEW w \in Workers, pc[w] # "idle"
  PROVE  doc[w] \in Documents
BY DEF TypeOK, HeldEntries

(* An enqueue keeps the types of the queue, whichever way arq takes it.      *)
LEMMA EnqueueType ==
  ASSUME QueueTypeOK, NEW d \in Documents, EnqueueJob(d) \/ UNCHANGED redisVars
  PROVE  QueueTypeOK'
<1>1. UNCHANGED redisLost
  BY DEF EnqueueJob, redisVars
<1>2. \/ queue' = queue /\ tries' = tries
      \/ queue' = [queue EXCEPT ![d] = "waiting"] /\ tries' = [tries EXCEPT ![d] = 0]
  BY DEF EnqueueJob, redisVars
<1> QED
  BY <1>1, <1>2, TriesAssumption DEF QueueTypeOK

(* Every step keeps every variable in its type.                              *)
LEMMA TypeStep ==
  ASSUME TypeOK, HeldEntries, [Next]_vars
  PROVE  TypeOK'
<1> USE NoDocumentAssumption, OutboxAssumption, MaxAttemptsAssumption, FaultsAssumption,
  TriesAssumption
  DEF DocStatuses, GraphStages, JobStatuses, RunStatuses, WorkerPcs, Extracting, Requeuing,
  Claims, QueueTypeOK, documentVars, jobVars, outboxVars, redisVars, workerVars, groupVars, loopVars
<1>1. ASSUME NEW d \in Documents, Ingest(d) PROVE TypeOK'
  BY <1>1 DEF Ingest, Enqueue, TypeOK
<1>2. ASSUME NEW d \in Documents, IngestAgain(d) PROVE TypeOK'
  BY <1>2 DEF IngestAgain, Enqueue, Fault, TypeOK
<1>3. ASSUME NEW d \in Documents, Reupload(d) PROVE TypeOK'
  BY <1>3 DEF Reupload, TypeOK
<1>4. ASSUME NEW d \in Documents, BackoffEnds(d) PROVE TypeOK'
  BY <1>4 DEF BackoffEnds, TypeOK
<1>5. ASSUME NEW d \in Documents, LeaseExpires(d) PROVE TypeOK'
  BY <1>5 DEF LeaseExpires, TypeOK
<1>6. ASSUME NEW w \in Workers, NEW d \in Documents, Deliver(w, d) PROVE TypeOK'
  BY <1>6 DEF Deliver, TakeEntry, TypeOK
<1>7. ASSUME NEW w \in Workers, NEW d \in Documents, DropExhausted(w, d) PROVE TypeOK'
  BY <1>7 DEF DropExhausted, DropEntry, ForgetEntry, TypeOK
<1>8. ASSUME NEW w \in Workers, SkipClaimed(w) PROVE TypeOK'
  BY <1>8, Busy DEF SkipClaimed, Goto, TypeOK
<1>9. ASSUME NEW w \in Workers, GiveUp(w) PROVE TypeOK'
  BY <1>9, Busy DEF GiveUp, Goto, Claimed, TypeOK
<1>10. ASSUME NEW w \in Workers, RefuseDocument(w) PROVE TypeOK'
  BY <1>10, Busy DEF RefuseDocument, Goto, TypeOK
<1>11. ASSUME NEW w \in Workers, StartAttempt(w) PROVE TypeOK'
  BY <1>11, Busy DEF StartAttempt, Goto, Claimed, TypeOK
<1>12. ASSUME NEW w \in Workers, Plan(w) PROVE TypeOK'
  <2>1. pc' \in [Workers -> WorkerPcs]
    BY <1>12 DEF Plan, Goto, TypeOK
  <2>2. pending' \in [Workers -> SUBSET Chunks]
    <3>1. {c \in Chunks : runs[doc[w]][c] # "succeeded"} \in SUBSET Chunks
      OBVIOUS
    <3> QED
      BY <1>12, <3>1 DEF Plan, TypeOK
  <2>3. UNCHANGED <<documentVars, jobVars, outboxVars, runs, redisVars, doc, beating, active,
                    loopVars, faults>>
    BY <1>12 DEF Plan, Goto
  <2> QED
    BY <2>1, <2>2, <2>3 DEF TypeOK
<1>13. ASSUME NEW w \in Workers, NEW group \in SUBSET Chunks, StartGroup(w, group) PROVE TypeOK'
  BY <1>13, Busy DEF StartGroup, Goto, TypeOK
<1>14. ASSUME NEW w \in Workers, NEW group \in SUBSET Chunks, EndGroup(w, group) PROVE TypeOK'
  BY <1>14, Busy DEF EndGroup, Goto, Renewed, TypeOK
<1>15. ASSUME NEW w \in Workers, Project(w) PROVE TypeOK'
  BY <1>15, Busy DEF Project, Goto, Renewed, TypeOK
<1>16. ASSUME NEW w \in Workers, ExtractFails(w) PROVE TypeOK'
  BY <1>16, Busy DEF ExtractFails, Goto, TypeOK
<1>17. ASSUME NEW w \in Workers, Unwind(w) PROVE TypeOK'
  <2>1. pc' \in [Workers -> WorkerPcs]
    <3>1. pc'[w] \in {"failing"} \cup Requeuing /\ pc' = [pc EXCEPT ![w] = pc'[w]]
      BY <1>17 DEF Unwind, Goto, TypeOK
    <3> QED
      BY <3>1 DEF TypeOK
  <2>2. runs' \in [Documents -> [Chunks -> RunStatuses]]
    BY <1>17, Busy DEF Unwind, TypeOK
  <2>3. UNCHANGED <<documentVars, jobVars, outboxVars, redisVars, doc, beating, groupVars,
                    loopVars, faults>>
    BY <1>17 DEF Unwind, Goto
  <2> QED
    BY <2>1, <2>2, <2>3 DEF TypeOK
<1>18. ASSUME NEW w \in Workers, FailAttempt(w) PROVE TypeOK'
  <2>1. doc[w] \in Documents
    BY <1>18, Busy DEF FailAttempt
  <2>2. /\ job' \in [Documents -> JobStatuses]
        /\ docStatus' \in [Documents -> DocStatuses]
        /\ stage' \in [Documents -> GraphStages]
    <3>1. \/ job' = [job EXCEPT ![doc[w]] = "failed"]
          \/ job' = [job EXCEPT ![doc[w]] = "queued"]
      BY <1>18 DEF FailAttempt
    <3>2. docStatus' = docStatus \/ docStatus' = [docStatus EXCEPT ![doc[w]] = "failed"]
      BY <1>18 DEF FailAttempt
    <3>3. stage' = stage \/ stage' = [stage EXCEPT ![doc[w]] = "failed"]
      BY <1>18 DEF FailAttempt
    <3>4. job' \in [Documents -> JobStatuses]
      BY <3>1 DEF TypeOK
    <3>5. docStatus' \in [Documents -> DocStatuses]
      BY <3>2 DEF TypeOK
    <3>6. stage' \in [Documents -> GraphStages]
      BY <3>3 DEF TypeOK
    <3> QED
      BY <3>4, <3>5, <3>6
  <2>3. /\ lease' \in [Documents -> {"none", "live", "expired"}]
        /\ due' \in SUBSET Documents
        /\ published' \in [Documents -> 0..MaxOutboxAttempts]
    <3>1. lease' = [lease EXCEPT ![doc[w]] = "none"] /\ due' \subseteq due \cup {doc[w]}
      BY <1>18 DEF FailAttempt
    <3>2. published' = published \/ published' = [published EXCEPT ![doc[w]] = 0]
      BY <1>18 DEF FailAttempt
    <3>3. 0 \in 0..MaxOutboxAttempts
      OBVIOUS
    <3>4. published' \in [Documents -> 0..MaxOutboxAttempts]
      BY <3>2, <3>3 DEF TypeOK
    <3>5. due' \in SUBSET Documents
      BY <2>1, <3>1 DEF TypeOK
    <3> QED
      BY <2>1, <3>1, <3>4, <3>5 DEF TypeOK
  <2>4. pc' \in [Workers -> WorkerPcs] /\ UNCHANGED <<doc, beating>>
    BY <1>18 DEF FailAttempt, Goto, TypeOK
  <2>5. UNCHANGED <<attempt, attempts, runs, redisVars, groupVars, loopVars, faults>>
    BY <1>18 DEF FailAttempt
  <2> QED
    BY <2>2, <2>3, <2>4, <2>5 DEF TypeOK
<1>19. ASSUME NEW w \in Workers, Complete(w) PROVE TypeOK'
  BY <1>19, Busy DEF Complete, Goto, TypeOK
<1>20. ASSUME NEW w \in Workers, ExecuteErrors(w) PROVE TypeOK'
  BY <1>20, Busy DEF ExecuteErrors, Goto, TypeOK
<1>21. ASSUME NEW w \in Workers, Cancel(w) PROVE TypeOK'
  <2>1. pc' \in [Workers -> WorkerPcs] /\ UNCHANGED <<doc, beating>>
    BY <1>21 DEF Cancel, Goto, TypeOK
  <2>2. UNCHANGED <<documentVars, jobVars, outboxVars, runs, redisVars, groupVars, loopVars,
                    faults>>
    BY <1>21 DEF Cancel
  <2> QED
    BY <2>1, <2>2 DEF TypeOK
<1>22. ASSUME NEW w \in Workers, Requeue(w) PROVE TypeOK'
  <2>1. doc[w] \in Documents
    BY <1>22, Busy DEF Requeue
  <2>2. /\ job' \in [Documents -> JobStatuses]
        /\ lease' \in [Documents -> {"none", "live", "expired"}]
        /\ due' \in SUBSET Documents
        /\ published' \in [Documents -> 0..MaxOutboxAttempts]
    <3>1. \/ UNCHANGED <<job, lease, due, published>>
          \/ /\ job' = [job EXCEPT ![doc[w]] = "queued"]
             /\ lease' = [lease EXCEPT ![doc[w]] = "none"]
             /\ due' = due \cup {doc[w]}
             /\ published' = [published EXCEPT ![doc[w]] = 0]
      BY <1>22 DEF Requeue
    <3>2. 0 \in 0..MaxOutboxAttempts
      OBVIOUS
    <3>3. published' \in [Documents -> 0..MaxOutboxAttempts]
      BY <3>1, <3>2 DEF TypeOK
    <3>4. due' \in SUBSET Documents
      BY <2>1, <3>1 DEF TypeOK
    <3>5. job' \in [Documents -> JobStatuses]
      BY <3>1 DEF TypeOK
    <3>6. lease' \in [Documents -> {"none", "live", "expired"}]
      BY <3>1 DEF TypeOK
    <3> QED
      BY <3>3, <3>4, <3>5, <3>6
  <2>3. pc' \in [Workers -> WorkerPcs] /\ UNCHANGED <<doc, beating>>
    BY <1>22 DEF Requeue, Goto, TypeOK
  <2>4. UNCHANGED <<documentVars, attempt, attempts, runs, redisVars, groupVars, loopVars,
                    faults>>
    BY <1>22 DEF Requeue
  <2> QED
    BY <2>2, <2>3, <2>4 DEF TypeOK
<1>23. ASSUME NEW w \in Workers, Finish(w) PROVE TypeOK'
  BY <1>23, Busy DEF Finish, Idle, NoGroup, ForgetEntry, TypeOK
<1>24. ASSUME NEW w \in Workers, Rearm(w) PROVE TypeOK'
  BY <1>24, Busy DEF Rearm, Idle, NoGroup, KeepEntry, TypeOK
<1>25. ASSUME NEW w \in Workers, Crash(w) PROVE TypeOK'
  BY <1>25, Busy DEF Crash, Idle, NoGroup, KeepEntry, Fault, TypeOK
<1>26. ASSUME NEW w \in Workers, HeartbeatDies(w) PROVE TypeOK'
  BY <1>26, Busy DEF HeartbeatDies, Fault, TypeOK
<1>27. ASSUME NEW w \in Workers, RequeueErrors(w) PROVE TypeOK'
  BY <1>27, Busy DEF RequeueErrors, Goto, Fault, TypeOK
<1>28. ASSUME NEW p \in Pollers, ClaimOutbox(p) PROVE TypeOK'
  BY <1>28 DEF ClaimOutbox, Dispatchable, TypeOK
<1>29. ASSUME NEW p \in Pollers, NEW row \in batch[p], Publish(p, row) PROVE TypeOK'
  <2>1. row.doc \in Documents
    BY DEF TypeOK
  <2>2. QueueTypeOK'
    BY <1>29, <2>1, EnqueueType DEF Publish, TypeOK
  <2>3. batch' \in [Pollers -> SUBSET Claims]
    BY <1>29 DEF Publish, TypeOK
  <2> QED
    BY <1>29, <2>2, <2>3 DEF Publish, TypeOK
<1>30. ASSUME NEW p \in Pollers, NEW row \in batch[p], PublishFails(p, row) PROVE TypeOK'
  <2>1. row.doc \in Documents
    BY DEF TypeOK
  <2>2. QueueTypeOK'
    BY <1>30, <2>1, EnqueueType DEF PublishFails, TypeOK
  <2>3. batch' \in [Pollers -> SUBSET Claims]
    BY <1>30 DEF PublishFails, TypeOK
  <2>4. /\ job' \in [Documents -> JobStatuses]
        /\ docStatus' \in [Documents -> DocStatuses]
        /\ stage' \in [Documents -> GraphStages]
        /\ published' \in [Documents -> 0..MaxOutboxAttempts]
    BY <1>30, <2>1 DEF PublishFails, TypeOK
  <2> QED
    BY <1>30, <2>2, <2>3, <2>4 DEF PublishFails, TypeOK
<1>31. ASSUME NEW p \in Pollers, RecoverLeases(p) PROVE TypeOK'
  BY <1>31 DEF RecoverLeases, TypeOK
<1>32. ASSUME NEW p \in Pollers, NEW S \in SUBSET Documents, ExpirePublications(p, S)
      PROVE  TypeOK'
  BY <1>32 DEF ExpirePublications, TypeOK
<1>33. ASSUME NEW p \in Pollers, LoopAborts(p) PROVE TypeOK'
  BY <1>33 DEF LoopAborts, Fault, TypeOK
<1>34. ASSUME LoseRedis PROVE TypeOK'
  BY <1>34 DEF LoseRedis, LoseEntries, Fault, TypeOK
<1>35. CASE UNCHANGED vars
  BY <1>35 DEF vars, TypeOK
<1> QED
  BY <1>1, <1>2, <1>3, <1>4, <1>5, <1>6, <1>7, <1>8, <1>9, <1>10, <1>11, <1>12, <1>13, <1>14,
     <1>15, <1>16, <1>17, <1>18, <1>19, <1>20, <1>21, <1>22, <1>23, <1>24, <1>25, <1>26, <1>27,
     <1>28, <1>29, <1>30, <1>31, <1>32, <1>33, <1>34, <1>35
  DEF Next, DocumentStep, TimePasses, DeliverStep, WorkerStep, ExtractStep, LoopStep

(* Every step keeps the entries of the busy workers running and theirs alone. *)
LEMMA HeldStep ==
  ASSUME TypeOK, HeldEntries, SingleExtractor, [Next]_vars
  PROVE  HeldEntries' /\ SingleExtractor'
<1> USE NoDocumentAssumption
  DEF vars, documentVars, jobVars, outboxVars, redisVars, workerVars, groupVars, loopVars
<1>1. ASSUME NEW d \in Documents,
             Ingest(d) \/ IngestAgain(d) \/ Reupload(d) \/ BackoffEnds(d) \/
             LeaseExpires(d)
      PROVE  HeldEntries' /\ SingleExtractor'
  BY <1>1
  DEF Ingest, Enqueue, IngestAgain, Fault, Reupload, BackoffEnds, LeaseExpires, HeldEntries,
      SingleExtractor
<1>2. ASSUME NEW w \in Workers, NEW d \in Documents, Deliver(w, d)
      PROVE  HeldEntries' /\ SingleExtractor'
  BY <1>2 DEF Deliver, TakeEntry, TypeOK, QueueTypeOK, HeldEntries, SingleExtractor
<1>3. ASSUME NEW w \in Workers, NEW d \in Documents, DropExhausted(w, d)
      PROVE  HeldEntries' /\ SingleExtractor'
  BY <1>3
  DEF DropExhausted, DropEntry, ForgetEntry, TypeOK, QueueTypeOK, HeldEntries, SingleExtractor
<1>4. ASSUME NEW w \in Workers,
             SkipClaimed(w) \/ GiveUp(w) \/ RefuseDocument(w) \/ StartAttempt(w) \/
             Plan(w) \/ Project(w) \/ ExtractFails(w) \/ Unwind(w) \/
             FailAttempt(w) \/ Complete(w) \/ ExecuteErrors(w) \/ Cancel(w) \/
             Requeue(w) \/ RequeueErrors(w)
      PROVE  HeldEntries' /\ SingleExtractor'
  <2>1. UNCHANGED <<doc, redisVars>>
    BY <1>4 DEF SkipClaimed, Goto, GiveUp, Claimed, RefuseDocument, StartAttempt, Plan, Project,
           Renewed, ExtractFails, Unwind, FailAttempt, Complete, ExecuteErrors, Cancel,
           Requeue, RequeueErrors, Fault
  <2>2. pc[w] # "idle" /\ pc'[w] # "idle" /\ \A v \in Workers : v # w => pc'[v] = pc[v]
    BY <1>4 DEF SkipClaimed, Goto, GiveUp, Claimed, RefuseDocument, StartAttempt, Plan, Project,
           Renewed, ExtractFails, Unwind, FailAttempt, Complete, ExecuteErrors, Cancel,
           Requeue, RequeueErrors, Fault,
           Requeuing, TypeOK
  <2> QED
    BY <2>1, <2>2 DEF HeldEntries, SingleExtractor
<1>5. ASSUME NEW w \in Workers, NEW group \in SUBSET Chunks,
             StartGroup(w, group) \/ EndGroup(w, group)
      PROVE  HeldEntries' /\ SingleExtractor'
  <2>1. UNCHANGED <<doc, redisVars>>
    BY <1>5 DEF StartGroup, Goto, EndGroup, Renewed
  <2>2. pc[w] # "idle" /\ pc'[w] # "idle" /\ \A v \in Workers : v # w => pc'[v] = pc[v]
    BY <1>5 DEF StartGroup, Goto, EndGroup, Renewed,
           Requeuing, TypeOK
  <2> QED
    BY <2>1, <2>2 DEF HeldEntries, SingleExtractor
<1>6. ASSUME NEW w \in Workers, Finish(w) \/ Rearm(w) \/ Crash(w)
      PROVE  HeldEntries' /\ SingleExtractor'
  <2>1. doc[w] \in Documents
    BY <1>6, Busy DEF Finish, Rearm, Crash
  <2>2. /\ doc' = [doc EXCEPT ![w] = NoDocument]
        /\ pc' = [pc EXCEPT ![w] = "idle"]
        /\ UNCHANGED redisLost
    BY <1>6 DEF Finish, Idle, NoGroup, ForgetEntry, Rearm, KeepEntry, Crash, Fault
  <2>3. \A d \in Documents : d # doc[w] => queue'[d] = queue[d]
    BY <1>6, <2>1
    DEF Finish, Idle, NoGroup, ForgetEntry, Rearm, KeepEntry, Crash, Fault,
        TypeOK, QueueTypeOK
  <2>4. \A v \in Workers : v # w => doc'[v] = doc[v] /\ pc'[v] = pc[v]
    BY <2>2 DEF TypeOK
  <2>5. doc'[w] = NoDocument /\ pc'[w] = "idle"
    BY <2>2 DEF TypeOK
  <2>6. SingleExtractor'
    BY <2>2, <2>4, <2>5 DEF SingleExtractor
  <2>7. ASSUME ~redisLost, NEW v \in Workers, doc'[v] # NoDocument
        PROVE  queue'[doc'[v]] = "running"
    <3>1. v # w /\ doc'[v] = doc[v]
      BY <2>4, <2>5, <2>7
    <3>2. doc[v] \in Documents /\ doc[v] # doc[w]
      BY <2>7, <3>1 DEF TypeOK, SingleExtractor
    <3>3. queue[doc[v]] = "running"
      BY <2>7, <3>1 DEF HeldEntries
    <3> QED
      BY <2>3, <3>1, <3>2, <3>3
  <2> QED
    BY <2>2, <2>4, <2>5, <2>6, <2>7 DEF HeldEntries
<1>7. ASSUME NEW w \in Workers, HeartbeatDies(w) PROVE HeldEntries' /\ SingleExtractor'
  BY <1>7 DEF HeartbeatDies, Fault, HeldEntries, SingleExtractor
<1>8. ASSUME NEW p \in Pollers, ClaimOutbox(p) \/ RecoverLeases(p) \/ LoopAborts(p)
      PROVE  HeldEntries' /\ SingleExtractor'
  BY <1>8
  DEF ClaimOutbox, Dispatchable, RecoverLeases, LoopAborts, Fault, HeldEntries,
      SingleExtractor
<1>9. ASSUME NEW p \in Pollers, NEW row \in batch[p], Publish(p, row) \/ PublishFails(p, row)
      PROVE  HeldEntries' /\ SingleExtractor'
  BY <1>9
  DEF Publish, EnqueueJob, PublishFails, TypeOK, QueueTypeOK, HeldEntries, SingleExtractor
<1>10. ASSUME NEW p \in Pollers, NEW S \in SUBSET Documents, ExpirePublications(p, S)
      PROVE  HeldEntries' /\ SingleExtractor'
  BY <1>10 DEF ExpirePublications, HeldEntries, SingleExtractor
<1>11. ASSUME LoseRedis PROVE HeldEntries' /\ SingleExtractor'
  BY <1>11 DEF LoseRedis, LoseEntries, Fault, HeldEntries, SingleExtractor
<1>12. CASE UNCHANGED vars
  BY <1>12 DEF HeldEntries, SingleExtractor
<1> QED
  BY <1>1, <1>2, <1>3, <1>4, <1>5, <1>6, <1>7, <1>8, <1>9, <1>10, <1>11, <1>12
  DEF Next, DocumentStep, TimePasses, DeliverStep, WorkerStep, ExtractStep, LoopStep

(* No step deletes a job, or queues, claims or holds a document without one. *)
LEMMA JobsExistStep ==
  ASSUME TypeOK, HeldEntries, JobsExist, [Next]_vars
  PROVE  JobsExist'
<1> USE NoDocumentAssumption
  DEF vars, documentVars, jobVars, outboxVars, redisVars, workerVars, groupVars, loopVars
<1>1. ASSUME NEW d \in Documents,
             Ingest(d) \/ IngestAgain(d) \/ Reupload(d) \/ BackoffEnds(d) \/
             LeaseExpires(d)
      PROVE  JobsExist'
  <2>1. UNCHANGED <<doc, redisVars, batch>>
    BY <1>1 DEF Ingest, Enqueue, IngestAgain, Fault, Reupload, BackoffEnds, LeaseExpires
  <2>2. \A e \in Documents : job[e] # "absent" => job'[e] # "absent"
    BY <1>1 DEF Ingest, Enqueue, IngestAgain, Fault, Reupload, BackoffEnds, LeaseExpires, TypeOK
  <2>3. \A p \in Pollers : \A row \in batch[p] : row.doc \in Documents
    BY DEF TypeOK, Claims
  <2> QED
    BY <2>1, <2>2, <2>3 DEF JobsExist, TypeOK
<1>2. ASSUME NEW w \in Workers, NEW d \in Documents, Deliver(w, d) PROVE JobsExist'
  BY <1>2 DEF Deliver, TakeEntry, TypeOK, QueueTypeOK, JobsExist
<1>3. ASSUME NEW w \in Workers, NEW d \in Documents, DropExhausted(w, d) PROVE JobsExist'
  BY <1>3 DEF DropExhausted, DropEntry, ForgetEntry, TypeOK, QueueTypeOK, JobsExist
<1>4. ASSUME NEW w \in Workers,
             SkipClaimed(w) \/ GiveUp(w) \/ RefuseDocument(w) \/ StartAttempt(w) \/
             Plan(w) \/ Project(w) \/ ExtractFails(w) \/ Unwind(w) \/
             FailAttempt(w) \/ Complete(w) \/ ExecuteErrors(w) \/ Cancel(w) \/
             Requeue(w) \/ RequeueErrors(w) \/ HeartbeatDies(w)
      PROVE  JobsExist'
  <2>1. UNCHANGED <<doc, redisVars, batch>>
    BY <1>4 DEF SkipClaimed, Goto, GiveUp, Claimed, RefuseDocument, StartAttempt, Plan, Project,
           Renewed, ExtractFails, Unwind, FailAttempt, Complete, ExecuteErrors, Cancel,
           Requeue, RequeueErrors, Fault, HeartbeatDies
  <2>2. \A d \in Documents : job[d] # "absent" => job'[d] # "absent"
    BY <1>4
    DEF SkipClaimed, Goto, GiveUp, Claimed, RefuseDocument, StartAttempt, Plan, Project,
           Renewed, ExtractFails, Unwind, FailAttempt, Complete, ExecuteErrors, Cancel,
           Requeue, RequeueErrors, Fault, HeartbeatDies, TypeOK
  <2>3. \A p \in Pollers : \A row \in batch[p] : row.doc \in Documents
    BY DEF TypeOK, Claims
  <2> QED
    BY <2>1, <2>2, <2>3 DEF JobsExist, TypeOK
<1>5. ASSUME NEW w \in Workers, NEW group \in SUBSET Chunks,
             StartGroup(w, group) \/ EndGroup(w, group)
      PROVE  JobsExist'
  <2>1. UNCHANGED <<doc, redisVars, batch>>
    BY <1>5 DEF StartGroup, Goto, EndGroup, Renewed
  <2>2. \A d \in Documents : job[d] # "absent" => job'[d] # "absent"
    BY <1>5 DEF StartGroup, Goto, EndGroup, Renewed, TypeOK
  <2>3. \A p \in Pollers : \A row \in batch[p] : row.doc \in Documents
    BY DEF TypeOK, Claims
  <2> QED
    BY <2>1, <2>2, <2>3 DEF JobsExist, TypeOK
<1>6. ASSUME NEW w \in Workers, Finish(w) \/ Rearm(w) \/ Crash(w) PROVE JobsExist'
  <2>1. UNCHANGED <<job, batch>> /\ doc' = [doc EXCEPT ![w] = NoDocument]
    BY <1>6 DEF Finish, Idle, Rearm, Crash
  <2>2. doc[w] \in Documents /\ job[doc[w]] # "absent"
    BY <1>6, Busy, NoDocumentAssumption DEF Finish, Rearm, Crash, JobsExist
  <2>3. \A d \in Documents \ {doc[w]} : queue'[d] = queue[d]
    BY <1>6, <2>2 DEF Finish, ForgetEntry, Rearm, KeepEntry, Crash, TypeOK, QueueTypeOK
  <2> QED
    BY <2>1, <2>2, <2>3 DEF JobsExist, TypeOK
<1>7. ASSUME NEW p \in Pollers, ClaimOutbox(p) PROVE JobsExist'
  <2>1. UNCHANGED <<job, doc, queue>>
    BY <1>7 DEF ClaimOutbox
  <2>2. \A row \in batch'[p] : row.doc \in Documents /\ job[row.doc] # "absent"
    BY <1>7 DEF ClaimOutbox, Dispatchable, TypeOK
  <2>3. \A q \in Pollers : q # p => batch'[q] = batch[q]
    BY <1>7 DEF ClaimOutbox, TypeOK
  <2> QED
    BY <2>1, <2>2, <2>3 DEF JobsExist
<1>8. ASSUME NEW p \in Pollers, RecoverLeases(p) PROVE JobsExist'
  <2>1. UNCHANGED <<doc, redisVars, batch>>
    BY <1>8 DEF RecoverLeases
  <2>2. \A d \in Documents : job[d] # "absent" => job'[d] # "absent"
    BY <1>8 DEF RecoverLeases, TypeOK
  <2>3. \A q \in Pollers : \A row \in batch[q] : row.doc \in Documents
    BY DEF TypeOK, Claims
  <2> QED
    BY <2>1, <2>2, <2>3 DEF JobsExist, TypeOK
<1>9. ASSUME NEW p \in Pollers, NEW S \in SUBSET Documents, ExpirePublications(p, S)
      PROVE  JobsExist'
  <2>1. UNCHANGED <<doc, redisVars, batch>>
    BY <1>9 DEF ExpirePublications
  <2>2. \A d \in Documents : job[d] # "absent" => job'[d] # "absent"
    BY <1>9 DEF ExpirePublications, TypeOK
  <2>3. \A q \in Pollers : \A row \in batch[q] : row.doc \in Documents
    BY DEF TypeOK, Claims
  <2> QED
    BY <2>1, <2>2, <2>3 DEF JobsExist, TypeOK
<1>10. ASSUME NEW p \in Pollers, LoopAborts(p) PROVE JobsExist'
  BY <1>10 DEF LoopAborts, Fault, TypeOK, QueueTypeOK, JobsExist
<1>11. ASSUME NEW p \in Pollers, NEW row \in batch[p], Publish(p, row) \/ PublishFails(p, row)
      PROVE  JobsExist'
  <2>1. row.doc \in Documents /\ job[row.doc] # "absent"
    BY DEF TypeOK, Claims, JobsExist
  <2>2. \A d \in Documents : job[d] # "absent" => job'[d] # "absent"
    BY <1>11, <2>1 DEF Publish, PublishFails, TypeOK
  <2>3. \A d \in Documents : d # row.doc => queue'[d] = queue[d]
    BY <1>11, <2>1 DEF Publish, EnqueueJob, PublishFails, TypeOK, QueueTypeOK
  <2>4. \A q \in Pollers : batch'[q] \subseteq batch[q]
    BY <1>11 DEF Publish, PublishFails, TypeOK
  <2>5. \A q \in Pollers : \A r \in batch[q] : r.doc \in Documents
    BY DEF TypeOK, Claims
  <2>6. UNCHANGED doc
    BY <1>11 DEF Publish, PublishFails
  <2> QED
    BY <2>1, <2>2, <2>3, <2>4, <2>5, <2>6 DEF JobsExist, TypeOK
<1>12. ASSUME LoseRedis PROVE JobsExist'
  BY <1>12 DEF LoseRedis, LoseEntries, Fault, TypeOK, QueueTypeOK, JobsExist
<1>13. CASE UNCHANGED vars
  BY <1>13 DEF JobsExist
<1> QED
  BY <1>1, <1>2, <1>3, <1>4, <1>5, <1>6, <1>7, <1>8, <1>9, <1>10, <1>11, <1>12, <1>13
  DEF Next, DocumentStep, TimePasses, DeliverStep, WorkerStep, ExtractStep, LoopStep

(* No step extracts a chunk before its job is enqueued.                      *)
LEMMA NothingBeforeStep ==
  ASSUME TypeOK, HeldEntries, JobsExist, NothingBefore, [Next]_vars
  PROVE  NothingBefore'
<1> USE NoDocumentAssumption
  DEF vars, documentVars, jobVars, outboxVars, redisVars, workerVars, groupVars, loopVars
<1>1. ASSUME NEW d \in Documents, Ingest(d) \/ IngestAgain(d) PROVE NothingBefore'
  <2>1. job'[d] # "absent"
    BY <1>1 DEF Ingest, IngestAgain, Enqueue, TypeOK
  <2>2. \A e \in Documents : e # d => job'[e] = job[e] /\ runs'[e] = runs[e]
    BY <1>1 DEF Ingest, IngestAgain, Enqueue, TypeOK
  <2> QED
    BY <2>1, <2>2 DEF NothingBefore
<1>2. ASSUME NEW d \in Documents, Reupload(d) \/ BackoffEnds(d) \/ LeaseExpires(d)
      PROVE  NothingBefore'
  <2>1. UNCHANGED runs
    BY <1>2 DEF Reupload, BackoffEnds, LeaseExpires
  <2>2. \A e \in Documents : job'[e] = "absent" => job[e] = "absent"
    BY <1>2 DEF Reupload, BackoffEnds, LeaseExpires, TypeOK
  <2> QED
    BY <2>1, <2>2 DEF NothingBefore
<1>3. ASSUME NEW w \in Workers, NEW d \in Documents, Deliver(w, d) \/ DropExhausted(w, d)
      PROVE  NothingBefore'
  <2>1. UNCHANGED runs
    BY <1>3 DEF Deliver, TakeEntry, DropExhausted, DropEntry, ForgetEntry
  <2>2. \A e \in Documents : job'[e] = "absent" => job[e] = "absent"
    BY <1>3 DEF Deliver, TakeEntry, DropExhausted, DropEntry, ForgetEntry, TypeOK
  <2> QED
    BY <2>1, <2>2 DEF NothingBefore
<1>4. ASSUME NEW w \in Workers,
             SkipClaimed(w) \/ GiveUp(w) \/ RefuseDocument(w) \/ StartAttempt(w) \/
             Plan(w) \/ Project(w) \/ ExtractFails(w) \/ FailAttempt(w) \/
             Complete(w) \/ ExecuteErrors(w) \/ Cancel(w) \/ Requeue(w) \/
             RequeueErrors(w) \/ HeartbeatDies(w) \/ Finish(w) \/ Rearm(w) \/
             Crash(w)
      PROVE  NothingBefore'
  <2>1. UNCHANGED runs
    BY <1>4 DEF SkipClaimed, Goto, GiveUp, Claimed, RefuseDocument, StartAttempt, Plan, Project,
           Renewed, ExtractFails, FailAttempt, Complete, ExecuteErrors, Cancel, Requeue,
           RequeueErrors, Fault, HeartbeatDies, Finish, Idle, NoGroup, ForgetEntry, Rearm,
           KeepEntry, Crash
  <2>2. \A d \in Documents : job'[d] = "absent" => job[d] = "absent"
    BY <1>4
    DEF SkipClaimed, Goto, GiveUp, Claimed, RefuseDocument, StartAttempt, Plan, Project,
           Renewed, ExtractFails, FailAttempt, Complete, ExecuteErrors, Cancel, Requeue,
           RequeueErrors, Fault, HeartbeatDies, Finish, Idle, NoGroup, ForgetEntry, Rearm,
           KeepEntry, Crash, TypeOK
  <2> QED
    BY <2>1, <2>2 DEF NothingBefore
<1>5. ASSUME NEW p \in Pollers, ClaimOutbox(p) \/ RecoverLeases(p) \/ LoopAborts(p)
      PROVE  NothingBefore'
  <2>1. UNCHANGED runs
    BY <1>5 DEF ClaimOutbox, Dispatchable, RecoverLeases, LoopAborts, Fault
  <2>2. \A d \in Documents : job'[d] = "absent" => job[d] = "absent"
    BY <1>5 DEF ClaimOutbox, Dispatchable, RecoverLeases, LoopAborts, Fault, TypeOK
  <2> QED
    BY <2>1, <2>2 DEF NothingBefore
<1>6. ASSUME NEW p \in Pollers, NEW row \in batch[p], Publish(p, row) \/ PublishFails(p, row)
      PROVE  NothingBefore'
  <2>1. UNCHANGED runs
    BY <1>6 DEF Publish, EnqueueJob, PublishFails
  <2>2. \A d \in Documents : job'[d] = "absent" => job[d] = "absent"
    BY <1>6 DEF Publish, EnqueueJob, PublishFails, TypeOK
  <2> QED
    BY <2>1, <2>2 DEF NothingBefore
<1>7. ASSUME NEW p \in Pollers, NEW S \in SUBSET Documents, ExpirePublications(p, S)
      PROVE  NothingBefore'
  <2>1. UNCHANGED runs
    BY <1>7 DEF ExpirePublications
  <2>2. \A d \in Documents : job'[d] = "absent" => job[d] = "absent"
    BY <1>7 DEF ExpirePublications, TypeOK
  <2> QED
    BY <2>1, <2>2 DEF NothingBefore
<1>8. ASSUME NEW w \in Workers, NEW group \in SUBSET Chunks,
             StartGroup(w, group) \/ EndGroup(w, group)
      PROVE  NothingBefore'
  <2>1. doc[w] \in Documents /\ job[doc[w]] # "absent"
    BY <1>8, Busy DEF JobsExist, StartGroup, EndGroup
  <2>2. job' = job
    BY <1>8 DEF StartGroup, EndGroup
  <2>3. \A d \in Documents : d # doc[w] => runs'[d] = runs[d]
    BY <1>8, <2>1 DEF StartGroup, EndGroup, TypeOK
  <2> QED
    BY <2>1, <2>2, <2>3 DEF NothingBefore
<1>9. ASSUME NEW w \in Workers, Unwind(w) PROVE NothingBefore'
  <2>1. doc[w] \in Documents /\ job[doc[w]] # "absent"
    BY <1>9, Busy DEF JobsExist, Unwind
  <2>2. job' = job
    BY <1>9 DEF Unwind
  <2>3. \A d \in Documents : d # doc[w] => runs'[d] = runs[d]
    BY <1>9, <2>1 DEF Unwind, TypeOK
  <2> QED
    BY <2>1, <2>2, <2>3 DEF NothingBefore
<1>10. ASSUME LoseRedis PROVE NothingBefore'
  <2>1. UNCHANGED runs
    BY <1>10 DEF LoseRedis, LoseEntries, Fault
  <2>2. \A d \in Documents : job'[d] = "absent" => job[d] = "absent"
    BY <1>10 DEF LoseRedis, LoseEntries, Fault, TypeOK
  <2> QED
    BY <2>1, <2>2 DEF NothingBefore
<1>11. CASE UNCHANGED vars
  BY <1>11 DEF NothingBefore
<1> QED
  BY <1>1, <1>2, <1>3, <1>4, <1>5, <1>6, <1>7, <1>8, <1>9, <1>10, <1>11
  DEF Next, DocumentStep, TimePasses, DeliverStep, WorkerStep, ExtractStep, LoopStep

(* A step of one worker on its document leaves the work of the others open.  *)
LEMMA OthersStayOpen ==
  ASSUME TypeOK, HeldEntries, SingleExtractor, WorkIsOpen, ~redisLost,
         NEW w \in Workers, doc[w] \in Documents,
         \A d \in Documents : d # doc[w] => job'[d] = job[d] /\ runs'[d] = runs[d],
         \A v \in Workers : v # w => /\ pc'[v] = pc[v] /\ doc'[v] = doc[v]
                                   /\ pending'[v] = pending[v] /\ active'[v] = active[v]
  PROVE  \A v \in Workers : v # w => Open(v)'
<1> SUFFICES ASSUME NEW v \in Workers, v # w, pc[v] # "idle" PROVE Open(v)'
  BY DEF Open, Attempting, Extracting
<1>1. doc[v] \in Documents /\ doc[v] # doc[w]
  BY NoDocumentAssumption DEF TypeOK, HeldEntries, SingleExtractor
<1>2. job'[doc[v]] = job[doc[v]] /\ runs'[doc[v]] = runs[doc[v]]
  BY <1>1
<1>3. Open(v)
  BY DEF WorkIsOpen
<1> QED
  BY <1>2, <1>3 DEF Open

(* Every step keeps the work of every attempt open, and what it has done done. *)
LEMMA WorkStep ==
  ASSUME TypeOK, HeldEntries, SingleExtractor, JobsExist, WorkIsOpen, [Next]_vars
  PROVE  WorkIsOpen'
<1> USE NoDocumentAssumption
  DEF vars, documentVars, jobVars, outboxVars, redisVars, workerVars, groupVars, loopVars
<1>1. ASSUME NEW d \in Documents, Ingest(d) PROVE WorkIsOpen'
  <2>1. \A v \in Workers : doc[v] # d
    BY <1>1 DEF Ingest, JobsExist
  <2>2. UNCHANGED <<pc, doc, pending, active, redisLost>>
    BY <1>1 DEF Ingest, Enqueue
  <2>3. \A e \in Documents : e # d => job'[e] = job[e] /\ runs'[e] = runs[e]
    BY <1>1 DEF Ingest, Enqueue, TypeOK
  <2>4. \A v \in Workers : pc[v] \in Attempting => doc[v] \in Documents
    BY Busy DEF Attempting, Extracting
  <2>5. \A v \in Workers : pc[v] \in {"group", "calling", "completing"} => pc[v] \in Attempting
    BY DEF Attempting, Extracting
  <2> QED
    BY <2>1, <2>2, <2>3, <2>4, <2>5 DEF WorkIsOpen, Open
<1>2. ASSUME NEW d \in Documents, IngestAgain(d) PROVE WorkIsOpen'
  BY <1>2 DEF IngestAgain, Enqueue, Fault, WorkIsOpen
<1>3. ASSUME NEW d \in Documents, Reupload(d) \/ BackoffEnds(d) \/ LeaseExpires(d)
      PROVE  WorkIsOpen'
  <2>1. UNCHANGED <<pc, doc, runs, pending, active, redisLost>>
    BY <1>3 DEF Reupload, BackoffEnds, LeaseExpires
  <2>2. \A e \in Documents : job'[e] = "succeeded" => job[e] = "succeeded"
    BY <1>3 DEF Reupload, BackoffEnds, LeaseExpires, TypeOK
  <2>3. \A v \in Workers : pc[v] \in Attempting => doc[v] \in Documents
    BY Busy DEF Attempting, Extracting
  <2> QED
    BY <2>1, <2>2, <2>3 DEF WorkIsOpen, Open
<1>4. ASSUME NEW w \in Workers, NEW d \in Documents, DropExhausted(w, d) PROVE WorkIsOpen'
  <2>1. UNCHANGED <<pc, doc, runs, pending, active, redisLost>>
    BY <1>4 DEF DropExhausted, DropEntry, ForgetEntry
  <2>2. \A e \in Documents : job'[e] = "succeeded" => job[e] = "succeeded"
    BY <1>4 DEF DropExhausted, DropEntry, ForgetEntry, TypeOK
  <2>3. \A v \in Workers : pc[v] \in Attempting => doc[v] \in Documents
    BY Busy DEF Attempting, Extracting
  <2> QED
    BY <2>1, <2>2, <2>3 DEF WorkIsOpen, Open
<1>5. ASSUME NEW w \in Workers, HeartbeatDies(w) PROVE WorkIsOpen'
  <2>1. UNCHANGED <<pc, doc, runs, pending, active, redisLost>>
    BY <1>5 DEF HeartbeatDies, Fault
  <2>2. \A d \in Documents : job'[d] = "succeeded" => job[d] = "succeeded"
    BY <1>5 DEF HeartbeatDies, Fault, TypeOK
  <2>3. \A v \in Workers : pc[v] \in Attempting => doc[v] \in Documents
    BY Busy DEF Attempting, Extracting
  <2> QED
    BY <2>1, <2>2, <2>3 DEF WorkIsOpen, Open
<1>6. ASSUME NEW p \in Pollers, ClaimOutbox(p) \/ RecoverLeases(p) \/ LoopAborts(p)
      PROVE  WorkIsOpen'
  <2>1. UNCHANGED <<pc, doc, runs, pending, active, redisLost>>
    BY <1>6 DEF ClaimOutbox, Dispatchable, RecoverLeases, LoopAborts, Fault
  <2>2. \A d \in Documents : job'[d] = "succeeded" => job[d] = "succeeded"
    BY <1>6 DEF ClaimOutbox, Dispatchable, RecoverLeases, LoopAborts, Fault, TypeOK
  <2>3. \A v \in Workers : pc[v] \in Attempting => doc[v] \in Documents
    BY Busy DEF Attempting, Extracting
  <2> QED
    BY <2>1, <2>2, <2>3 DEF WorkIsOpen, Open
<1>7. ASSUME NEW p \in Pollers, NEW row \in batch[p], Publish(p, row) \/ PublishFails(p, row)
      PROVE  WorkIsOpen'
  <2>1. UNCHANGED <<pc, doc, runs, pending, active, redisLost>>
    BY <1>7 DEF Publish, EnqueueJob, PublishFails
  <2>2. \A d \in Documents : job'[d] = "succeeded" => job[d] = "succeeded"
    BY <1>7 DEF Publish, EnqueueJob, PublishFails, TypeOK
  <2>3. \A v \in Workers : pc[v] \in Attempting => doc[v] \in Documents
    BY Busy DEF Attempting, Extracting
  <2> QED
    BY <2>1, <2>2, <2>3 DEF WorkIsOpen, Open
<1>8. ASSUME NEW p \in Pollers, NEW S \in SUBSET Documents, ExpirePublications(p, S)
      PROVE  WorkIsOpen'
  <2>1. UNCHANGED <<pc, doc, runs, pending, active, redisLost>>
    BY <1>8 DEF ExpirePublications
  <2>2. \A d \in Documents : job'[d] = "succeeded" => job[d] = "succeeded"
    BY <1>8 DEF ExpirePublications, TypeOK
  <2>3. \A v \in Workers : pc[v] \in Attempting => doc[v] \in Documents
    BY Busy DEF Attempting, Extracting
  <2> QED
    BY <2>1, <2>2, <2>3 DEF WorkIsOpen, Open
<1>9. ASSUME LoseRedis PROVE WorkIsOpen'
  BY <1>9 DEF LoseRedis, LoseEntries, Fault, WorkIsOpen
<1>10. ASSUME NEW w \in Workers, NEW d \in Documents, Deliver(w, d) PROVE WorkIsOpen'
  <2>1. UNCHANGED <<job, runs, pending, active, redisLost>>
    BY <1>10 DEF Deliver, TakeEntry
  <2>2. pc'[w] = "claim" /\ \A v \in Workers : v # w => pc'[v] = pc[v] /\ doc'[v] = doc[v]
    BY <1>10 DEF Deliver, TypeOK
  <2> QED
    BY <2>1, <2>2 DEF WorkIsOpen, Open, Attempting, Extracting
<1>11. ASSUME NEW w \in Workers,
             SkipClaimed(w) \/ GiveUp(w) \/ RefuseDocument(w) \/ FailAttempt(w) \/
             Complete(w)
      PROVE  WorkIsOpen'
  <2> SUFFICES ASSUME ~redisLost PROVE WorkIsOpen'
    BY <1>11
    DEF WorkIsOpen, SkipClaimed, Goto, GiveUp, Claimed, RefuseDocument, FailAttempt, Complete
  <2>1. doc[w] \in Documents
    BY <1>11, Busy DEF SkipClaimed, GiveUp, RefuseDocument, FailAttempt, Complete, Requeuing
  <2>2. \A v \in Workers : v # w => Open(v)'
    <3>1. \A d \in Documents : d # doc[w] => job'[d] = job[d] /\ runs'[d] = runs[d]
      BY <1>11, <2>1
      DEF SkipClaimed, Goto, GiveUp, Claimed, RefuseDocument, FailAttempt, Complete, TypeOK
    <3>2. \A v \in Workers : v # w => /\ pc'[v] = pc[v] /\ doc'[v] = doc[v]
                                    /\ pending'[v] = pending[v] /\ active'[v] = active[v]
      BY <1>11 DEF SkipClaimed, Goto, GiveUp, Claimed, RefuseDocument, FailAttempt, Complete, TypeOK
    <3> QED
      BY <2>1, <3>1, <3>2, OthersStayOpen
  <2>3. Open(w)'
    BY <1>11
    DEF SkipClaimed, Goto, GiveUp, Claimed, RefuseDocument, FailAttempt, Complete,
        Requeuing, Open, Attempting, Extracting, TypeOK
  <2> QED
    BY <2>2, <2>3 DEF WorkIsOpen
<1>12. ASSUME NEW w \in Workers, ExecuteErrors(w) \/ Requeue(w) \/ RequeueErrors(w)
      PROVE  WorkIsOpen'
  <2> SUFFICES ASSUME ~redisLost PROVE WorkIsOpen'
    BY <1>12 DEF WorkIsOpen, ExecuteErrors, Goto, Requeue, RequeueErrors, Fault
  <2>1. doc[w] \in Documents
    BY <1>12, Busy DEF ExecuteErrors, Requeue, RequeueErrors, Requeuing
  <2>2. \A v \in Workers : v # w => Open(v)'
    <3>1. \A d \in Documents : d # doc[w] => job'[d] = job[d] /\ runs'[d] = runs[d]
      BY <1>12, <2>1 DEF ExecuteErrors, Goto, Requeue, RequeueErrors, Fault, TypeOK
    <3>2. \A v \in Workers : v # w => /\ pc'[v] = pc[v] /\ doc'[v] = doc[v]
                                    /\ pending'[v] = pending[v] /\ active'[v] = active[v]
      BY <1>12 DEF ExecuteErrors, Goto, Requeue, RequeueErrors, Fault, TypeOK
    <3> QED
      BY <2>1, <3>1, <3>2, OthersStayOpen
  <2>3. Open(w)'
    BY <1>12
    DEF ExecuteErrors, Goto, Requeue, RequeueErrors, Fault,
        Requeuing, Open, Attempting, Extracting, TypeOK
  <2> QED
    BY <2>2, <2>3 DEF WorkIsOpen
<1>13. ASSUME NEW w \in Workers, Finish(w) \/ Rearm(w) \/ Crash(w) PROVE WorkIsOpen'
  <2> SUFFICES ASSUME ~redisLost PROVE WorkIsOpen'
    BY <1>13 DEF WorkIsOpen, Finish, Idle, NoGroup, ForgetEntry, Rearm, KeepEntry, Crash, Fault
  <2>1. doc[w] \in Documents
    BY <1>13, Busy DEF Finish, Rearm, Crash, Requeuing
  <2>2. \A v \in Workers : v # w => Open(v)'
    <3>1. \A d \in Documents : d # doc[w] => job'[d] = job[d] /\ runs'[d] = runs[d]
      BY <1>13, <2>1
      DEF Finish, Idle, NoGroup, ForgetEntry, Rearm, KeepEntry, Crash, Fault, TypeOK
    <3>2. \A v \in Workers : v # w => /\ pc'[v] = pc[v] /\ doc'[v] = doc[v]
                                    /\ pending'[v] = pending[v] /\ active'[v] = active[v]
      BY <1>13 DEF Finish, Idle, NoGroup, ForgetEntry, Rearm, KeepEntry, Crash, Fault, TypeOK
    <3> QED
      BY <2>1, <3>1, <3>2, OthersStayOpen
  <2>3. Open(w)'
    BY <1>13
    DEF Finish, Idle, NoGroup, ForgetEntry, Rearm, KeepEntry, Crash, Fault,
        Requeuing, Open, Attempting, Extracting, TypeOK
  <2> QED
    BY <2>2, <2>3 DEF WorkIsOpen
<1>14. ASSUME NEW w \in Workers, StartAttempt(w) PROVE WorkIsOpen'
  <2> SUFFICES ASSUME ~redisLost PROVE WorkIsOpen'
    BY <1>14 DEF WorkIsOpen, StartAttempt, Goto, Claimed
  <2>1. doc[w] \in Documents
    BY <1>14, Busy DEF StartAttempt, Requeuing
  <2>2. \A v \in Workers : v # w => Open(v)'
    <3>1. \A d \in Documents : d # doc[w] => job'[d] = job[d] /\ runs'[d] = runs[d]
      BY <1>14, <2>1 DEF StartAttempt, Goto, Claimed, TypeOK
    <3>2. \A v \in Workers : v # w => /\ pc'[v] = pc[v] /\ doc'[v] = doc[v]
                                    /\ pending'[v] = pending[v] /\ active'[v] = active[v]
      BY <1>14 DEF StartAttempt, Goto, Claimed, TypeOK
    <3> QED
      BY <2>1, <3>1, <3>2, OthersStayOpen
  <2>3. Open(w)'
    BY <1>14, <2>1 DEF StartAttempt, Goto, Open, TypeOK
  <2> QED
    BY <2>2, <2>3 DEF WorkIsOpen
<1>15. ASSUME NEW w \in Workers, Plan(w) PROVE WorkIsOpen'
  <2> SUFFICES ASSUME ~redisLost PROVE WorkIsOpen'
    BY <1>15 DEF WorkIsOpen, Plan, Goto
  <2>1. doc[w] \in Documents
    BY <1>15, Busy DEF Plan, Requeuing
  <2>2. \A v \in Workers : v # w => Open(v)'
    <3>1. \A d \in Documents : d # doc[w] => job'[d] = job[d] /\ runs'[d] = runs[d]
      BY <1>15, <2>1 DEF Plan, Goto, TypeOK
    <3>2. \A v \in Workers : v # w => /\ pc'[v] = pc[v] /\ doc'[v] = doc[v]
                                    /\ pending'[v] = pending[v] /\ active'[v] = active[v]
      BY <1>15 DEF Plan, Goto, TypeOK
    <3> QED
      BY <2>1, <3>1, <3>2, OthersStayOpen
  <2>3. Open(w)'
    <3>1. Open(w)
      BY DEF WorkIsOpen
    <3> QED
      BY <1>15, <2>1, <3>1 DEF Plan, Goto, Open, Attempting, Extracting, TypeOK
  <2> QED
    BY <2>2, <2>3 DEF WorkIsOpen
<1>16. ASSUME NEW w \in Workers, NEW group \in SUBSET Chunks, StartGroup(w, group)
      PROVE  WorkIsOpen'
  <2> SUFFICES ASSUME ~redisLost PROVE WorkIsOpen'
    BY <1>16 DEF WorkIsOpen, StartGroup, Goto
  <2>1. doc[w] \in Documents
    BY <1>16, Busy DEF StartGroup, Requeuing
  <2>2. \A v \in Workers : v # w => Open(v)'
    <3>1. \A d \in Documents : d # doc[w] => job'[d] = job[d] /\ runs'[d] = runs[d]
      BY <1>16, <2>1 DEF StartGroup, Goto, TypeOK
    <3>2. \A v \in Workers : v # w => /\ pc'[v] = pc[v] /\ doc'[v] = doc[v]
                                    /\ pending'[v] = pending[v] /\ active'[v] = active[v]
      BY <1>16 DEF StartGroup, Goto, TypeOK
    <3> QED
      BY <2>1, <3>1, <3>2, OthersStayOpen
  <2>3. Open(w)'
    <3>1. Open(w)
      BY DEF WorkIsOpen
    <3>2. \A c \in Chunks : c \in pending[w] <=> runs[doc[w]][c] # "succeeded"
      BY <1>16, <3>1 DEF StartGroup, Open
    <3>3. \A c \in Chunks : runs'[doc[w]][c] # "succeeded" <=> runs[doc[w]][c] # "succeeded"
      BY <1>16, <2>1, <3>2 DEF StartGroup, TypeOK
    <3>4. /\ pc[w] = "group" /\ pc'[w] = "calling" /\ doc' = doc /\ job' = job
          /\ active'[w] \subseteq pending[w] /\ pending' = pending
      BY <1>16 DEF StartGroup, Goto, TypeOK
    <3> QED
      BY <3>1, <3>3, <3>4 DEF Open, Attempting, Extracting
  <2> QED
    BY <2>2, <2>3 DEF WorkIsOpen
<1>17. ASSUME NEW w \in Workers, NEW group \in SUBSET Chunks, EndGroup(w, group)
      PROVE  WorkIsOpen'
  <2> SUFFICES ASSUME ~redisLost PROVE WorkIsOpen'
    BY <1>17 DEF WorkIsOpen, EndGroup, Goto, Renewed
  <2>1. doc[w] \in Documents
    BY <1>17, Busy DEF EndGroup, Requeuing
  <2>2. \A v \in Workers : v # w => Open(v)'
    <3>1. \A d \in Documents : d # doc[w] => job'[d] = job[d] /\ runs'[d] = runs[d]
      BY <1>17, <2>1 DEF EndGroup, Goto, Renewed, TypeOK
    <3>2. \A v \in Workers : v # w => /\ pc'[v] = pc[v] /\ doc'[v] = doc[v]
                                    /\ pending'[v] = pending[v] /\ active'[v] = active[v]
      BY <1>17 DEF EndGroup, Goto, Renewed, TypeOK
    <3> QED
      BY <2>1, <3>1, <3>2, OthersStayOpen
  <2>3. Open(w)'
    <3>1. Open(w) /\ pc[w] = "calling"
      BY <1>17 DEF EndGroup, WorkIsOpen
    <3>2. UNCHANGED <<job, doc>> /\ job[doc[w]] # "succeeded"
      BY <1>17, <3>1 DEF EndGroup, Goto, Open, Attempting, Extracting
    <3>3. CASE group = active[w]
      <4>1. pc'[w] = "group" /\ pending'[w] = pending[w] \ active[w]
        BY <1>17, <3>3 DEF EndGroup, Goto, TypeOK
      <4>2. \A c \in Chunks : runs'[doc[w]][c] # "succeeded"
                              <=> runs[doc[w]][c] # "succeeded" /\ c \notin active[w]
        BY <1>17, <2>1, <3>3 DEF EndGroup, TypeOK
      <4>3. pending'[w] = {c \in Chunks : runs'[doc[w]][c] # "succeeded"}
        BY <3>1, <4>1, <4>2 DEF Open
      <4> QED
        BY <3>2, <4>1, <4>3 DEF Open
    <3>4. CASE group # active[w]
      BY <1>17, <3>2, <3>4 DEF EndGroup, Goto, Open, TypeOK
    <3> QED
      BY <3>3, <3>4
  <2> QED
    BY <2>2, <2>3 DEF WorkIsOpen
<1>18. ASSUME NEW w \in Workers, Project(w) PROVE WorkIsOpen'
  <2> SUFFICES ASSUME ~redisLost PROVE WorkIsOpen'
    BY <1>18 DEF WorkIsOpen, Project, Goto, Renewed
  <2>1. doc[w] \in Documents
    BY <1>18, Busy DEF Project, Requeuing
  <2>2. \A v \in Workers : v # w => Open(v)'
    <3>1. \A d \in Documents : d # doc[w] => job'[d] = job[d] /\ runs'[d] = runs[d]
      BY <1>18, <2>1 DEF Project, Goto, Renewed, TypeOK
    <3>2. \A v \in Workers : v # w => /\ pc'[v] = pc[v] /\ doc'[v] = doc[v]
                                    /\ pending'[v] = pending[v] /\ active'[v] = active[v]
      BY <1>18 DEF Project, Goto, Renewed, TypeOK
    <3> QED
      BY <2>1, <3>1, <3>2, OthersStayOpen
  <2>3. Open(w)'
    <3>1. Open(w)
      BY DEF WorkIsOpen
    <3>2. /\ pc[w] = "group" /\ pending[w] = {} /\ pc'[w] = "completing"
          /\ UNCHANGED <<job, doc, runs>>
      BY <1>18 DEF Project, Goto, TypeOK
    <3> QED
      BY <3>1, <3>2 DEF Open, Attempting, Extracting
  <2> QED
    BY <2>2, <2>3 DEF WorkIsOpen
<1>19. ASSUME NEW w \in Workers, ExtractFails(w) \/ Unwind(w) \/ Cancel(w) PROVE WorkIsOpen'
  <2> SUFFICES ASSUME ~redisLost PROVE WorkIsOpen'
    BY <1>19 DEF WorkIsOpen, ExtractFails, Goto, Unwind, Cancel
  <2>1. doc[w] \in Documents
    BY <1>19, Busy DEF ExtractFails, Unwind, Cancel, Requeuing
  <2>2. \A v \in Workers : v # w => Open(v)'
    <3>1. \A d \in Documents : d # doc[w] => job'[d] = job[d] /\ runs'[d] = runs[d]
      BY <1>19, <2>1 DEF ExtractFails, Goto, Unwind, Cancel, TypeOK
    <3>2. \A v \in Workers : v # w => /\ pc'[v] = pc[v] /\ doc'[v] = doc[v]
                                    /\ pending'[v] = pending[v] /\ active'[v] = active[v]
      BY <1>19 DEF ExtractFails, Goto, Unwind, Cancel, TypeOK
    <3> QED
      BY <2>1, <3>1, <3>2, OthersStayOpen
  <2>3. Open(w)'
    <3>1. Open(w)
      BY DEF WorkIsOpen
    <3>2. pc[w] \in Attempting \/ pc'[w] \in Requeuing
      BY <1>19 DEF ExtractFails, Goto, Unwind, Cancel, Attempting, Extracting, TypeOK
    <3>3. pc'[w] \in {"unwinding", "failing", "cancelling"} \cup Requeuing
      BY <1>19 DEF ExtractFails, Goto, Unwind, Cancel, TypeOK
    <3>4. UNCHANGED <<job, doc>>
      BY <1>19 DEF ExtractFails, Goto, Unwind, Cancel
    <3> QED
      BY <3>1, <3>2, <3>3, <3>4 DEF Open, Requeuing, Attempting, Extracting
  <2> QED
    BY <2>2, <2>3 DEF WorkIsOpen
<1>20. CASE UNCHANGED vars
  BY <1>20 DEF WorkIsOpen, Open
<1> QED
  BY <1>1, <1>2, <1>3, <1>4, <1>5, <1>6, <1>7, <1>8, <1>9, <1>10, <1>11, <1>12, <1>13, <1>14,
     <1>15, <1>16, <1>17, <1>18, <1>19, <1>20
  DEF Next, DocumentStep, TimePasses, DeliverStep, WorkerStep, ExtractStep, LoopStep

(* Every step that lets a job run, or lets it run on, leaves it a lease.     *)
LEMMA LeasedStep ==
  ASSUME TypeOK, HeldEntries, RunningIsLeased, [Next]_vars
  PROVE  RunningIsLeased'
<1> USE DEF vars, documentVars, jobVars, outboxVars, redisVars, workerVars, groupVars, loopVars
<1>1. ASSUME NEW d \in Documents, Ingest(d) \/ IngestAgain(d) PROVE RunningIsLeased'
  BY <1>1 DEF Ingest, Enqueue, IngestAgain, Fault, TypeOK, RunningIsLeased
<1>2. ASSUME NEW d \in Documents, Reupload(d) \/ BackoffEnds(d) \/ LeaseExpires(d)
      PROVE  RunningIsLeased'
  BY <1>2 DEF Reupload, BackoffEnds, LeaseExpires, TypeOK, RunningIsLeased
<1>3. ASSUME NEW w \in Workers, NEW d \in Documents, Deliver(w, d) \/ DropExhausted(w, d)
      PROVE  RunningIsLeased'
  BY <1>3 DEF Deliver, TakeEntry, DropExhausted, DropEntry, ForgetEntry, TypeOK, RunningIsLeased
<1>4. ASSUME NEW w \in Workers,
             SkipClaimed(w) \/ RefuseDocument(w) \/ Plan(w) \/ ExtractFails(w) \/
             Unwind(w) \/ ExecuteErrors(w) \/ Cancel(w) \/ Finish(w) \/ Rearm(w) \/
             Crash(w) \/ HeartbeatDies(w) \/ RequeueErrors(w)
      PROVE  RunningIsLeased'
  BY <1>4
  DEF SkipClaimed, Goto, RefuseDocument, Plan, ExtractFails, Unwind, ExecuteErrors, Cancel,
      Finish, Idle, NoGroup, ForgetEntry, Rearm, KeepEntry, Crash, Fault, HeartbeatDies,
      RequeueErrors, TypeOK, RunningIsLeased
<1>5. ASSUME NEW w \in Workers,
             GiveUp(w) \/ StartAttempt(w) \/ Project(w) \/ FailAttempt(w) \/
             Complete(w) \/ Requeue(w)
      PROVE  RunningIsLeased'
  BY <1>5, Busy
  DEF GiveUp, Goto, Claimed, StartAttempt, Project, Renewed, FailAttempt, Complete, Requeue,
      TypeOK, RunningIsLeased
<1>6. ASSUME NEW w \in Workers, NEW group \in SUBSET Chunks,
             StartGroup(w, group) \/ EndGroup(w, group)
      PROVE  RunningIsLeased'
  BY <1>6, Busy DEF StartGroup, Goto, EndGroup, Renewed, TypeOK, RunningIsLeased
<1>7. ASSUME NEW p \in Pollers, ClaimOutbox(p) \/ LoopAborts(p) PROVE RunningIsLeased'
  BY <1>7 DEF ClaimOutbox, Dispatchable, LoopAborts, Fault, TypeOK, RunningIsLeased
<1>8. ASSUME NEW p \in Pollers, RecoverLeases(p) PROVE RunningIsLeased'
  BY <1>8 DEF RecoverLeases, TypeOK, RunningIsLeased
<1>9. ASSUME NEW p \in Pollers, NEW row \in batch[p], Publish(p, row) \/ PublishFails(p, row)
      PROVE  RunningIsLeased'
  BY <1>9 DEF Publish, EnqueueJob, PublishFails, TypeOK, RunningIsLeased
<1>10. ASSUME NEW p \in Pollers, NEW S \in SUBSET Documents, ExpirePublications(p, S)
      PROVE  RunningIsLeased'
  BY <1>10 DEF ExpirePublications, TypeOK, RunningIsLeased
<1>11. ASSUME LoseRedis PROVE RunningIsLeased'
  BY <1>11 DEF LoseRedis, LoseEntries, Fault, TypeOK, RunningIsLeased
<1>12. CASE UNCHANGED vars
  BY <1>12 DEF RunningIsLeased
<1> QED
  BY <1>1, <1>2, <1>3, <1>4, <1>5, <1>6, <1>7, <1>8, <1>9, <1>10, <1>11, <1>12
  DEF Next, DocumentStep, TimePasses, DeliverStep, WorkerStep, ExtractStep, LoopStep

(* What a step may do to a job that has succeeded: nothing, while Redis keeps *)
(* its data, unless its publication attempts are spent.                      *)
SuccessStands ==
  \A d \in Documents : job[d] = "succeeded" /\ ~redisLost =>
    /\ runs'[d] = runs[d]
    /\ attempts[d] < MaxOutboxAttempts =>
         /\ job'[d] = "succeeded"
         /\ docStatus[d] = "indexed" => docStatus'[d] = "indexed" /\ stage'[d] = stage[d]

(* No step disturbs a succeeded job.                                         *)
LEMMA SuccessStep ==
  ASSUME IndInv, [Next]_vars
  PROVE  SuccessStands
<1> USE DEF vars, documentVars, jobVars, outboxVars, redisVars, workerVars, groupVars, loopVars
<1>1. ASSUME NEW d \in Documents, Ingest(d) \/ IngestAgain(d) PROVE SuccessStands
  BY <1>1 DEF Ingest, Enqueue, IngestAgain, Fault, SuccessStands, IndInv, TypeOK
<1>2. ASSUME NEW d \in Documents, Reupload(d) \/ BackoffEnds(d) \/ LeaseExpires(d)
      PROVE  SuccessStands
  BY <1>2 DEF Reupload, BackoffEnds, LeaseExpires, SuccessStands, IndInv, TypeOK
<1>3. ASSUME NEW w \in Workers, NEW d \in Documents, Deliver(w, d) \/ DropExhausted(w, d)
      PROVE  SuccessStands
  BY <1>3
  DEF Deliver, TakeEntry, DropExhausted, DropEntry, ForgetEntry, SuccessStands, IndInv, TypeOK
<1>4. ASSUME NEW w \in Workers,
             SkipClaimed(w) \/ RefuseDocument(w) \/ Plan(w) \/ Project(w) \/
             ExtractFails(w) \/ ExecuteErrors(w) \/ Cancel(w) \/ Finish(w) \/
             Rearm(w) \/ Crash(w) \/ HeartbeatDies(w) \/ RequeueErrors(w)
      PROVE  SuccessStands
  BY <1>4
  DEF SkipClaimed, Goto, RefuseDocument, Plan, Project, Renewed, ExtractFails, ExecuteErrors,
      Cancel, Finish, Idle, NoGroup, ForgetEntry, Rearm, KeepEntry, Crash, Fault,
      HeartbeatDies, RequeueErrors, SuccessStands
<1>5. ASSUME NEW w \in Workers, GiveUp(w) \/ StartAttempt(w) PROVE SuccessStands
  BY <1>5, Busy DEF GiveUp, Goto, Claimed, StartAttempt, SuccessStands, IndInv, TypeOK
<1>6. ASSUME NEW w \in Workers, Requeue(w) PROVE SuccessStands
  BY <1>6, Busy DEF Requeue, Goto, SuccessStands, IndInv, TypeOK
<1>7. ASSUME NEW w \in Workers, NEW group \in SUBSET Chunks, StartGroup(w, group)
      PROVE  SuccessStands
  <2>1. doc[w] \in Documents
    BY <1>7, Busy DEF IndInv, StartGroup, Requeuing
  <2>2. ~redisLost => job[doc[w]] # "succeeded"
    BY <1>7 DEF IndInv, WorkIsOpen, Open, Attempting, Extracting,
              StartGroup
  <2>3. \A d \in Documents : d # doc[w] =>
          /\ runs'[d] = runs[d] /\ job'[d] = job[d]
          /\ docStatus'[d] = docStatus[d] /\ stage'[d] = stage[d]
    BY <1>7, <2>1 DEF IndInv, TypeOK, StartGroup, Goto
  <2> QED
    BY <2>2, <2>3 DEF SuccessStands
<1>8. ASSUME NEW w \in Workers, NEW group \in SUBSET Chunks, EndGroup(w, group)
      PROVE  SuccessStands
  <2>1. doc[w] \in Documents
    BY <1>8, Busy DEF IndInv, EndGroup, Requeuing
  <2>2. ~redisLost => job[doc[w]] # "succeeded"
    BY <1>8 DEF IndInv, WorkIsOpen, Open, Attempting, Extracting,
              EndGroup
  <2>3. \A d \in Documents : d # doc[w] =>
          /\ runs'[d] = runs[d] /\ job'[d] = job[d]
          /\ docStatus'[d] = docStatus[d] /\ stage'[d] = stage[d]
    BY <1>8, <2>1 DEF IndInv, TypeOK, EndGroup, Goto, Renewed
  <2> QED
    BY <2>2, <2>3 DEF SuccessStands
<1>9. ASSUME NEW w \in Workers, FailAttempt(w) PROVE SuccessStands
  <2>1. doc[w] \in Documents
    BY <1>9, Busy DEF IndInv, FailAttempt, Requeuing
  <2>2. ~redisLost => job[doc[w]] # "succeeded"
    BY <1>9 DEF IndInv, WorkIsOpen, Open, Attempting, Extracting,
              FailAttempt
  <2>3. \A d \in Documents : d # doc[w] =>
          /\ runs'[d] = runs[d] /\ job'[d] = job[d]
          /\ docStatus'[d] = docStatus[d] /\ stage'[d] = stage[d]
    BY <1>9, <2>1 DEF IndInv, TypeOK, FailAttempt, Goto
  <2> QED
    BY <2>2, <2>3 DEF SuccessStands
<1>10. ASSUME NEW w \in Workers, Complete(w) PROVE SuccessStands
  <2>1. doc[w] \in Documents
    BY <1>10, Busy DEF IndInv, Complete, Requeuing
  <2>2. ~redisLost => job[doc[w]] # "succeeded"
    BY <1>10 DEF IndInv, WorkIsOpen, Open, Attempting, Extracting,
              Complete
  <2>3. \A d \in Documents : d # doc[w] =>
          /\ runs'[d] = runs[d] /\ job'[d] = job[d]
          /\ docStatus'[d] = docStatus[d] /\ stage'[d] = stage[d]
    BY <1>10, <2>1 DEF IndInv, TypeOK, Complete, Goto
  <2> QED
    BY <2>2, <2>3 DEF SuccessStands
<1>11. ASSUME NEW w \in Workers, Unwind(w) PROVE SuccessStands
  <2>1. doc[w] \in Documents
    BY <1>11, Busy DEF IndInv, Unwind
  <2>2. ~redisLost => job[doc[w]] # "succeeded"
    BY <1>11 DEF IndInv, WorkIsOpen, Open, Attempting, Extracting, Unwind
  <2>3. \A d \in Documents : d # doc[w] => runs'[d] = runs[d]
    BY <1>11, <2>1 DEF IndInv, TypeOK, Unwind
  <2>4. UNCHANGED <<job, docStatus, stage>>
    BY <1>11 DEF Unwind
  <2> QED
    BY <2>2, <2>3, <2>4 DEF SuccessStands
<1>12. ASSUME NEW p \in Pollers, ClaimOutbox(p) \/ LoopAborts(p) PROVE SuccessStands
  BY <1>12 DEF ClaimOutbox, Dispatchable, LoopAborts, Fault, SuccessStands
<1>13. ASSUME NEW p \in Pollers, RecoverLeases(p) PROVE SuccessStands
  BY <1>13 DEF RecoverLeases, SuccessStands, IndInv, TypeOK
<1>14. ASSUME NEW p \in Pollers, NEW row \in batch[p], Publish(p, row) PROVE SuccessStands
  BY <1>14 DEF Publish, EnqueueJob, SuccessStands
<1>15. ASSUME NEW p \in Pollers, NEW row \in batch[p], PublishFails(p, row) PROVE SuccessStands
  <2>1. row.doc \in Documents
    BY DEF IndInv, TypeOK, Claims
  <2>2. \A d \in Documents : attempts[d] < MaxOutboxAttempts =>
          job'[d] = job[d] /\ docStatus'[d] = docStatus[d] /\ stage'[d] = stage[d]
    BY <1>15, <2>1, OutboxAssumption DEF IndInv, TypeOK, PublishFails
  <2>3. runs' = runs
    BY <1>15 DEF PublishFails
  <2> QED
    BY <2>2, <2>3 DEF SuccessStands
<1>16. ASSUME NEW p \in Pollers, NEW S \in SUBSET Documents, ExpirePublications(p, S)
      PROVE  SuccessStands
  BY <1>16 DEF ExpirePublications, SuccessStands
<1>17. ASSUME LoseRedis PROVE SuccessStands
  BY <1>17 DEF LoseRedis, LoseEntries, Fault, SuccessStands
<1>18. CASE UNCHANGED vars
  BY <1>18 DEF SuccessStands
<1> QED
  BY <1>1, <1>2, <1>3, <1>4, <1>5, <1>6, <1>7, <1>8, <1>9, <1>10, <1>11, <1>12, <1>13, <1>14,
     <1>15, <1>16, <1>17, <1>18
  DEF Next, DocumentStep, TimePasses, DeliverStep, WorkerStep, ExtractStep, LoopStep

(* What has been achieved stays: extracted chunks are not extracted again,   *)
(* and a job succeeds by the last transaction of its worker only.            *)
WorkAccumulates ==
  /\ redisLost => redisLost'
  /\ \A d \in Documents : attempts[d] <= attempts'[d]
  /\ \A d \in Documents :
       job'[d] = "succeeded" /\ job[d] # "succeeded" =>
         \E w \in Workers : doc[w] = d /\ Complete(w)
  /\ \A d \in Documents, c \in Chunks :
       runs[d][c] = "succeeded" /\ ~redisLost => runs'[d][c] = "succeeded"

(* No step takes back what has been achieved.                                *)
LEMMA AccumulateStep ==
  ASSUME IndInv, [Next]_vars
  PROVE  WorkAccumulates
<1> USE DEF vars, documentVars, jobVars, outboxVars, redisVars, workerVars, groupVars, loopVars
<1>1. ASSUME NEW d \in Documents, Ingest(d) PROVE WorkAccumulates
  <2>1. UNCHANGED <<attempts, redisLost>>
    BY <1>1 DEF Ingest, Enqueue
  <2>2. job[d] # "succeeded" /\ job'[d] # "succeeded"
        /\ \A e \in Documents : e # d => job'[e] = job[e] /\ runs'[e] = runs[e]
    BY <1>1 DEF Ingest, Enqueue, IndInv, TypeOK
  <2>3. ~redisLost => \A c \in Chunks : runs[d][c] # "succeeded"
    BY <1>1 DEF Ingest, IndInv, NothingBefore
  <2>4. \A e \in Documents : attempts[e] <= attempts[e]
    BY DEF IndInv, TypeOK
  <2> QED
    BY <2>1, <2>2, <2>3, <2>4 DEF WorkAccumulates
<1>2. ASSUME NEW d \in Documents, IngestAgain(d) PROVE WorkAccumulates
  <2>1. UNCHANGED <<attempts, redisLost>> /\ redisLost
    BY <1>2 DEF IngestAgain, Enqueue
  <2>2. \A e \in Documents : job'[e] = "succeeded" => job[e] = "succeeded"
    BY <1>2 DEF IngestAgain, Enqueue, IndInv, TypeOK
  <2>3. \A e \in Documents : attempts[e] <= attempts[e]
    BY DEF IndInv, TypeOK
  <2> QED
    BY <2>1, <2>2, <2>3 DEF WorkAccumulates
<1>3. ASSUME NEW d \in Documents, Reupload(d) \/ BackoffEnds(d) \/ LeaseExpires(d)
      PROVE  WorkAccumulates
  <2>1. UNCHANGED <<attempts, runs, redisLost>>
    BY <1>3 DEF Reupload, BackoffEnds, LeaseExpires
  <2>2. \A e \in Documents : job'[e] = "succeeded" => job[e] = "succeeded"
    BY <1>3 DEF Reupload, BackoffEnds, LeaseExpires, IndInv, TypeOK
  <2>3. \A e \in Documents : attempts[e] <= attempts[e]
    BY DEF IndInv, TypeOK
  <2> QED
    BY <2>1, <2>2, <2>3 DEF WorkAccumulates
<1>4. ASSUME NEW w \in Workers, NEW d \in Documents, Deliver(w, d) \/ DropExhausted(w, d)
      PROVE  WorkAccumulates
  <2>1. UNCHANGED <<attempts, runs, redisLost>>
    BY <1>4 DEF Deliver, TakeEntry, DropExhausted, DropEntry, ForgetEntry
  <2>2. \A e \in Documents : job'[e] = "succeeded" => job[e] = "succeeded"
    BY <1>4 DEF Deliver, TakeEntry, DropExhausted, DropEntry, ForgetEntry, IndInv, TypeOK
  <2>3. \A e \in Documents : attempts[e] <= attempts[e]
    BY DEF IndInv, TypeOK
  <2> QED
    BY <2>1, <2>2, <2>3 DEF WorkAccumulates
<1>5. ASSUME NEW w \in Workers,
             SkipClaimed(w) \/ RefuseDocument(w) \/ Plan(w) \/ Project(w) \/
             ExtractFails(w) \/ ExecuteErrors(w) \/ Cancel(w) \/ Finish(w) \/
             Rearm(w) \/ Crash(w) \/ HeartbeatDies(w) \/ RequeueErrors(w)
      PROVE  WorkAccumulates
  <2>1. UNCHANGED <<attempts, runs, redisLost>>
    BY <1>5 DEF SkipClaimed, Goto, RefuseDocument, Plan, Project, Renewed, ExtractFails,
           ExecuteErrors, Cancel, Finish, Idle, NoGroup, ForgetEntry, Rearm, KeepEntry, Crash,
           Fault, HeartbeatDies, RequeueErrors
  <2>2. \A d \in Documents : job'[d] = "succeeded" => job[d] = "succeeded"
    BY <1>5
    DEF SkipClaimed, Goto, RefuseDocument, Plan, Project, Renewed, ExtractFails,
           ExecuteErrors, Cancel, Finish, Idle, NoGroup, ForgetEntry, Rearm, KeepEntry, Crash,
           Fault, HeartbeatDies, RequeueErrors, IndInv, TypeOK
  <2>3. \A d \in Documents : attempts[d] <= attempts[d]
    BY DEF IndInv, TypeOK
  <2> QED
    BY <2>1, <2>2, <2>3 DEF WorkAccumulates
<1>6. ASSUME NEW w \in Workers, GiveUp(w) \/ StartAttempt(w) \/ Requeue(w) \/ FailAttempt(w)
      PROVE  WorkAccumulates
  <2>1. UNCHANGED <<attempts, runs, redisLost>>
    BY <1>6 DEF GiveUp, Goto, Claimed, StartAttempt, Requeue, FailAttempt
  <2>2. \A d \in Documents : job'[d] = "succeeded" => job[d] = "succeeded"
    BY <1>6 DEF GiveUp, Goto, Claimed, StartAttempt, Requeue, FailAttempt, IndInv, TypeOK
  <2>3. \A d \in Documents : attempts[d] <= attempts[d]
    BY DEF IndInv, TypeOK
  <2> QED
    BY <2>1, <2>2, <2>3 DEF WorkAccumulates
<1>7. ASSUME NEW p \in Pollers, LoopAborts(p) \/ RecoverLeases(p) PROVE WorkAccumulates
  <2>1. UNCHANGED <<attempts, runs, redisLost>>
    BY <1>7 DEF LoopAborts, Fault, RecoverLeases
  <2>2. \A d \in Documents : job'[d] = "succeeded" => job[d] = "succeeded"
    BY <1>7 DEF LoopAborts, Fault, RecoverLeases, IndInv, TypeOK
  <2>3. \A d \in Documents : attempts[d] <= attempts[d]
    BY DEF IndInv, TypeOK
  <2> QED
    BY <2>1, <2>2, <2>3 DEF WorkAccumulates
<1>8. ASSUME NEW p \in Pollers, NEW row \in batch[p], Publish(p, row) \/ PublishFails(p, row)
      PROVE  WorkAccumulates
  <2>1. UNCHANGED <<attempts, runs, redisLost>>
    BY <1>8 DEF Publish, EnqueueJob, PublishFails
  <2>2. \A d \in Documents : job'[d] = "succeeded" => job[d] = "succeeded"
    BY <1>8 DEF Publish, EnqueueJob, PublishFails, IndInv, TypeOK
  <2>3. \A d \in Documents : attempts[d] <= attempts[d]
    BY DEF IndInv, TypeOK
  <2> QED
    BY <2>1, <2>2, <2>3 DEF WorkAccumulates
<1>9. ASSUME NEW p \in Pollers, NEW S \in SUBSET Documents, ExpirePublications(p, S)
      PROVE  WorkAccumulates
  <2>1. UNCHANGED <<attempts, runs, redisLost>>
    BY <1>9 DEF ExpirePublications
  <2>2. \A d \in Documents : job'[d] = "succeeded" => job[d] = "succeeded"
    BY <1>9 DEF ExpirePublications, IndInv, TypeOK
  <2>3. \A d \in Documents : attempts[d] <= attempts[d]
    BY DEF IndInv, TypeOK
  <2> QED
    BY <2>1, <2>2, <2>3 DEF WorkAccumulates
<1>10. ASSUME NEW w \in Workers, Complete(w) PROVE WorkAccumulates
  <2>1. UNCHANGED <<attempts, runs, redisLost>>
    BY <1>10 DEF Complete
  <2>2. doc[w] \in Documents
    BY <1>10, Busy DEF IndInv, Complete
  <2>3. \A d \in Documents : d # doc[w] => job'[d] = job[d]
    BY <1>10, <2>2 DEF Complete, IndInv, TypeOK
  <2>4. \A d \in Documents : attempts[d] <= attempts[d]
    BY DEF IndInv, TypeOK
  <2> HIDE DEF Complete
  <2> QED
    BY <1>10, <2>1, <2>3, <2>4 DEF WorkAccumulates
<1>11. ASSUME NEW w \in Workers, NEW group \in SUBSET Chunks, StartGroup(w, group)
      PROVE  WorkAccumulates
  <2>1. UNCHANGED <<attempts, redisLost, job>>
    BY <1>11 DEF StartGroup, Goto
  <2>2. \A d \in Documents, c \in Chunks :
          runs[d][c] = "succeeded" /\ ~redisLost => runs'[d][c] = "succeeded"
    <3>1. doc[w] \in Documents
      BY <1>11, Busy DEF IndInv, StartGroup
    <3>2. ~redisLost => \A c \in group : runs[doc[w]][c] # "succeeded"
      BY <1>11 DEF StartGroup, IndInv, WorkIsOpen, Open
    <3> QED
      BY <1>11, <3>1, <3>2 DEF StartGroup, IndInv, TypeOK
  <2>3. \A d \in Documents : attempts[d] <= attempts[d]
    BY DEF IndInv, TypeOK
  <2> QED
    BY <2>1, <2>2, <2>3 DEF WorkAccumulates
<1>12. ASSUME NEW w \in Workers, NEW group \in SUBSET Chunks, EndGroup(w, group)
      PROVE  WorkAccumulates
  <2>1. UNCHANGED <<attempts, redisLost, job>>
    BY <1>12 DEF EndGroup, Goto, Renewed
  <2>2. \A d \in Documents, c \in Chunks :
          runs[d][c] = "succeeded" /\ ~redisLost => runs'[d][c] = "succeeded"
    BY <1>12, Busy DEF EndGroup, IndInv, TypeOK
  <2>3. \A d \in Documents : attempts[d] <= attempts[d]
    BY DEF IndInv, TypeOK
  <2> QED
    BY <2>1, <2>2, <2>3 DEF WorkAccumulates
<1>13. ASSUME NEW w \in Workers, Unwind(w) PROVE WorkAccumulates
  <2>1. UNCHANGED <<attempts, redisLost, job>>
    BY <1>13 DEF Unwind, Goto
  <2>2. \A d \in Documents, c \in Chunks :
          runs[d][c] = "succeeded" /\ ~redisLost => runs'[d][c] = "succeeded"
    <3>1. doc[w] \in Documents
      BY <1>13, Busy DEF IndInv, Unwind
    <3>2. \A d \in Documents : d # doc[w] => runs'[d] = runs[d]
      BY <1>13, <3>1 DEF Unwind, IndInv, TypeOK
    <3>3. \A c \in Chunks : runs[doc[w]][c] = "succeeded" => runs'[doc[w]][c] = "succeeded"
      BY <1>13, <3>1 DEF Unwind, IndInv, TypeOK
    <3> QED
      BY <3>2, <3>3
  <2>3. \A d \in Documents : attempts[d] <= attempts[d]
    BY DEF IndInv, TypeOK
  <2> QED
    BY <2>1, <2>2, <2>3 DEF WorkAccumulates
<1>14. ASSUME NEW p \in Pollers, ClaimOutbox(p) PROVE WorkAccumulates
  <2>1. UNCHANGED <<job, runs, redisLost>>
    BY <1>14 DEF ClaimOutbox
  <2>2. \A d \in Documents : attempts[d] <= attempts'[d]
    BY <1>14, OutboxAssumption DEF ClaimOutbox, IndInv, TypeOK
  <2> QED
    BY <2>1, <2>2 DEF WorkAccumulates
<1>15. ASSUME LoseRedis PROVE WorkAccumulates
  <2>1. UNCHANGED <<job, runs, attempts>> /\ redisLost'
    BY <1>15 DEF LoseRedis, LoseEntries
  <2>2. \A d \in Documents : attempts[d] <= attempts[d]
    BY DEF IndInv, TypeOK
  <2> QED
    BY <2>1, <2>2 DEF WorkAccumulates
<1>16. CASE UNCHANGED vars
  <2>1. \A d \in Documents : attempts[d] <= attempts[d]
    BY DEF IndInv, TypeOK
  <2> QED
    BY <1>16, <2>1 DEF vars, WorkAccumulates
<1> QED
  BY <1>1, <1>2, <1>3, <1>4, <1>5, <1>6, <1>7, <1>8, <1>9, <1>10, <1>11, <1>12, <1>13, <1>14,
     <1>15, <1>16
  DEF Next, DocumentStep, TimePasses, DeliverStep, WorkerStep, ExtractStep, LoopStep

(* A succeeded job keeps its chunks and its document after every step.       *)
LEMMA CompleteStep ==
  ASSUME IndInv, [Next]_vars
  PROVE  SuccessIsComplete'
<1> USE DEF IndInv
<1> SUFFICES ASSUME ~redisLost', NEW d \in Documents, job'[d] = "succeeded"
             PROVE  /\ \A c \in Chunks : runs'[d][c] = "succeeded"
                    /\ attempts'[d] < MaxOutboxAttempts =>
                         docStatus'[d] = "indexed" /\ stage'[d] = "complete"
  BY DEF SuccessIsComplete
<1>1. ~redisLost
  BY AccumulateStep DEF WorkAccumulates
<1>2. attempts'[d] < MaxOutboxAttempts => attempts[d] < MaxOutboxAttempts
  <2>1. attempts[d] <= attempts'[d]
    BY AccumulateStep DEF WorkAccumulates
  <2>2. attempts[d] \in Nat /\ attempts'[d] \in Nat
    <3>1. TypeOK /\ TypeOK'
      BY TypeStep
    <3>2. /\ attempts \in [Documents -> 0..MaxOutboxAttempts]
          /\ attempts' \in [Documents -> 0..MaxOutboxAttempts]
      BY <3>1 DEF TypeOK
    <3> QED
      BY <3>2, OutboxAssumption
  <2> QED
    BY <2>1, <2>2, OutboxAssumption
<1>3. CASE job[d] = "succeeded"
  BY <1>1, <1>2, <1>3, SuccessStep DEF SuccessIsComplete, SuccessStands
<1>4. CASE job[d] # "succeeded"
  <2>1. PICK w \in Workers : doc[w] = d /\ Complete(w)
    BY <1>4, AccumulateStep DEF WorkAccumulates
  <2>2. \A c \in Chunks : runs[d][c] = "succeeded"
    BY <1>1, <2>1 DEF Complete, WorkIsOpen, Open
  <2> QED
    BY <2>1, <2>2 DEF Complete, TypeOK
<1> QED
  BY <1>3, <1>4

(* The inductive invariant holds in every reachable state.                   *)
THEOREM Invariance == Spec => []IndInv
<1>1. IndInv /\ [Next]_vars => IndInv'
  <2> SUFFICES ASSUME IndInv, [Next]_vars PROVE IndInv'
    OBVIOUS
  <2>1. TypeOK' /\ HeldEntries' /\ SingleExtractor'
    BY TypeStep, HeldStep DEF IndInv
  <2>2. JobsExist' /\ NothingBefore' /\ RunningIsLeased'
    BY JobsExistStep, NothingBeforeStep, LeasedStep DEF IndInv
  <2>3. WorkIsOpen' /\ SuccessIsComplete'
    BY WorkStep, CompleteStep DEF IndInv
  <2> QED
    BY <2>1, <2>2, <2>3 DEF IndInv
<1> QED
  BY <1>1, InitInv, PTL DEF Spec

(* Every column, Redis key and program counter keeps its type: no job starts *)
(* more than max_attempts attempts, and dispatch_pending_graph_jobs claims   *)
(* no row more often than MAX_GRAPH_OUTBOX_ATTEMPTS.                         *)
THEOREM TypeCorrect == Spec => []TypeOK
<1>1. IndInv => TypeOK
  BY DEF IndInv
<1> QED
  BY <1>1, Invariance, PTL

(* No two workers execute the graph job of one document while Redis keeps    *)
(* its data, though neither the lease nor the claim excludes it              *)
(* (execute_graph_job): the arq entry does.                                  *)
THEOREM ExtractorIsSingle == Spec => []SingleExtractor
<1>1. IndInv => SingleExtractor
  BY DEF IndInv
<1> QED
  BY <1>1, Invariance, PTL

(* execute_graph_job reports success only when every chunk of the document   *)
(* has been extracted, in this attempt or an earlier one.                    *)
THEOREM SuccessComplete == Spec => []SuccessIsComplete
<1>1. IndInv => SuccessIsComplete
  BY DEF IndInv
<1> QED
  BY <1>1, Invariance, PTL

(* reconcile_graph_jobs can recover every running job: it has a lease.       *)
THEOREM RunningLeased == Spec => []RunningIsLeased
<1>1. IndInv => RunningIsLeased
  BY DEF IndInv
<1> QED
  BY <1>1, Invariance, PTL

(* extract_document calls the model for no chunk it has extracted before.    *)
THEOREM NoRepeatedCalls == Spec => ExtractedOnce
<1>1. IndInv /\ [Next]_vars =>
        [\A d \in Documents, c \in Chunks :
           runs[d][c] = "succeeded" /\ ~redisLost => runs'[d][c] = "succeeded"]_vars
  BY AccumulateStep DEF WorkAccumulates
<1> QED
  BY <1>1, Invariance, PTL DEF Spec, ExtractedOnce

(* No requeue, expired publication or late claim takes a success back.       *)
THEOREM SuccessFinal == Spec => GraphSuccessIsFinal
<1>1. IndInv /\ [Next]_vars =>
        [\A d \in Documents :
           job[d] = "succeeded" /\ ~redisLost /\ attempts[d] < MaxOutboxAttempts
             => job'[d] = "succeeded"]_vars
  BY SuccessStep DEF SuccessStands
<1> QED
  BY <1>1, Invariance, PTL DEF Spec, GraphSuccessIsFinal

=============================================================================
