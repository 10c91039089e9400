----------------------- MODULE IndexingPipelineProofs -----------------------
(***************************************************************************)
(* Theorems about IndexingPipeline, for every set of documents, workers and *)
(* loops and every limit.  The argument has one inductive invariant, IndInv, *)
(* made of who holds what: a worker holds the arq entry of its document, an  *)
(* upload holds the document's row lock, a loop holds the claims it counted. *)
(* Each lemma shows that one group of its conjuncts survives every step;     *)
(* the actions that leave the variables of the group alone are one case.     *)
(***************************************************************************)
EXTENDS IndexingPipeline, TLAPS

(* The initial state satisfies the inductive invariant.                      *)
LEMMA InitInv == Init => IndInv
<1> USE DocumentsAssumption, AttemptsAssumption, TriesAssumption, FaultsAssumption
    DEF DocStatuses, JobStatuses, GraphStates, Stages, Requeuing, WorkerPcs, Claims
<1> SUFFICES ASSUME Init PROVE IndInv
  OBVIOUS
<1>1. TypeOK
  <2>1. seen \in [Documents -> [job : JobStatuses, dispatched : BOOLEAN]]
    BY DEF Init
  <2>2. batch \in [Pollers -> SUBSET Claims]
    BY DEF Init
  <2>3. redisLost \in BOOLEAN
    BY DEF Init, QueueInit
  <2>4. faults \in 0..MaxFaults
    BY DEF Init
  <2>5. /\ docStatus \in [Documents -> DocStatuses]
        /\ uploadPc \in [Documents -> {"idle", "storing", "enqueuing"}]
        /\ jobStatus \in [Documents -> JobStatuses]
        /\ attempts \in [Documents -> 0..MaxOutboxAttempts]
        /\ dispatched \in [Documents -> 0..MaxOutboxAttempts]
        /\ chunked \in SUBSET Documents
        /\ graph \in [Documents -> GraphStates]
    BY DEF Init
  <2>6. /\ queue \in [Documents -> {"absent", "waiting", "running"}]
        /\ tries \in [Documents -> 0..MaxTries]
        /\ pc \in [Workers -> WorkerPcs]
        /\ doc \in [Workers -> Documents \cup {NoDocument}]
        /\ jobTry \in [Workers -> 0..MaxTries]
        /\ beating \in SUBSET Workers
        /\ phase \in [Pollers -> {"dispatch", "publish", "expire"}]
    BY DEF Init, QueueInit
  <2> QED
    BY <2>1, <2>2, <2>3, <2>4, <2>5, <2>6 DEF TypeOK, QueueTypeOK
<1>2. HeldEntries /\ SingleRunner
  BY DEF Init, QueueInit, HeldEntries, SingleRunner
<1>3. ClaimsCounted /\ ClaimsAreExclusive
  BY DEF Init, ClaimsCounted, ClaimsAreExclusive
<1>4. LockedIsNew /\ SeenIsCurrent
  BY DEF Init, LockedIsNew, SeenIsCurrent, DocUnlocked
<1>5. SucceededHasResults /\ StagesHaveWork /\ GraphAfterSuccess /\ InProgressHasWork
  BY DEF Init, SucceededHasResults, StagesHaveWork, GraphAfterSuccess, InProgressHasWork
<1> QED
  BY <1>1, <1>2, <1>3, <1>4, <1>5 DEF IndInv

(* Every step keeps every variable in its type.                              *)
LEMMA TypeStep ==
  ASSUME TypeOK, HeldEntries, [Next]_vars
  PROVE  TypeOK'
<1> USE DocumentsAssumption, AttemptsAssumption, TriesAssumption,
  FaultsAssumption DEF DocStatuses, JobStatuses, GraphStates, Stages,
  Requeuing, WorkerPcs, Claims, vars, QueueTypeOK, redisVars, uploadVars,
  outboxVars, resultVars, workerVars, loopVars
<1>1. ASSUME NEW d \in Documents, UploadBegin(d) PROVE TypeOK'
  BY <1>1 DEF TypeOK, UploadBegin
<1>2. ASSUME NEW d \in Documents, StoreFails(d) PROVE TypeOK'
  BY <1>2 DEF TypeOK, StoreFails, EndUpload, NothingSeen
<1>3. ASSUME NEW d \in Documents, UploadRollback(d) PROVE TypeOK'
  BY <1>3 DEF TypeOK, UploadRollback, EndUpload, NothingSeen
<1>4. ASSUME NEW d \in Documents, EnqueueRead(d) PROVE TypeOK'
  BY <1>4 DEF TypeOK, EnqueueRead
<1>5. ASSUME NEW d \in Documents, EnqueueCommit(d) PROVE TypeOK'
  BY <1>5 DEF TypeOK, EnqueueCommit, EndUpload, NothingSeen
<1>6. ASSUME NEW w \in Workers, NEW d \in Documents, Deliver(w, d)
      PROVE  TypeOK'
  BY <1>6 DEF TypeOK, Deliver, TakeEntry
<1>7. ASSUME NEW w \in Workers, NEW d \in Documents, DropExhausted(w, d)
      PROVE  TypeOK'
  BY <1>7 DEF TypeOK, DropExhausted, DropEntry, ForgetEntry
<1>8. ASSUME NEW d \in Documents, GraphEnds(d) PROVE TypeOK'
  <2>1. \/ graph' = [graph EXCEPT ![d] = "complete"]
        \/ graph' = [graph EXCEPT ![d] = "failed"]
    BY <1>8 DEF GraphEnds
  <2>2. \/ docStatus' = [docStatus EXCEPT ![d] = "indexed"]
        \/ docStatus' = [docStatus EXCEPT ![d] = "failed"]
    BY <1>8 DEF GraphEnds
  <2>3. graph' \in [Documents -> GraphStates]
    BY <2>1 DEF TypeOK
  <2>4. docStatus' \in [Documents -> DocStatuses]
    BY <2>2 DEF TypeOK
  <2> QED
    BY <1>8, <2>3, <2>4 DEF TypeOK, GraphEnds
<1>9. ASSUME NEW w \in Workers, ClaimJob(w) PROVE TypeOK'
  <2>1. doc[w] \in Documents
    BY <1>9 DEF TypeOK, HeldEntries, ClaimJob, Goto
  <2> QED
    BY <1>9, <2>1 DEF TypeOK, ClaimJob, Goto
<1>10. ASSUME NEW w \in Workers, SkipClaimed(w) PROVE TypeOK'
  BY <1>10 DEF TypeOK, SkipClaimed, Goto
<1>11. ASSUME NEW w \in Workers, Advance(w) PROVE TypeOK'
  <2>1. doc[w] \in Documents
    BY <1>11 DEF TypeOK, HeldEntries, Advance, EnterStage, Goto
  <2>2. docStatus' \in [Documents -> DocStatuses]
    BY <1>11, <2>1 DEF TypeOK, Advance, EnterStage, Goto
  <2>3. pc' \in [Workers -> WorkerPcs]
    BY <1>11 DEF TypeOK, Advance, EnterStage, Goto
  <2> QED
    BY <1>11, <2>2, <2>3 DEF TypeOK, Advance, EnterStage, Goto
<1>12. ASSUME NEW w \in Workers, Persist(w) PROVE TypeOK'
  <2>1. doc[w] \in Documents
    BY <1>12 DEF TypeOK, HeldEntries, Persist, Goto
  <2> QED
    BY <1>12, <2>1 DEF TypeOK, Persist, Goto
<1>13. ASSUME NEW w \in Workers, RunFails(w) PROVE TypeOK'
  <2>1. doc[w] \in Documents
    BY <1>13 DEF TypeOK, HeldEntries, RunFails, Goto, AfterError
  <2> QED
    BY <1>13, <2>1 DEF TypeOK, RunFails, Goto, AfterError
<1>14. ASSUME NEW w \in Workers, RunErrors(w) PROVE TypeOK'
  BY <1>14 DEF TypeOK, RunErrors, Goto, AfterError
<1>15. ASSUME NEW w \in Workers, Cancel(w) PROVE TypeOK'
  BY <1>15 DEF TypeOK, Cancel, Goto
<1>16. ASSUME NEW w \in Workers, Requeue(w) PROVE TypeOK'
  <2>1. doc[w] \in Documents
    BY <1>16 DEF TypeOK, HeldEntries, Requeue, Goto, Requeuing
  <2> QED
    BY <1>16, <2>1 DEF TypeOK, Requeue, Goto, Requeuing
<1>17. ASSUME NEW w \in Workers, Finish(w) PROVE TypeOK'
  <2>1. doc[w] \in Documents
    BY <1>17 DEF TypeOK, HeldEntries, Finish, Idle, ForgetEntry
  <2> QED
    BY <1>17, <2>1 DEF TypeOK, Finish, Idle, ForgetEntry
<1>18. ASSUME NEW w \in Workers, Rearm(w) PROVE TypeOK'
  <2>1. doc[w] \in Documents
    BY <1>18 DEF TypeOK, HeldEntries, Rearm, Idle, KeepEntry
  <2> QED
    BY <1>18, <2>1 DEF TypeOK, Rearm, Idle, KeepEntry
<1>19. ASSUME NEW w \in Workers, Crash(w) PROVE TypeOK'
  <2>1. doc[w] \in Documents
    BY <1>19 DEF TypeOK, HeldEntries, Crash, Idle, Fault, KeepEntry
  <2> QED
    BY <1>19, <2>1 DEF TypeOK, Crash, Idle, Fault, KeepEntry
<1>20. ASSUME NEW w \in Workers, HeartbeatDies(w) PROVE TypeOK'
  BY <1>20 DEF TypeOK, HeartbeatDies, Fault
<1>21. ASSUME NEW w \in Workers, RequeueErrors(w) PROVE TypeOK'
  BY <1>21 DEF TypeOK, RequeueErrors, Fault, Goto
<1>22. ASSUME NEW p \in Pollers, ClaimOutbox(p) PROVE TypeOK'
  <2>1. attempts' \in [Documents -> 0..MaxOutboxAttempts]
    BY <1>22 DEF TypeOK, ClaimOutbox, Dispatchable
  <2>2. dispatched' \in [Documents -> 0..MaxOutboxAttempts]
    BY <1>22 DEF TypeOK, ClaimOutbox, Dispatchable
  <2>3. ASSUME NEW d \in Documents, Dispatchable(d)
        PROVE  [doc |-> d, claim |-> attempts[d] + 1, sent |-> FALSE] \in Claims
    BY <2>3 DEF TypeOK, Dispatchable
  <2> DEFINE taken == {[doc |-> d, claim |-> attempts[d] + 1, sent |-> FALSE] :
                         d \in {e \in Documents : Dispatchable(e)}}
  <2>4. taken \in SUBSET Claims
    BY <2>3
  <2>5. batch' = [batch EXCEPT ![p] = taken]
    BY <1>22 DEF ClaimOutbox
  <2>6. batch' \in [Pollers -> SUBSET Claims]
    <3> HIDE DEF taken, Claims
    <3> QED
      BY <2>4, <2>5 DEF TypeOK
  <2> QED
    BY <1>22, <2>1, <2>2, <2>6 DEF TypeOK, ClaimOutbox
<1>23. ASSUME NEW p \in Pollers, NEW row \in batch[p], Publish(p, row)
      PROVE  TypeOK'
  <2>1. row.doc \in Documents /\ [doc |-> row.doc, claim |-> row.claim, sent |-> TRUE] \in Claims
    BY <1>23 DEF TypeOK
  <2>2. batch' \in [Pollers -> SUBSET Claims]
    BY <1>23, <2>1 DEF TypeOK, Publish
  <2> DEFINE r == row.doc
  <2>3. QueueTypeOK'
    <3>1. CASE queue[r] = "absent"
      <4>1. queue' = [queue EXCEPT ![r] = "waiting"] /\ tries' = [tries EXCEPT ![r] = 0]
        BY <1>23, <3>1 DEF Publish, EnqueueJob
      <4>2. redisLost' = redisLost
        BY <1>23, <3>1 DEF Publish, EnqueueJob
      <4> QED
        BY <2>1, <4>1, <4>2 DEF TypeOK
    <3>2. CASE queue[r] # "absent"
      BY <1>23, <3>2 DEF TypeOK, Publish, EnqueueJob
    <3> QED
      BY <3>1, <3>2
  <2> QED
    BY <1>23, <2>2, <2>3 DEF TypeOK, Publish
<1>24. ASSUME NEW p \in Pollers, NEW row \in batch[p], PublishAck(p, row)
      PROVE  TypeOK'
  BY <1>24 DEF TypeOK, PublishAck
<1>25. ASSUME NEW p \in Pollers, NEW row \in batch[p], PublishFails(p, row)
      PROVE  TypeOK'
  BY <1>25 DEF TypeOK, PublishFails
<1>26. ASSUME NEW p \in Pollers, NEW S \in SUBSET Documents, RecoverRuns(p, S)
      PROVE  TypeOK'
  BY <1>26 DEF TypeOK, RecoverRuns, Stale
<1>27. ASSUME NEW p \in Pollers, NEW S \in SUBSET Documents, ExpireDispatches(p, S)
      PROVE  TypeOK'
  BY <1>27 DEF TypeOK, ExpireDispatches
<1>28. ASSUME NEW p \in Pollers, LoopAborts(p) PROVE TypeOK'
  BY <1>28 DEF TypeOK, LoopAborts, Fault
<1>29. ASSUME LoseRedis PROVE TypeOK'
  BY <1>29 DEF TypeOK, LoseRedis, Fault, LoseEntries
<1>30. CASE UNCHANGED <<vars>>
  BY <1>30 DEF TypeOK
<1> QED
  BY <1>1, <1>2, <1>3, <1>4, <1>5, <1>6, <1>7, <1>8, <1>9, <1>10, <1>11,
    <1>12, <1>13, <1>14, <1>15, <1>16, <1>17, <1>18, <1>19, <1>20, <1>21,
    <1>22, <1>23, <1>24, <1>25, <1>26, <1>27, <1>28, <1>29, <1>30 DEF Next,
    UploadStep, DeliverStep, WorkerStep, LoopStep, PublishStep, vars

(* Workers and arq entries: only a delivery gives a worker a document, it    *)
(* takes a waiting entry, and a publication does not touch an entry that is. *)
LEMMA HolderStep ==
  ASSUME TypeOK, HeldEntries, SingleRunner, [Next]_vars
  PROVE  HeldEntries' /\ SingleRunner'
<1> USE DocumentsAssumption DEF Stages, Requeuing, QueueTypeOK, redisVars,
  uploadVars, outboxVars, resultVars, workerVars, loopVars
<1>1. ASSUME NEW w \in Workers, NEW d \in Documents, Deliver(w, d)
      PROVE  HeldEntries' /\ SingleRunner'
  BY <1>1 DEF TypeOK, HeldEntries, SingleRunner, Deliver, TakeEntry
<1>2. ASSUME NEW w \in Workers, NEW d \in Documents, DropExhausted(w, d)
      PROVE  HeldEntries' /\ SingleRunner'
  BY <1>2 DEF TypeOK, HeldEntries, SingleRunner, DropExhausted, DropEntry,
    ForgetEntry
<1>3. ASSUME NEW w \in Workers, Finish(w) PROVE HeldEntries' /\ SingleRunner'
  BY <1>3 DEF TypeOK, HeldEntries, SingleRunner, Finish, Idle, ForgetEntry
<1>4. ASSUME NEW w \in Workers, Rearm(w) PROVE HeldEntries' /\ SingleRunner'
  BY <1>4 DEF TypeOK, HeldEntries, SingleRunner, Rearm, Idle, KeepEntry
<1>5. ASSUME NEW w \in Workers, Crash(w) PROVE HeldEntries' /\ SingleRunner'
  BY <1>5 DEF TypeOK, HeldEntries, SingleRunner, Crash, Idle, Fault,
    KeepEntry
<1>6. ASSUME NEW p \in Pollers, NEW row \in batch[p], Publish(p, row)
      PROVE  HeldEntries' /\ SingleRunner'
  BY <1>6 DEF TypeOK, HeldEntries, SingleRunner, Publish, EnqueueJob
<1>7. ASSUME LoseRedis PROVE HeldEntries' /\ SingleRunner'
  BY <1>7 DEF TypeOK, HeldEntries, SingleRunner, LoseRedis, Fault,
    LoseEntries
<1>8. ASSUME NEW w \in Workers, ClaimJob(w)
      PROVE  HeldEntries' /\ SingleRunner'
  BY <1>8 DEF TypeOK, HeldEntries, SingleRunner, ClaimJob, Goto
<1>9. ASSUME NEW w \in Workers, SkipClaimed(w)
      PROVE  HeldEntries' /\ SingleRunner'
  BY <1>9 DEF TypeOK, HeldEntries, SingleRunner, SkipClaimed, Goto
<1>10. ASSUME NEW w \in Workers, Advance(w)
      PROVE  HeldEntries' /\ SingleRunner'
  BY <1>10 DEF TypeOK, HeldEntries, SingleRunner, Advance, EnterStage, Goto
<1>11. ASSUME NEW w \in Workers, Persist(w)
      PROVE  HeldEntries' /\ SingleRunner'
  BY <1>11 DEF TypeOK, HeldEntries, SingleRunner, Persist, Goto
<1>12. ASSUME NEW w \in Workers, RunFails(w)
      PROVE  HeldEntries' /\ SingleRunner'
  BY <1>12 DEF TypeOK, HeldEntries, SingleRunner, RunFails, Goto, AfterError
<1>13. ASSUME NEW w \in Workers, RunErrors(w)
      PROVE  HeldEntries' /\ SingleRunner'
  BY <1>13 DEF TypeOK, HeldEntries, SingleRunner, RunErrors, Goto, AfterError
<1>14. ASSUME NEW w \in Workers, Cancel(w) PROVE HeldEntries' /\ SingleRunner'
  BY <1>14 DEF TypeOK, HeldEntries, SingleRunner, Cancel, Goto
<1>15. ASSUME NEW w \in Workers, Requeue(w)
      PROVE  HeldEntries' /\ SingleRunner'
  BY <1>15 DEF TypeOK, HeldEntries, SingleRunner, Requeue, Goto, Requeuing
<1>16. ASSUME NEW w \in Workers, RequeueErrors(w)
      PROVE  HeldEntries' /\ SingleRunner'
  BY <1>16 DEF TypeOK, HeldEntries, SingleRunner, RequeueErrors, Fault, Goto
<1>17. CASE UNCHANGED <<queue, redisLost, pc, doc>>
  BY <1>17 DEF TypeOK, HeldEntries, SingleRunner
<1> QED
  BY <1>1, <1>2, <1>3, <1>4, <1>5, <1>6, <1>7, <1>8, <1>9, <1>10, <1>11,
    <1>12, <1>13, <1>14, <1>15, <1>16, <1>17 DEF Next, UploadStep,
    DeliverStep, WorkerStep, LoopStep, PublishStep, vars, UploadBegin,
    StoreFails, EndUpload, NothingSeen, UploadRollback, EnqueueRead,
    EnqueueCommit, GraphEnds, HeartbeatDies, Fault, ClaimOutbox,
    Dispatchable, PublishAck, PublishFails, RecoverRuns, Stale,
    ExpireDispatches, LoopAborts

(* Claims: a loop claims a row with the next number of its attempts counter, *)
(* which no claim made before can have.                                      *)
LEMMA ClaimStep ==
  ASSUME TypeOK, ClaimsCounted, ClaimsAreExclusive, [Next]_vars
  PROVE  ClaimsCounted' /\ ClaimsAreExclusive'
<1> USE AttemptsAssumption DEF Claims, QueueTypeOK, redisVars, uploadVars,
  outboxVars, resultVars, workerVars, loopVars
<1>1. ASSUME NEW p \in Pollers, ClaimOutbox(p)
      PROVE  ClaimsCounted' /\ ClaimsAreExclusive'
  BY <1>1 DEF TypeOK, ClaimsCounted, ClaimsAreExclusive, ClaimOutbox,
    Dispatchable
<1>2. ASSUME NEW p \in Pollers, NEW row \in batch[p], Publish(p, row)
      PROVE  ClaimsCounted' /\ ClaimsAreExclusive'
  BY <1>2 DEF TypeOK, ClaimsCounted, ClaimsAreExclusive, Publish, EnqueueJob
<1>3. ASSUME NEW p \in Pollers, NEW row \in batch[p], PublishAck(p, row)
      PROVE  ClaimsCounted' /\ ClaimsAreExclusive'
  BY <1>3 DEF TypeOK, ClaimsCounted, ClaimsAreExclusive, PublishAck
<1>4. ASSUME NEW p \in Pollers, NEW row \in batch[p], PublishFails(p, row)
      PROVE  ClaimsCounted' /\ ClaimsAreExclusive'
  BY <1>4 DEF TypeOK, ClaimsCounted, ClaimsAreExclusive, PublishFails
<1>5. ASSUME NEW p \in Pollers, LoopAborts(p)
      PROVE  ClaimsCounted' /\ ClaimsAreExclusive'
  BY <1>5 DEF TypeOK, ClaimsCounted, ClaimsAreExclusive, LoopAborts, Fault
<1>6. CASE UNCHANGED <<attempts, batch>>
  BY <1>6 DEF TypeOK, ClaimsCounted, ClaimsAreExclusive
<1>7. ASSUME NEW d \in Documents, UploadBegin(d) \/ UploadStep(d) \/ DeliverStep(d) \/ GraphEnds(d)
      PROVE  UNCHANGED <<attempts, batch>>
  BY <1>7 DEF UploadBegin, UploadStep, StoreFails, EndUpload, NothingSeen, UploadRollback,
    EnqueueRead, EnqueueCommit, DeliverStep, Deliver, TakeEntry, DropExhausted, DropEntry,
    ForgetEntry, GraphEnds
<1>8. ASSUME NEW w \in Workers, WorkerStep(w) PROVE UNCHANGED <<attempts, batch>>
  BY <1>8 DEF WorkerStep, ClaimJob, Goto, SkipClaimed, Advance, EnterStage, Persist, RunFails,
    AfterError, RunErrors, Cancel, Requeue, Requeuing, Finish, ForgetEntry, Idle, Rearm, KeepEntry
<1>9. ASSUME NEW w \in Workers, Crash(w) \/ HeartbeatDies(w) \/ RequeueErrors(w)
      PROVE  UNCHANGED <<attempts, batch>>
  BY <1>9 DEF Crash, Idle, KeepEntry, Fault, HeartbeatDies, RequeueErrors, Goto
<1>10. ASSUME NEW p \in Pollers, NEW S \in SUBSET Documents,
              RecoverRuns(p, S) \/ ExpireDispatches(p, S)
       PROVE  UNCHANGED <<attempts, batch>>
  BY <1>10 DEF RecoverRuns, Stale, ExpireDispatches
<1>11. CASE LoseRedis
  <2>1. UNCHANGED <<attempts, batch>>
    BY <1>11 DEF LoseRedis, LoseEntries, Fault
  <2> QED
    BY <1>6, <2>1
<1>12. CASE UNCHANGED vars
  BY <1>6, <1>12 DEF vars
<1> QED
  BY <1>1, <1>2, <1>3, <1>4, <1>5, <1>6, <1>7, <1>8, <1>9, <1>10, <1>11, <1>12
  DEF Next, LoopStep, PublishStep

(* The row lock: what changes the document or ends the job of a locked       *)
(* document waits for the lock, but for the last failed publication, which   *)
(* waits too and leaves no attempt.                                          *)
LEMMA UploadLockStep ==
  ASSUME TypeOK, TypeOK', LockedIsNew, SeenIsCurrent, [Next]_vars
  PROVE  LockedIsNew' /\ SeenIsCurrent'
<1> USE DEF DuplicateStatuses, DocUnlocked, Sound, JobStatuses, Claims,
  Stages, QueueTypeOK, redisVars, uploadVars, outboxVars, resultVars,
  workerVars, loopVars
<1>1. ASSUME NEW d \in Documents, UploadBegin(d)
      PROVE  LockedIsNew' /\ SeenIsCurrent'
  BY <1>1 DEF TypeOK, LockedIsNew, SeenIsCurrent, UploadBegin
<1>2. ASSUME NEW d \in Documents, StoreFails(d)
      PROVE  LockedIsNew' /\ SeenIsCurrent'
  BY <1>2 DEF TypeOK, LockedIsNew, SeenIsCurrent, StoreFails, EndUpload,
    NothingSeen
<1>3. ASSUME NEW d \in Documents, UploadRollback(d)
      PROVE  LockedIsNew' /\ SeenIsCurrent'
  BY <1>3 DEF TypeOK, LockedIsNew, SeenIsCurrent, UploadRollback, EndUpload,
    NothingSeen
<1>4. ASSUME NEW d \in Documents, EnqueueRead(d)
      PROVE  LockedIsNew' /\ SeenIsCurrent'
  BY <1>4 DEF TypeOK, LockedIsNew, SeenIsCurrent, EnqueueRead
<1>5. ASSUME NEW d \in Documents, EnqueueCommit(d)
      PROVE  LockedIsNew' /\ SeenIsCurrent'
  BY <1>5 DEF TypeOK, LockedIsNew, SeenIsCurrent, EnqueueCommit, EndUpload,
    NothingSeen
<1>6. ASSUME NEW d \in Documents, GraphEnds(d)
      PROVE  LockedIsNew' /\ SeenIsCurrent'
  BY <1>6 DEF TypeOK, LockedIsNew, SeenIsCurrent, GraphEnds
<1>7. ASSUME NEW w \in Workers, ClaimJob(w)
      PROVE  LockedIsNew' /\ SeenIsCurrent'
  BY <1>7 DEF TypeOK, LockedIsNew, SeenIsCurrent, ClaimJob, Goto
<1>8. ASSUME NEW w \in Workers, Advance(w)
      PROVE  LockedIsNew' /\ SeenIsCurrent'
  BY <1>8 DEF TypeOK, LockedIsNew, SeenIsCurrent, Advance, EnterStage, Goto
<1>9. ASSUME NEW w \in Workers, Persist(w)
      PROVE  LockedIsNew' /\ SeenIsCurrent'
  BY <1>9 DEF TypeOK, LockedIsNew, SeenIsCurrent, Persist, Goto
<1>10. ASSUME NEW w \in Workers, RunFails(w)
      PROVE  LockedIsNew' /\ SeenIsCurrent'
  BY <1>10 DEF TypeOK, LockedIsNew, SeenIsCurrent, RunFails, Goto, AfterError
<1>11. ASSUME NEW w \in Workers, Requeue(w)
      PROVE  LockedIsNew' /\ SeenIsCurrent'
  BY <1>11 DEF TypeOK, LockedIsNew, SeenIsCurrent, Requeue, Goto, Requeuing
<1>12. ASSUME NEW p \in Pollers, ClaimOutbox(p)
      PROVE  LockedIsNew' /\ SeenIsCurrent'
  BY <1>12 DEF TypeOK, LockedIsNew, SeenIsCurrent, ClaimOutbox, Dispatchable
<1>13. ASSUME NEW p \in Pollers, NEW row \in batch[p], PublishFails(p, row)
      PROVE  LockedIsNew' /\ SeenIsCurrent'
  BY <1>13 DEF TypeOK, LockedIsNew, SeenIsCurrent, PublishFails
<1>14. ASSUME NEW p \in Pollers, NEW S \in SUBSET Documents, RecoverRuns(p, S)
      PROVE  LockedIsNew' /\ SeenIsCurrent'
  BY <1>14 DEF TypeOK, LockedIsNew, SeenIsCurrent, RecoverRuns, Stale
<1>15. ASSUME LoseRedis PROVE LockedIsNew' /\ SeenIsCurrent'
  BY <1>15 DEF TypeOK, LockedIsNew, SeenIsCurrent, LoseRedis, Fault,
    LoseEntries
<1>16. CASE UNCHANGED <<docStatus, uploadPc, seen, jobStatus, attempts,
  redisLost>>
  BY <1>16 DEF TypeOK, LockedIsNew, SeenIsCurrent
<1> QED
  BY <1>1, <1>2, <1>3, <1>4, <1>5, <1>6, <1>7, <1>8, <1>9, <1>10, <1>11,
    <1>12, <1>13, <1>14, <1>15, <1>16 DEF Next, UploadStep, DeliverStep,
    WorkerStep, LoopStep, PublishStep, vars, Deliver, TakeEntry,
    DropExhausted, DropEntry, ForgetEntry, SkipClaimed, Goto, RunErrors,
    AfterError, Cancel, Finish, Idle, Rearm, KeepEntry, Crash, Fault,
    HeartbeatDies, RequeueErrors, Publish, EnqueueJob, PublishAck,
    ExpireDispatches, LoopAborts

(* A worker in a stage: it alone can end its job, since it is the only one,  *)
(* and no upload begins on the document once it is being worked on.          *)
LEMMA StageStep ==
  ASSUME IndInv, TypeOK', [Next]_vars
  PROVE  StagesHaveWork'
<1> USE DocumentsAssumption DEF Sound, DuplicateStatuses, DocUnlocked,
  Stages, Requeuing, Claims, QueueTypeOK, redisVars, uploadVars, outboxVars,
  resultVars, workerVars, loopVars
<1>1. ASSUME NEW d \in Documents, StoreFails(d) PROVE StagesHaveWork'
  BY <1>1 DEF IndInv, TypeOK, StagesHaveWork, HeldEntries, SingleRunner,
    StoreFails, EndUpload, NothingSeen, LockedIsNew
<1>2. ASSUME NEW d \in Documents, EnqueueCommit(d) PROVE StagesHaveWork'
  BY <1>2 DEF IndInv, TypeOK, StagesHaveWork, HeldEntries, SingleRunner,
    EnqueueCommit, EndUpload, NothingSeen, LockedIsNew, SeenIsCurrent
<1>3. ASSUME NEW w \in Workers, NEW d \in Documents, Deliver(w, d)
      PROVE  StagesHaveWork'
  BY <1>3 DEF IndInv, TypeOK, StagesHaveWork, HeldEntries, SingleRunner,
    Deliver, TakeEntry
<1>4. ASSUME NEW d \in Documents, GraphEnds(d) PROVE StagesHaveWork'
  BY <1>4 DEF IndInv, TypeOK, StagesHaveWork, HeldEntries, SingleRunner,
    GraphEnds, GraphAfterSuccess
<1>5. ASSUME NEW w \in Workers, ClaimJob(w) PROVE StagesHaveWork'
  BY <1>5 DEF IndInv, TypeOK, StagesHaveWork, HeldEntries, SingleRunner,
    ClaimJob, Goto
<1>6. ASSUME NEW w \in Workers, SkipClaimed(w) PROVE StagesHaveWork'
  BY <1>6 DEF IndInv, TypeOK, StagesHaveWork, HeldEntries, SingleRunner,
    SkipClaimed, Goto
<1>7. ASSUME NEW w \in Workers, Advance(w) PROVE StagesHaveWork'
  BY <1>7 DEF IndInv, TypeOK, StagesHaveWork, HeldEntries, SingleRunner,
    Advance, EnterStage, Goto
<1>8. ASSUME NEW w \in Workers, Persist(w) PROVE StagesHaveWork'
  BY <1>8 DEF IndInv, TypeOK, StagesHaveWork, HeldEntries, SingleRunner,
    Persist, Goto
<1>9. ASSUME NEW w \in Workers, RunFails(w) PROVE StagesHaveWork'
  BY <1>9 DEF IndInv, TypeOK, StagesHaveWork, HeldEntries, SingleRunner,
    RunFails, Goto, AfterError
<1>10. ASSUME NEW w \in Workers, RunErrors(w) PROVE StagesHaveWork'
  BY <1>10 DEF IndInv, TypeOK, StagesHaveWork, HeldEntries, SingleRunner,
    RunErrors, Goto, AfterError
<1>11. ASSUME NEW w \in Workers, Cancel(w) PROVE StagesHaveWork'
  BY <1>11 DEF IndInv, TypeOK, StagesHaveWork, HeldEntries, SingleRunner,
    Cancel, Goto
<1>12. ASSUME NEW w \in Workers, Requeue(w) PROVE StagesHaveWork'
  BY <1>12 DEF IndInv, TypeOK, StagesHaveWork, HeldEntries, SingleRunner,
    Requeue, Goto, Requeuing
<1>13. ASSUME NEW w \in Workers, Finish(w) PROVE StagesHaveWork'
  BY <1>13 DEF IndInv, TypeOK, StagesHaveWork, HeldEntries, SingleRunner,
    Finish, Idle, ForgetEntry
<1>14. ASSUME NEW w \in Workers, Rearm(w) PROVE StagesHaveWork'
  BY <1>14 DEF IndInv, TypeOK, StagesHaveWork, HeldEntries, SingleRunner,
    Rearm, Idle, KeepEntry
<1>15. ASSUME NEW w \in Workers, Crash(w) PROVE StagesHaveWork'
  BY <1>15 DEF IndInv, TypeOK, StagesHaveWork, HeldEntries, SingleRunner,
    Crash, Idle, Fault, KeepEntry
<1>16. ASSUME NEW w \in Workers, RequeueErrors(w) PROVE StagesHaveWork'
  BY <1>16 DEF IndInv, TypeOK, StagesHaveWork, HeldEntries, SingleRunner,
    RequeueErrors, Fault, Goto
<1>17. ASSUME NEW p \in Pollers, ClaimOutbox(p) PROVE StagesHaveWork'
  BY <1>17 DEF IndInv, TypeOK, StagesHaveWork, HeldEntries, SingleRunner,
    ClaimOutbox, Dispatchable
<1>18. ASSUME NEW p \in Pollers, NEW row \in batch[p], PublishFails(p, row)
      PROVE  StagesHaveWork'
  BY <1>18, AttemptsAssumption DEF IndInv, TypeOK, StagesHaveWork,
    HeldEntries, SingleRunner, PublishFails, ClaimsCounted
<1>19. ASSUME NEW p \in Pollers, NEW S \in SUBSET Documents, RecoverRuns(p, S)
      PROVE  StagesHaveWork'
  BY <1>19 DEF IndInv, TypeOK, StagesHaveWork, HeldEntries, SingleRunner,
    RecoverRuns, Stale
<1>20. ASSUME LoseRedis PROVE StagesHaveWork'
  BY <1>20 DEF IndInv, TypeOK, StagesHaveWork, HeldEntries, SingleRunner,
    LoseRedis, Fault, LoseEntries
<1>21. CASE UNCHANGED <<docStatus, jobStatus, attempts, pc, doc, redisLost>>
  BY <1>21 DEF IndInv, TypeOK, StagesHaveWork, HeldEntries, SingleRunner
<1> QED
  BY <1>1, <1>2, <1>3, <1>4, <1>5, <1>6, <1>7, <1>8, <1>9, <1>10, <1>11,
    <1>12, <1>13, <1>14, <1>15, <1>16, <1>17, <1>18, <1>19, <1>20, <1>21 DEF
    Next, UploadStep, DeliverStep, WorkerStep, LoopStep, PublishStep, vars,
    UploadBegin, UploadRollback, EndUpload, NothingSeen, EnqueueRead,
    DropExhausted, DropEntry, ForgetEntry, HeartbeatDies, Fault, Publish,
    EnqueueJob, PublishAck, ExpireDispatches, LoopAborts

(* Results: chunks, success and graph job are committed together, and a job  *)
(* that has succeeded never goes back while its attempts last.               *)
LEMMA ResultStep ==
  ASSUME IndInv, TypeOK', [Next]_vars
  PROVE  SucceededHasResults' /\ GraphAfterSuccess'
<1> USE DEF Sound, SeenIsCurrent, StagesHaveWork, DocUnlocked, Stages,
  Claims, HeldEntries, QueueTypeOK, redisVars, uploadVars, outboxVars,
  resultVars, workerVars, loopVars
<1>1. ASSUME NEW d \in Documents, EnqueueCommit(d)
      PROVE  SucceededHasResults' /\ GraphAfterSuccess'
  BY <1>1 DEF IndInv, TypeOK, SucceededHasResults, GraphAfterSuccess,
    EnqueueCommit, EndUpload, NothingSeen
<1>2. ASSUME NEW d \in Documents, GraphEnds(d)
      PROVE  SucceededHasResults' /\ GraphAfterSuccess'
  BY <1>2 DEF IndInv, TypeOK, SucceededHasResults, GraphAfterSuccess,
    GraphEnds
<1>3. ASSUME NEW w \in Workers, ClaimJob(w)
      PROVE  SucceededHasResults' /\ GraphAfterSuccess'
  BY <1>3 DEF IndInv, TypeOK, SucceededHasResults, GraphAfterSuccess,
    ClaimJob, Goto
<1>4. ASSUME NEW w \in Workers, Persist(w)
      PROVE  SucceededHasResults' /\ GraphAfterSuccess'
  BY <1>4 DEF IndInv, TypeOK, SucceededHasResults, GraphAfterSuccess,
    Persist, Goto
<1>5. ASSUME NEW w \in Workers, RunFails(w)
      PROVE  SucceededHasResults' /\ GraphAfterSuccess'
  BY <1>5 DEF IndInv, TypeOK, SucceededHasResults, GraphAfterSuccess,
    RunFails, Goto, AfterError
<1>6. ASSUME NEW w \in Workers, Requeue(w)
      PROVE  SucceededHasResults' /\ GraphAfterSuccess'
  BY <1>6 DEF IndInv, TypeOK, SucceededHasResults, GraphAfterSuccess,
    Requeue, Goto, Requeuing
<1>7. ASSUME NEW p \in Pollers, ClaimOutbox(p)
      PROVE  SucceededHasResults' /\ GraphAfterSuccess'
  BY <1>7 DEF IndInv, TypeOK, SucceededHasResults, GraphAfterSuccess,
    ClaimOutbox, Dispatchable
<1>8. ASSUME NEW p \in Pollers, NEW row \in batch[p], PublishFails(p, row)
      PROVE  SucceededHasResults' /\ GraphAfterSuccess'
  BY <1>8, AttemptsAssumption DEF IndInv, TypeOK, SucceededHasResults,
    GraphAfterSuccess, PublishFails
<1>9. ASSUME NEW p \in Pollers, NEW S \in SUBSET Documents, RecoverRuns(p, S)
      PROVE  SucceededHasResults' /\ GraphAfterSuccess'
  BY <1>9 DEF IndInv, TypeOK, SucceededHasResults, GraphAfterSuccess,
    RecoverRuns, Stale
<1>10. ASSUME LoseRedis PROVE SucceededHasResults' /\ GraphAfterSuccess'
  BY <1>10 DEF IndInv, TypeOK, SucceededHasResults, GraphAfterSuccess,
    LoseRedis, Fault, LoseEntries
<1>11. CASE UNCHANGED <<jobStatus, attempts, graph, chunked, redisLost>>
  BY <1>11 DEF IndInv, TypeOK, SucceededHasResults, GraphAfterSuccess
<1> QED
  BY <1>1, <1>2, <1>3, <1>4, <1>5, <1>6, <1>7, <1>8, <1>9, <1>10, <1>11 DEF
    Next, UploadStep, DeliverStep, WorkerStep, LoopStep, PublishStep, vars,
    UploadBegin, StoreFails, EndUpload, NothingSeen, UploadRollback,
    EnqueueRead, Deliver, TakeEntry, DropExhausted, DropEntry, ForgetEntry,
    SkipClaimed, Goto, Advance, EnterStage, RunErrors, AfterError, Cancel,
    Finish, Idle, Rearm, KeepEntry, Crash, Fault, HeartbeatDies,
    RequeueErrors, Publish, EnqueueJob, PublishAck, ExpireDispatches,
    LoopAborts

(* A document in progress: a stage is entered by work that has not ended, an *)
(* upload queues the document with its job, a failure fails both.            *)
LEMMA ProgressStep ==
  ASSUME IndInv, TypeOK', [Next]_vars
  PROVE  InProgressHasWork'
<1> USE DEF Sound, SeenIsCurrent, StagesHaveWork, LockedIsNew,
  GraphAfterSuccess, DuplicateStatuses, DocUnlocked, Stages, Claims,
  HeldEntries, QueueTypeOK, redisVars, uploadVars, outboxVars, resultVars,
  workerVars, loopVars
<1>1. ASSUME NEW d \in Documents, StoreFails(d) PROVE InProgressHasWork'
  BY <1>1 DEF IndInv, TypeOK, InProgressHasWork, StoreFails, EndUpload,
    NothingSeen
<1>2. ASSUME NEW d \in Documents, EnqueueCommit(d) PROVE InProgressHasWork'
  BY <1>2 DEF IndInv, TypeOK, InProgressHasWork, EnqueueCommit, EndUpload,
    NothingSeen, JobStatuses
<1>3. ASSUME NEW d \in Documents, GraphEnds(d) PROVE InProgressHasWork'
  BY <1>3 DEF IndInv, TypeOK, InProgressHasWork, GraphEnds
<1>4. ASSUME NEW w \in Workers, ClaimJob(w) PROVE InProgressHasWork'
  BY <1>4 DEF IndInv, TypeOK, InProgressHasWork, ClaimJob, Goto
<1>5. ASSUME NEW w \in Workers, Advance(w) PROVE InProgressHasWork'
  BY <1>5 DEF IndInv, TypeOK, InProgressHasWork, Advance, EnterStage, Goto
<1>6. ASSUME NEW w \in Workers, Persist(w) PROVE InProgressHasWork'
  BY <1>6 DEF IndInv, TypeOK, InProgressHasWork, Persist, Goto
<1>7. ASSUME NEW w \in Workers, RunFails(w) PROVE InProgressHasWork'
  BY <1>7 DEF IndInv, TypeOK, InProgressHasWork, RunFails, Goto, AfterError
<1>8. ASSUME NEW w \in Workers, Requeue(w) PROVE InProgressHasWork'
  BY <1>8 DEF IndInv, TypeOK, InProgressHasWork, Requeue, Goto, Requeuing
<1>9. ASSUME NEW p \in Pollers, ClaimOutbox(p) PROVE InProgressHasWork'
  BY <1>9 DEF IndInv, TypeOK, InProgressHasWork, ClaimOutbox, Dispatchable
<1>10. ASSUME NEW p \in Pollers, NEW row \in batch[p], PublishFails(p, row)
      PROVE  InProgressHasWork'
  BY <1>10 DEF IndInv, TypeOK, InProgressHasWork, PublishFails
<1>11. ASSUME NEW p \in Pollers, NEW S \in SUBSET Documents, RecoverRuns(p, S)
      PROVE  InProgressHasWork'
  BY <1>11 DEF IndInv, TypeOK, InProgressHasWork, RecoverRuns, Stale
<1>12. ASSUME LoseRedis PROVE InProgressHasWork'
  BY <1>12 DEF IndInv, TypeOK, InProgressHasWork, LoseRedis, Fault,
    LoseEntries
<1>13. CASE UNCHANGED <<docStatus, jobStatus, attempts, redisLost>>
  BY <1>13 DEF IndInv, TypeOK, InProgressHasWork
<1> QED
  BY <1>1, <1>2, <1>3, <1>4, <1>5, <1>6, <1>7, <1>8, <1>9, <1>10, <1>11,
    <1>12, <1>13 DEF Next, UploadStep, DeliverStep, WorkerStep, LoopStep,
    PublishStep, vars, UploadBegin, UploadRollback, EndUpload, NothingSeen,
    EnqueueRead, Deliver, TakeEntry, DropExhausted, DropEntry, ForgetEntry,
    SkipClaimed, Goto, RunErrors, AfterError, Cancel, Finish, Idle, Rearm,
    KeepEntry, Crash, Fault, HeartbeatDies, RequeueErrors, Publish,
    EnqueueJob, PublishAck, ExpireDispatches, LoopAborts

(* The inductive invariant survives every step.                              *)
LEMMA IndStep == IndInv /\ [Next]_vars => IndInv'
<1> SUFFICES ASSUME IndInv, [Next]_vars PROVE IndInv'
  OBVIOUS
<1>1. TypeOK /\ TypeOK'
  BY TypeStep DEF IndInv
<1>2. HeldEntries' /\ SingleRunner'
  BY HolderStep DEF IndInv
<1>3. ClaimsCounted' /\ ClaimsAreExclusive'
  BY ClaimStep DEF IndInv
<1>4. LockedIsNew' /\ SeenIsCurrent'
  BY <1>1, UploadLockStep DEF IndInv
<1>5. StagesHaveWork'
  BY <1>1, StageStep
<1>6. SucceededHasResults' /\ GraphAfterSuccess'
  BY <1>1, ResultStep
<1>7. InProgressHasWork'
  BY <1>1, ProgressStep
<1> QED
  BY <1>1, <1>2, <1>3, <1>4, <1>5, <1>6, <1>7 DEF IndInv

(* IndInv holds in every reachable state.                                    *)
THEOREM Invariance == Spec => []IndInv
<1> QED
  BY InitInv, IndStep, PTL DEF Spec

(* Every variable of the pipeline keeps its type.                            *)
THEOREM TypeCorrect == Spec => []TypeOK
<1>1. IndInv => TypeOK
  BY DEF IndInv
<1> QED
  BY <1>1, Invariance, PTL

(* While Redis keeps its data, task_index_document never runs twice at the   *)
(* same time for one document.                                               *)
THEOREM RunnerIsSingle == Spec => []SingleRunner
<1>1. IndInv => SingleRunner
  BY DEF IndInv
<1> QED
  BY <1>1, Invariance, PTL

(* run_ingestion never reports success without the chunks and the graph job. *)
THEOREM SuccessHasResults == Spec => []SucceededHasResults
<1>1. IndInv => SucceededHasResults
  BY DEF IndInv
<1> QED
  BY <1>1, Invariance, PTL

(* A publication that fails late spares what another loop has claimed.       *)
THEOREM LateFailure == Spec => LateFailureSpares
<1>1. IndInv => [\A p, q \in Pollers : p # q =>
                   \A r \in batch[p], s \in batch[q] :
                     r.doc = s.doc /\ dispatched[r.doc] = r.claim /\ PublishFails(q, s) =>
                       /\ dispatched'[r.doc] = dispatched[r.doc]
                       /\ jobStatus'[r.doc] = jobStatus[r.doc]]_vars
  <2> SUFFICES ASSUME IndInv, NEW p \in Pollers, NEW q \in Pollers, p # q,
                      NEW r \in batch[p], NEW s \in batch[q], r.doc = s.doc,
                      dispatched[r.doc] = r.claim, PublishFails(q, s)
               PROVE  /\ dispatched'[r.doc] = dispatched[r.doc]
                      /\ jobStatus'[r.doc] = jobStatus[r.doc]
    OBVIOUS
  <2>1. dispatched[r.doc] # s.claim
    BY DEF IndInv, ClaimsAreExclusive
  <2>2. r.doc \in Documents
    BY DEF IndInv, TypeOK, Claims
  <2> QED
    BY <2>1, <2>2 DEF IndInv, TypeOK, PublishFails
<1> QED
  BY <1>1, Invariance, PTL DEF LateFailureSpares

(* A document that uploads refuse as in progress has a live job, while Redis *)
(* keeps its data and the outbox row has attempts left.                      *)
THEOREM ProgressIsLive == Spec => []InProgressHasWork
<1>1. IndInv => InProgressHasWork
  BY DEF IndInv
<1> QED
  BY <1>1, Invariance, PTL

(* A succeeded indexing job stays succeeded, while Redis keeps its data and  *)
(* the outbox row has attempts left.                                         *)
THEOREM SuccessFinal == Spec => SuccessIsFinal
<1>1. IndInv /\ [Next]_vars =>
        [\A d \in Documents :
           jobStatus[d] = "succeeded" /\ Sound(d) => jobStatus'[d] = "succeeded"]_vars
  <2> SUFFICES ASSUME IndInv, [Next]_vars, NEW d \in Documents,
                      jobStatus[d] = "succeeded", Sound(d)
               PROVE  jobStatus'[d] = "succeeded"
    OBVIOUS
  <2> USE DEF IndInv, TypeOK, Sound
  <2>1. ASSUME NEW w \in Workers, doc[w] = d PROVE pc[w] \notin Stages
    BY <2>1 DEF StagesHaveWork
  <2>2. ASSUME NEW e \in Documents, EnqueueCommit(e) PROVE jobStatus'[d] = "succeeded"
    BY <2>2 DEF EnqueueCommit, SeenIsCurrent, JobStatuses
  <2>3. ASSUME NEW w \in Workers, ClaimJob(w) \/ Persist(w) \/ RunFails(w) \/ Requeue(w)
        PROVE  jobStatus'[d] = "succeeded"
    BY <2>1, <2>3 DEF ClaimJob, Persist, RunFails, Requeue, Stages
  <2>4. ASSUME NEW p \in Pollers, NEW row \in batch[p], PublishFails(p, row)
        PROVE  jobStatus'[d] = "succeeded"
    BY <2>4, AttemptsAssumption DEF PublishFails
  <2>5. ASSUME NEW p \in Pollers, NEW S \in SUBSET Documents, RecoverRuns(p, S)
        PROVE  jobStatus'[d] = "succeeded"
    BY <2>5 DEF RecoverRuns, Stale
  <2>6. CASE UNCHANGED jobStatus
    BY <2>6
  <2> QED
    BY <2>2, <2>3, <2>4, <2>5, <2>6
    DEF Next, UploadStep, DeliverStep, WorkerStep, LoopStep, PublishStep, vars,
        UploadBegin, StoreFails, UploadRollback, EnqueueRead, Deliver, DropExhausted,
        GraphEnds, SkipClaimed, Advance, EnterStage, RunErrors, Cancel, Finish, Rearm,
        Crash, HeartbeatDies, RequeueErrors, ClaimOutbox, Publish, PublishAck,
        ExpireDispatches, LoopAborts, LoseRedis
<1> QED
  BY <1>1, Invariance, PTL DEF Spec, SuccessIsFinal
=============================================================================
