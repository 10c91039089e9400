------------------------------ MODULE ArqQueue ------------------------------
(***************************************************************************)
(* What the workers of apps/api/app/arq_worker.py rely on in arq and Redis: *)
(* a job enqueued under a fixed _job_id has at most one entry, an entry is  *)
(* delivered at most max_tries times, it is kept when its task raises Retry *)
(* or is cancelled by a shutdown and forgotten when its task ends.  Redis   *)
(* keeps nothing that a restart does not lose.                              *)
(***************************************************************************)
EXTENDS Naturals

CONSTANTS
  Documents,  \* documents; an indexing or graph job has the id of its document
  MaxTries    \* max_tries of the task: deliveries of one entry

ASSUME TriesAssumption == MaxTries \in Nat \ {0}

VARIABLES
  queue,      \* the entry of each job
  tries,      \* the deliveries it has had
  redisLost   \* TRUE once Redis has lost its data

redisVars == <<queue, tries, redisLost>>

QueueTypeOK ==
  /\ queue \in [Documents -> {"absent", "waiting", "running"}]
  /\ tries \in [Documents -> 0..MaxTries]
  /\ redisLost \in BOOLEAN

QueueInit ==
  /\ queue = [d \in Documents |-> "absent"]
  /\ tries = [d \in Documents |-> 0]
  /\ redisLost = FALSE

\* redis.enqueue_job with _job_id: arq ignores it while it knows the job id.
EnqueueJob(d) ==
  IF queue[d] = "absent"
  THEN /\ queue' = [queue EXCEPT ![d] = "waiting"]
       /\ tries' = [tries EXCEPT ![d] = 0]
       /\ UNCHANGED redisLost
  ELSE UNCHANGED redisVars

\* A free worker takes a waiting entry.
TakeEntry(d) ==
  /\ queue[d] = "waiting"
  /\ tries[d] < MaxTries
  /\ queue' = [queue EXCEPT ![d] = "running"]
  /\ tries' = [tries EXCEPT ![d] = @ + 1]
  /\ UNCHANGED redisLost

\* The task has returned or raised: the entry is forgotten.
ForgetEntry(d) ==
  /\ queue' = [queue EXCEPT ![d] = "absent"]
  /\ tries' = [tries EXCEPT ![d] = 0]
  /\ UNCHANGED redisLost

\* An entry delivered max_tries times is forgotten without running its task.
DropEntry(d) ==
  /\ queue[d] = "waiting"
  /\ tries[d] >= MaxTries
  /\ ForgetEntry(d)

\* The task raised Retry, was cancelled by a shutdown, or its worker died.
KeepEntry(d) ==
  /\ queue' = [queue EXCEPT ![d] = IF @ = "absent" THEN "absent" ELSE "waiting"]
  /\ UNCHANGED <<tries, redisLost>>

\* Redis loses the queue, its job ids and its counters.
LoseEntries ==
  /\ queue' = [d \in Documents |-> "absent"]
  /\ tries' = [d \in Documents |-> 0]
  /\ redisLost' = TRUE
=============================================================================
