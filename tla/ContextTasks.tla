---------------------------- MODULE ContextTasks ----------------------------
(***************************************************************************)
(* The celery tasks that drive jobs (smartconnectorscheduler/tasks.py) and *)
(* the function that submits a job (jobs.make_runcontext_for_directive).   *)
(*                                                                         *)
(* A celery worker that runs progress_context takes a redis lock that      *)
(* expires, then the database row lock of the Context, runs one pass over  *)
(* the stages of the job in a transaction, and gives both back.  The beat  *)
(* enqueues a task for every job every ten seconds, whether or not the     *)
(* previous one has run, so several workers meet at the same job.          *)
(***************************************************************************)
EXTENDS Naturals, FiniteSets

CONSTANTS
  Contexts,           \* ids of the jobs (rows of Context)
  Workers,            \* celery worker processes
  Sweeps,             \* contexts whose stage commits in the middle of a pass
  NoWorker,           \* value of a free lock
  TimeLimitEnforced,  \* the pool kills a task at its time_limit
  ReleaseChecksOwner, \* redis release refuses a lock taken over by another
  MaxQueue,           \* bound: pending progress_context tasks per job
  MaxPass,            \* bound: passes of a job that find a triggered stage
  MaxFaults           \* bound: worker kills and aborted passes

ASSUME ContextsAssumption == Sweeps \subseteq Contexts
ASSUME WorkersAssumption == NoWorker \notin Workers
ASSUME SwitchesAssumption ==
  /\ TimeLimitEnforced \in BOOLEAN
  /\ ReleaseChecksOwner \in BOOLEAN
ASSUME BoundsAssumption ==
  /\ MaxQueue \in Nat \ {0}
  /\ MaxPass \in Nat
  /\ MaxFaults \in Nat

VARIABLES
  submission,   \* how far make_runcontext_for_directive is with each job
  deleted,      \* Context.deleted, as committed
  version,      \* number of passes whose settings are committed
  queue,        \* pending progress_context tasks
  deletions,    \* jobs with a pending delete task
  redisLock,    \* holder of the redis lock named after the job
  rowLock,      \* worker whose transaction holds the row of the job
  pc,           \* where each worker is in progress_context
  job,          \* the job of the task a worker runs (stale when it is idle)
  base,         \* version of the settings a worker's pass started from
  faults        \* worker kills and aborted passes so far

recordVars == <<submission, deleted, version>>
taskVars == <<queue, deletions>>
lockVars == <<redisLock, rowLock>>
workerVars == <<pc, job, base>>
vars == <<recordVars, taskVars, lockVars, workerVars, faults>>

Submission == {"none", "created", "ready"}
Location == {"idle", "locked", "processing", "releasing"}

TypeOK ==
  /\ submission \in [Contexts -> Submission]
  /\ deleted \in [Contexts -> BOOLEAN]
  /\ version \in [Contexts -> Nat]
  /\ queue \in [Contexts -> Nat]
  /\ deletions \in SUBSET Contexts
  /\ redisLock \in [Contexts -> Workers \cup {NoWorker}]
  /\ rowLock \in [Contexts -> Workers \cup {NoWorker}]
  /\ pc \in [Workers -> Location]
  /\ job \in [Workers -> Contexts]
  /\ base \in [Workers -> Nat]
  /\ faults \in Nat

Init ==
  /\ submission = [c \in Contexts |-> "none"]
  /\ deleted = [c \in Contexts |-> FALSE]
  /\ version = [c \in Contexts |-> 0]
  /\ queue = [c \in Contexts |-> 0]
  /\ deletions = {}
  /\ redisLock = [c \in Contexts |-> NoWorker]
  /\ rowLock = [c \in Contexts |-> NoWorker]
  /\ pc = [w \in Workers |-> "idle"]
  /\ job \in [Workers -> Contexts]
  /\ base = [w \in Workers |-> 0]
  /\ faults = 0

(***************************************************************************)
(* The objects that the queries of the tasks return.                       *)
(***************************************************************************)
Exists(c) == submission[c] # "none"
Active(c) == Exists(c) /\ ~deleted[c]
Busy(w) == pc[w] # "idle"

-----------------------------------------------------------------------------
(***************************************************************************)
(* Submission of a job: the row is created and committed with contextid 0, *)
(* and a second transaction saves the row again (every column, deleted     *)
(* included, from the object created before) and stores the final          *)
(* settings.  The second one waits for the row.  version counts passes, and*)
(* stays what it is when final settings overwrite what a pass has stored.  *)
(***************************************************************************)
MakeNewRunContext(c) ==
  /\ submission[c] = "none"
  /\ submission' = [submission EXCEPT ![c] = "created"]
  /\ UNCHANGED <<deleted, version, taskVars, lockVars, workerVars, faults>>

StoreFinalSettings(c) ==
  /\ submission[c] = "created"
  /\ rowLock[c] = NoWorker
  /\ submission' = [submission EXCEPT ![c] = "ready"]
  /\ deleted' = [deleted EXCEPT ![c] = FALSE]
  /\ UNCHANGED <<version, taskVars, lockVars, workerVars, faults>>

(***************************************************************************)
(* The beat: one progress_context task for every job not yet deleted.      *)
(***************************************************************************)
RunContexts ==
  /\ queue' = [c \in Contexts |-> IF Active(c) /\ queue[c] < MaxQueue
                                  THEN queue[c] + 1 ELSE queue[c]]
  /\ UNCHANGED <<recordVars, deletions, lockVars, workerVars, faults>>

(***************************************************************************)
(* Deletion: the user's request enqueues a task that waits for the row.    *)
(***************************************************************************)
RequestDelete(c) ==
  /\ Active(c)
  /\ deletions' = deletions \cup {c}
  /\ UNCHANGED <<recordVars, queue, lockVars, workerVars, faults>>

(* Mutant: deletion does not wait for the row.                             *)
DeleteAtOnce(c) ==
  /\ c \in deletions
  /\ deletions' = deletions \ {c}
  /\ deleted' = [deleted EXCEPT ![c] = TRUE]
  /\ UNCHANGED <<submission, version, queue, lockVars, workerVars, faults>>

Delete(c) ==
  /\ c \in deletions
  /\ deletions' = deletions \ {c}
  /\ \/ rowLock[c] = NoWorker /\ deleted' = [deleted EXCEPT ![c] = TRUE]
     \/ deleted[c] /\ UNCHANGED deleted
  /\ UNCHANGED <<submission, version, queue, lockVars, workerVars, faults>>

-----------------------------------------------------------------------------
(***************************************************************************)
(* progress_context: try the redis lock without waiting, return at once    *)
(* when somebody has it.                                                   *)
(***************************************************************************)
Dequeue(w, c) ==
  /\ pc[w] = "idle"
  /\ queue[c] > 0
  /\ queue' = [queue EXCEPT ![c] = @ - 1]

(* Mutants: the lock is not looked at; it names the job, not the holder.   *)
TakeHeldRedisLock(w, c) == redisLock' = [redisLock EXCEPT ![c] = w]

TakeUnsignedRedisLock(w, c) ==
  /\ redisLock[c] = NoWorker
  /\ redisLock' = [redisLock EXCEPT ![c] = c]

TakeRedisLock(w, c) ==
  /\ redisLock[c] = NoWorker
  /\ redisLock' = [redisLock EXCEPT ![c] = w]

AcquireRedisLock(w, c) ==
  /\ Dequeue(w, c)
  /\ TakeRedisLock(w, c)
  /\ pc' = [pc EXCEPT ![w] = "locked"]
  /\ job' = [job EXCEPT ![w] = c]
  /\ UNCHANGED <<recordVars, deletions, rowLock, base, faults>>

SkipLockedJob(w, c) ==
  /\ Dequeue(w, c)
  /\ redisLock[c] # NoWorker
  /\ UNCHANGED <<recordVars, deletions, lockVars, workerVars, faults>>

(***************************************************************************)
(* _process_context: SELECT ... FOR UPDATE NOWAIT of a row not deleted,    *)
(* then the snapshot of the run settings that the whole pass works on.     *)
(***************************************************************************)
SelectForUpdate(w, c) ==
  /\ rowLock[c] = NoWorker
  /\ rowLock' = [rowLock EXCEPT ![c] = w]

LockRow(w) ==
  /\ pc[w] = "locked"
  /\ SelectForUpdate(w, job[w])
  /\ Active(job[w])
  /\ base' = [base EXCEPT ![w] = version[job[w]]]
  /\ pc' = [pc EXCEPT ![w] = "processing"]
  /\ UNCHANGED <<recordVars, taskVars, redisLock, job, faults>>

GiveUpRow(w) ==
  /\ pc[w] = "locked"
  /\ rowLock[job[w]] # NoWorker \/ ~Active(job[w])
  /\ pc' = [pc EXCEPT ![w] = "releasing"]
  /\ UNCHANGED <<recordVars, taskVars, lockVars, job, base, faults>>

(***************************************************************************)
(* The end of a transaction, committed or rolled back, frees the row if    *)
(* it still holds it.                                                      *)
(***************************************************************************)
EndTransaction(w) ==
  rowLock' = [c \in Contexts |-> IF rowLock[c] = w THEN NoWorker
                                                   ELSE rowLock[c]]

(***************************************************************************)
(* The stage of a sweep submits other jobs, and each submission ends in a  *)
(* nested commit_on_success, which commits the transaction of the pass.    *)
(***************************************************************************)
NestedCommit(w) ==
  /\ pc[w] = "processing"
  /\ job[w] \in Sweeps
  /\ rowLock[job[w]] = w
  /\ EndTransaction(w)
  /\ UNCHANGED <<recordVars, taskVars, redisLock, workerVars, faults>>

(***************************************************************************)
(* A stage was triggered, processed, and its output is stored.             *)
(***************************************************************************)
StoreOutput(w) ==
  /\ pc[w] = "processing"
  /\ base[w] < MaxPass
  /\ version' = [version EXCEPT ![job[w]] = base[w] + 1]
  /\ EndTransaction(w)
  /\ pc' = [pc EXCEPT ![w] = "releasing"]
  /\ UNCHANGED <<submission, deleted, taskVars, redisLock, job, base, faults>>

(***************************************************************************)
(* No stage was triggered, or the triggered one raised: the job is over.   *)
(* The save of the row waits for whoever holds it after a nested commit.   *)
(***************************************************************************)
NoStageTriggered(w) ==
  /\ pc[w] = "processing"
  /\ rowLock[job[w]] \in {w, NoWorker}
  /\ deleted' = [deleted EXCEPT ![job[w]] = TRUE]
  /\ EndTransaction(w)
  /\ pc' = [pc EXCEPT ![w] = "releasing"]
  /\ UNCHANGED <<submission, version, taskVars, redisLock, job, base, faults>>

(***************************************************************************)
(* A stage class cannot be imported: the exception leaves the transaction, *)
(* which is rolled back, and the finally clause gives the lock back.       *)
(***************************************************************************)
AbortPass(w) ==
  /\ pc[w] = "processing"
  /\ faults < MaxFaults
  /\ faults' = faults + 1
  /\ EndTransaction(w)
  /\ pc' = [pc EXCEPT ![w] = "releasing"]
  /\ UNCHANGED <<recordVars, taskVars, redisLock, job, base>>

ReleaseRedisLock(w) ==
  /\ pc[w] = "releasing"
  /\ redisLock' =
       IF redisLock[job[w]] = w \/ ~ReleaseChecksOwner
       THEN [redisLock EXCEPT ![job[w]] = NoWorker] ELSE redisLock
  /\ pc' = [pc EXCEPT ![w] = "idle"]
  /\ UNCHANGED <<recordVars, taskVars, rowLock, job, base, faults>>

-----------------------------------------------------------------------------
(***************************************************************************)
(* A worker is killed (time limit, restart of the service, lack of         *)
(* memory): the database rolls its transaction back, the redis lock stays. *)
(***************************************************************************)
Kill(w) ==
  /\ Busy(w)
  /\ faults < MaxFaults
  /\ faults' = faults + 1
  /\ EndTransaction(w)
  /\ pc' = [pc EXCEPT ![w] = "idle"]
  /\ UNCHANGED <<recordVars, taskVars, redisLock, job, base>>

(* Mutant: the lock is taken without a timeout.                            *)
NeverExpire(c) == redisLock[c] # NoWorker /\ UNCHANGED vars

(***************************************************************************)
(* The redis lock times out.  REDIS_TIMEOUT equals the time_limit of the   *)
(* task, whose clock starts first: where the pool enforces the limit, the  *)
(* task that took the lock is dead by then.                                *)
(***************************************************************************)
ExpireRedisLock(c) ==
  /\ redisLock[c] # NoWorker
  /\ TimeLimitEnforced =>
       ~ (Busy(redisLock[c]) /\ job[redisLock[c]] = c)
  /\ redisLock' = [redisLock EXCEPT ![c] = NoWorker]
  /\ UNCHANGED <<recordVars, taskVars, rowLock, workerVars, faults>>

-----------------------------------------------------------------------------
ProgressContext(w) ==
  \/ LockRow(w)
  \/ GiveUpRow(w)
  \/ NestedCommit(w)
  \/ StoreOutput(w)
  \/ NoStageTriggered(w)
  \/ AbortPass(w)
  \/ ReleaseRedisLock(w)

Next ==
  \/ RunContexts
  \/ \E c \in Contexts :
       \/ MakeNewRunContext(c)
       \/ StoreFinalSettings(c)
       \/ RequestDelete(c)
       \/ Delete(c)
       \/ ExpireRedisLock(c)
       \/ \E w \in Workers : AcquireRedisLock(w, c) \/ SkipLockedJob(w, c)
  \/ \E w \in Workers : ProgressContext(w) \/ Kill(w)

Spec == Init /\ [][Next]_vars

(***************************************************************************)
(* The beat keeps ticking, a worker goes on with the task it has taken,    *)
(* locks expire, and the queue is first in first out, so that a task of a  *)
(* job does not wait for ever behind those of the others.                  *)
(***************************************************************************)
Fairness ==
  /\ WF_vars(RunContexts)
  /\ \A w \in Workers :
       WF_vars(LockRow(w) \/ GiveUpRow(w) \/ StoreOutput(w)
                 \/ NoStageTriggered(w) \/ ReleaseRedisLock(w))
  /\ \A c \in Contexts :
       /\ WF_vars(ExpireRedisLock(c))
       /\ SF_vars(\E w \in Workers : AcquireRedisLock(w, c))

FairSpec == Spec /\ Fairness

-----------------------------------------------------------------------------
(***************************************************************************)
(* Properties.                                                             *)
(***************************************************************************)
Processing(w, c) == pc[w] = "processing" /\ job[w] = c

(* A job whose passes nothing but the two locks protects: for a sweep the  *)
(* row lock is lost at the first nested commit, and only the redis lock is *)
(* left, which is as good as the time limit behind it.                     *)
Guarded(c) == c \notin Sweeps \/ TimeLimitEnforced

(***************************************************************************)
(* Two workers never process one job at the same time (progress_context),  *)
(* in spite of duplicated tasks, of locks that expire under a live pass,   *)
(* and of releases that free the lock of another worker.                   *)
(***************************************************************************)
OnePassAtATime ==
  \A c \in Contexts : Guarded(c) =>
    \A v, w \in Workers : Processing(v, c) /\ Processing(w, c) => v = w

(***************************************************************************)
(* The settings a pass computes from (run_context.get_context, read once   *)
(* at its start) are still the stored ones when it writes its output, so   *)
(* that update_run_settings never undoes the output of another pass.       *)
(***************************************************************************)
SnapshotIsCurrent ==
  \A w \in Workers : \A c \in Contexts :
    Guarded(c) /\ Processing(w, c) => base[w] = version[c]

(***************************************************************************)
(* The record of a job behaves as JobRecord says: settings are final       *)
(* before the job is live, passes are stored one at a time, and nothing is *)
(* stored after the job has ended, by its own last pass or by the user.    *)
(* Sweeps are not among the jobs: their passes do commit after a delete.   *)
(***************************************************************************)
Plain == Contexts \ Sweeps

PhaseOf(c) ==
  IF submission[c] = "none" THEN "absent"
  ELSE IF submission[c] = "created" THEN "draft"
  ELSE IF deleted[c] THEN "ended" ELSE "live"

Record == INSTANCE JobRecord WITH
  Jobs <- Plain,
  phase <- [c \in Plain |-> PhaseOf(c)],
  passes <- [c \in Plain |-> version[c]]

RecordSpec == Record!Spec

(***************************************************************************)
(* A submitted job comes to its end, even when the worker that processes   *)
(* it is killed and leaves the redis lock behind: the lock expires, and    *)
(* the beat enqueues the job again.                                        *)
(***************************************************************************)
EveryJobEnds ==
  \A c \in Contexts : submission[c] = "ready" ~> deleted[c]

(***************************************************************************)
(* jobs.py adds the user's settings "so we get set values when context     *)
(* executed": a pass works on a job only once its settings are stored.     *)
(***************************************************************************)
ExecutedWithFinalSettings ==
  \A w \in Workers : pc[w] = "processing" => submission[job[w]] = "ready"

=============================================================================
