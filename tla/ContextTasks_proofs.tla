------------------------ MODULE ContextTasks_proofs ------------------------
(***************************************************************************)
(* Proofs about ContextTasks, for every set of jobs and workers, every     *)
(* bound, and every setting of the two switches.                           *)
(***************************************************************************)
EXTENDS ContextTasks, TLAPS

(***************************************************************************)
(* Type correctness.                                                       *)
(***************************************************************************)
THEOREM TypeCorrect == Spec => []TypeOK
<1>1. Init => TypeOK
  BY DEF Init, TypeOK, Submission, Location
<1>2. TypeOK /\ [Next]_vars => TypeOK'
  <2> SUFFICES ASSUME TypeOK, [Next]_vars PROVE TypeOK'
    OBVIOUS
  <2> USE DEF TypeOK, Submission, Location
  <2>1. CASE RunContexts
    BY <2>1 DEF RunContexts, recordVars, lockVars, workerVars
  <2>2. ASSUME NEW c \in Contexts, MakeNewRunContext(c) PROVE TypeOK'
    BY <2>2 DEF MakeNewRunContext, taskVars, lockVars, workerVars
  <2>3. ASSUME NEW c \in Contexts, StoreFinalSettings(c) PROVE TypeOK'
    BY <2>3 DEF StoreFinalSettings, taskVars, lockVars, workerVars
  <2>4. ASSUME NEW c \in Contexts, RequestDelete(c) PROVE TypeOK'
    BY <2>4 DEF RequestDelete, recordVars, lockVars, workerVars
  <2>5. ASSUME NEW c \in Contexts, Delete(c) PROVE TypeOK'
    BY <2>5 DEF Delete, lockVars, workerVars
  <2>6. ASSUME NEW c \in Contexts, ExpireRedisLock(c) PROVE TypeOK'
    BY <2>6 DEF ExpireRedisLock, recordVars, taskVars, workerVars
  <2>7. ASSUME NEW c \in Contexts, NEW w \in Workers, AcquireRedisLock(w, c)
        PROVE TypeOK'
    BY <2>7 DEF AcquireRedisLock, TakeRedisLock, Dequeue, recordVars
  <2>8. ASSUME NEW c \in Contexts, NEW w \in Workers, SkipLockedJob(w, c)
        PROVE TypeOK'
    BY <2>8 DEF SkipLockedJob, Dequeue, recordVars, lockVars, workerVars
  <2>9. ASSUME NEW w \in Workers, ProgressContext(w) \/ Kill(w)
        PROVE TypeOK'
    <3>1. CASE LockRow(w)
      BY <3>1 DEF LockRow, SelectForUpdate, recordVars, taskVars
    <3>2. CASE GiveUpRow(w)
      BY <3>2 DEF GiveUpRow, recordVars, taskVars, lockVars
    <3>3. CASE NestedCommit(w)
      BY <3>3 DEF NestedCommit, EndTransaction, recordVars, taskVars, workerVars
    <3>4. CASE StoreOutput(w)
      BY <3>4 DEF StoreOutput, EndTransaction, taskVars
    <3>5. CASE NoStageTriggered(w)
      BY <3>5 DEF NoStageTriggered, EndTransaction, taskVars
    <3>6. CASE AbortPass(w)
      BY <3>6 DEF AbortPass, EndTransaction, recordVars, taskVars
    <3>7. CASE ReleaseRedisLock(w)
      BY <3>7 DEF ReleaseRedisLock, recordVars, taskVars
    <3>8. CASE Kill(w)
      BY <3>8 DEF Kill, EndTransaction, recordVars, taskVars
    <3>9. QED
      BY <2>9, <3>1, <3>2, <3>3, <3>4, <3>5, <3>6, <3>7, <3>8
         DEF ProgressContext
  <2>10. CASE UNCHANGED vars
    BY <2>10 DEF vars, recordVars, taskVars, lockVars, workerVars
  <2>11. QED
    BY <2>1, <2>2, <2>3, <2>4, <2>5, <2>6, <2>7, <2>8, <2>9, <2>10 DEF Next
<1>3. QED
  BY <1>1, <1>2, PTL DEF Spec

-----------------------------------------------------------------------------
(***************************************************************************)
(* The inductive invariant behind the mutual exclusion of passes: which    *)
(* lock a worker holds at each point of progress_context, and what the     *)
(* holder of the row lock may rely on.                                     *)
(***************************************************************************)
RowLockHeld ==
  \A w \in Workers : \A c \in Contexts : rowLock[c] = w => Processing(w, c)

RowLockOfPass ==
  \A w \in Workers : \A c \in Plain : Processing(w, c) => rowLock[c] = w

RedisLockOfTask ==
  TimeLimitEnforced => \A w \in Workers : Busy(w) => redisLock[job[w]] = w

PassOnActive ==
  \A w \in Workers : \A c \in Plain : Processing(w, c) => Active(c)

LockInv ==
  /\ RowLockHeld
  /\ RowLockOfPass
  /\ RedisLockOfTask
  /\ PassOnActive

(***************************************************************************)
(* The locks alone give mutual exclusion.                                  *)
(***************************************************************************)
LEMMA LocksExclude == TypeOK /\ LockInv => OnePassAtATime
BY DEF TypeOK, Location, LockInv, RowLockOfPass, RedisLockOfTask,
       OnePassAtATime, Guarded, Processing, Busy, Plain

(***************************************************************************)
(* Every step keeps the locks and what their holder relies on: the row of  *)
(* an ordinary job is never written by anybody else during a pass.         *)
(***************************************************************************)
LEMMA LockInvStep == TypeOK /\ LockInv /\ [Next]_vars => LockInv'
<1> SUFFICES ASSUME TypeOK, LockInv, [Next]_vars PROVE LockInv'
  OBVIOUS
<1> USE WorkersAssumption, SwitchesAssumption
    DEF TypeOK, Location, Submission, LockInv, RowLockHeld, RowLockOfPass,
        RedisLockOfTask, PassOnActive, Processing, Busy, Active, Exists, Plain
<1>1. CASE RunContexts
  BY <1>1 DEF RunContexts, recordVars, lockVars, workerVars
<1>2. ASSUME NEW c \in Contexts, MakeNewRunContext(c) PROVE LockInv'
  BY <1>2 DEF MakeNewRunContext, taskVars, lockVars, workerVars
<1>3. ASSUME NEW c \in Contexts, StoreFinalSettings(c) PROVE LockInv'
  BY <1>3 DEF StoreFinalSettings, taskVars, lockVars, workerVars
<1>4. ASSUME NEW c \in Contexts, RequestDelete(c) PROVE LockInv'
  BY <1>4 DEF RequestDelete, recordVars, lockVars, workerVars
<1>5. ASSUME NEW c \in Contexts, Delete(c) PROVE LockInv'
  BY <1>5 DEF Delete, lockVars, workerVars
<1>6. ASSUME NEW c \in Contexts, ExpireRedisLock(c) PROVE LockInv'
  BY <1>6 DEF ExpireRedisLock, recordVars, taskVars, workerVars
<1>7. ASSUME NEW c \in Contexts, NEW w \in Workers, AcquireRedisLock(w, c)
      PROVE LockInv'
  BY <1>7 DEF AcquireRedisLock, TakeRedisLock, Dequeue, recordVars
<1>8. ASSUME NEW c \in Contexts, NEW w \in Workers, SkipLockedJob(w, c)
      PROVE LockInv'
  BY <1>8 DEF SkipLockedJob, Dequeue, recordVars, lockVars, workerVars
<1>9. ASSUME NEW w \in Workers, ProgressContext(w) \/ Kill(w) PROVE LockInv'
  <2>1. CASE LockRow(w)
    BY <2>1 DEF LockRow, SelectForUpdate, recordVars, taskVars
  <2>2. CASE GiveUpRow(w)
    BY <2>2 DEF GiveUpRow, recordVars, taskVars, lockVars
  <2>3. CASE NestedCommit(w)
    BY <2>3 DEF NestedCommit, EndTransaction, recordVars, taskVars, workerVars
  <2>4. CASE StoreOutput(w)
    BY <2>4 DEF StoreOutput, EndTransaction, taskVars
  <2>5. CASE NoStageTriggered(w)
    BY <2>5 DEF NoStageTriggered, EndTransaction, taskVars
  <2>6. CASE AbortPass(w)
    BY <2>6 DEF AbortPass, EndTransaction, recordVars, taskVars
  <2>7. CASE ReleaseRedisLock(w)
    BY <2>7 DEF ReleaseRedisLock, recordVars, taskVars
  <2>8. CASE Kill(w)
    BY <2>8 DEF Kill, EndTransaction, recordVars, taskVars
  <2>9. QED
    BY <1>9, <2>1, <2>2, <2>3, <2>4, <2>5, <2>6, <2>7, <2>8
       DEF ProgressContext
<1>10. CASE UNCHANGED vars
  BY <1>10 DEF vars, recordVars, taskVars, lockVars, workerVars
<1>11. QED
  BY <1>1, <1>2, <1>3, <1>4, <1>5, <1>6, <1>7, <1>8, <1>9, <1>10 DEF Next

(***************************************************************************)
(* Only the worker of a pass stores a version, and it is the only one on   *)
(* the job: the snapshots of the others are not affected.                  *)
(***************************************************************************)
LEMMA SnapshotStep ==
  TypeOK /\ LockInv /\ SnapshotIsCurrent /\ [Next]_vars => SnapshotIsCurrent'
<1> SUFFICES ASSUME TypeOK, LockInv, SnapshotIsCurrent, [Next]_vars
             PROVE SnapshotIsCurrent'
  OBVIOUS
<1>1. OnePassAtATime
  BY LocksExclude
<1> USE SwitchesAssumption
    DEF TypeOK, Location, SnapshotIsCurrent, Guarded, Processing
<1>2. ASSUME NEW w \in Workers, StoreOutput(w) PROVE SnapshotIsCurrent'
  BY <1>1, <1>2 DEF StoreOutput, OnePassAtATime
<1>3. ASSUME NEW w \in Workers, LockRow(w) PROVE SnapshotIsCurrent'
  BY <1>3 DEF LockRow, SelectForUpdate, recordVars, taskVars
<1>4. ASSUME NEW w \in Workers, NEW c \in Contexts, AcquireRedisLock(w, c)
      PROVE SnapshotIsCurrent'
  BY <1>4 DEF AcquireRedisLock, TakeRedisLock, Dequeue, recordVars
<1>5. ASSUME NEW w \in Workers,
             \/ GiveUpRow(w) \/ NoStageTriggered(w) \/ AbortPass(w)
             \/ ReleaseRedisLock(w) \/ Kill(w) \/ NestedCommit(w)
      PROVE SnapshotIsCurrent'
  BY <1>5 DEF GiveUpRow, NoStageTriggered, AbortPass, ReleaseRedisLock, Kill,
              NestedCommit, recordVars, workerVars
<1>6. ASSUME UNCHANGED <<version, pc, job, base>> PROVE SnapshotIsCurrent'
  BY <1>6
<1>7. ASSUME NEW c \in Contexts,
             \/ MakeNewRunContext(c) \/ StoreFinalSettings(c)
             \/ RequestDelete(c) \/ Delete(c) \/ ExpireRedisLock(c)
             \/ \E w \in Workers : SkipLockedJob(w, c)
      PROVE UNCHANGED <<version, pc, job, base>>
  BY <1>7 DEF MakeNewRunContext, StoreFinalSettings, RequestDelete, Delete,
              ExpireRedisLock, SkipLockedJob, recordVars, workerVars
<1>8. RunContexts \/ UNCHANGED vars => UNCHANGED <<version, pc, job, base>>
  BY DEF RunContexts, vars, recordVars, workerVars
<1>9. QED
  BY <1>2, <1>3, <1>4, <1>5, <1>6, <1>7, <1>8 DEF Next, ProgressContext

(* The invariants hold before the first job is submitted.                  *)
LEMMA InvariantsInit == Init => LockInv /\ SnapshotIsCurrent
BY WorkersAssumption
   DEF Init, LockInv, RowLockHeld, RowLockOfPass, RedisLockOfTask, PassOnActive,
       SnapshotIsCurrent, Processing, Busy, Plain

(***************************************************************************)
(* At most one worker processes a job: for an ordinary job by the row lock *)
(* alone, for a sweep as long as the pool enforces the time limit.         *)
(***************************************************************************)
THEOREM MutualExclusion == Spec => []OnePassAtATime
<1>1. TypeOK /\ LockInv /\ [Next]_vars => LockInv'
  BY LockInvStep
<1>2. QED
  BY <1>1, TypeCorrect, InvariantsInit, LocksExclude, PTL DEF Spec

(***************************************************************************)
(* No update is lost: what a pass started from is what it writes over.     *)
(***************************************************************************)
THEOREM NoLostUpdate == Spec => []SnapshotIsCurrent
<1>1. TypeOK /\ LockInv /\ SnapshotIsCurrent /\ [Next]_vars
        => LockInv' /\ SnapshotIsCurrent'
  BY LockInvStep, SnapshotStep
<1>2. QED
  BY <1>1, TypeCorrect, InvariantsInit, PTL DEF Spec

-----------------------------------------------------------------------------
(***************************************************************************)
(* The record of an ordinary job implements JobRecord.                     *)
(***************************************************************************)
LEMMA RecordInit == Init => Record!Init
BY DEF Init, Record!Init, Plain, PhaseOf

(* A step that leaves the rows alone is invisible in the record.           *)
LEMMA RecordStutter ==
  UNCHANGED recordVars => UNCHANGED Record!vars
BY DEF recordVars, Record!vars, PhaseOf

(***************************************************************************)
(* Each step of the tasks is one step of the record or none.               *)
(***************************************************************************)
LEMMA RecordStep ==
  TypeOK /\ LockInv /\ SnapshotIsCurrent /\ [Next]_vars
    => [Record!Next]_(Record!vars)
<1> SUFFICES ASSUME TypeOK, LockInv, SnapshotIsCurrent, [Next]_vars
             PROVE [Record!Next]_(Record!vars)
  OBVIOUS
<1> USE DEF TypeOK, Submission, Plain, PhaseOf, Record!Next, Record!vars
<1>1. ASSUME NEW c \in Contexts, MakeNewRunContext(c)
      PROVE [Record!Next]_(Record!vars)
  <2>1. CASE c \in Plain
    <3>1. Record!Create(c)
      BY <1>1, <2>1 DEF MakeNewRunContext, Record!Create, Record!Enter
    <3>2. QED
      BY <2>1, <3>1
  <2>2. CASE c \notin Plain
    BY <1>1, <2>2 DEF MakeNewRunContext
  <2>3. QED
    BY <2>1, <2>2
<1>2. ASSUME NEW c \in Contexts, StoreFinalSettings(c)
      PROVE [Record!Next]_(Record!vars)
  <2>1. CASE c \in Plain
    <3>1. Record!Submit(c)
      BY <1>2, <2>1 DEF StoreFinalSettings, Record!Submit, Record!Enter
    <3>2. QED
      BY <2>1, <3>1
  <2>2. CASE c \notin Plain
    BY <1>2, <2>2 DEF StoreFinalSettings
  <2>3. QED
    BY <2>1, <2>2
<1>3. ASSUME NEW c \in Contexts, deleted' = [deleted EXCEPT ![c] = TRUE],
             UNCHANGED <<submission, version>>
      PROVE [Record!Next]_(Record!vars)
  <2>1. CASE c \in Plain /\ PhaseOf(c) = "live"
    <3>1. Record!End(c)
      BY <1>3, <2>1 DEF Record!End, Record!Enter
    <3>2. QED
      BY <2>1, <3>1
  <2>2. CASE c \notin Plain \/ PhaseOf(c) # "live"
    BY <1>3, <2>2
  <2>3. QED
    BY <2>1, <2>2
<1>4. ASSUME NEW w \in Workers, StoreOutput(w)
      PROVE [Record!Next]_(Record!vars)
  <2> PICK c \in Contexts : c = job[w]
    OBVIOUS
  <2>1. CASE c \in Plain
    <3>1. Active(c) /\ base[w] = version[c]
      BY <1>4, <2>1 DEF StoreOutput, LockInv, PassOnActive, SnapshotIsCurrent,
                        Processing, Guarded
    <3>2. Record!Pass(c)
      BY <1>4, <2>1, <3>1 DEF StoreOutput, Record!Pass, Active, Exists
    <3>3. QED
      BY <2>1, <3>2
  <2>2. CASE c \notin Plain
    BY <1>4, <2>2 DEF StoreOutput
  <2>3. QED
    BY <2>1, <2>2
<1>5. ASSUME NEW c \in Contexts, Delete(c) PROVE [Record!Next]_(Record!vars)
  BY <1>3, <1>5 DEF Delete
<1>6. ASSUME NEW w \in Workers, NoStageTriggered(w)
      PROVE [Record!Next]_(Record!vars)
  BY <1>3, <1>6 DEF NoStageTriggered
<1>7. ASSUME UNCHANGED recordVars PROVE [Record!Next]_(Record!vars)
  BY <1>7, RecordStutter
<1>8. ASSUME NEW c \in Contexts,
             \/ RequestDelete(c) \/ ExpireRedisLock(c)
             \/ \E w \in Workers : AcquireRedisLock(w, c) \/ SkipLockedJob(w, c)
      PROVE UNCHANGED recordVars
  BY <1>8 DEF RequestDelete, ExpireRedisLock, AcquireRedisLock, TakeRedisLock,
              SkipLockedJob
<1>9. ASSUME NEW w \in Workers,
             \/ LockRow(w) \/ GiveUpRow(w) \/ NestedCommit(w)
             \/ AbortPass(w) \/ ReleaseRedisLock(w) \/ Kill(w)
      PROVE UNCHANGED recordVars
  BY <1>9 DEF LockRow, SelectForUpdate, GiveUpRow, NestedCommit, AbortPass,
              ReleaseRedisLock, Kill
<1>10. RunContexts \/ UNCHANGED vars => UNCHANGED recordVars
  BY DEF RunContexts, vars
<1>11. QED
  BY <1>1, <1>2, <1>4, <1>5, <1>6, <1>7, <1>8, <1>9, <1>10
     DEF Next, ProgressContext

(***************************************************************************)
(* Whatever the workers, the beat and the user do, and wherever workers    *)
(* are killed, an ordinary job's record is created, finalised, advanced    *)
(* pass by pass and ended, and left alone from then on.                    *)
(***************************************************************************)
THEOREM RecordImplemented == Spec => RecordSpec
<1>1. TypeOK /\ LockInv /\ SnapshotIsCurrent /\ [Next]_vars
        => LockInv' /\ SnapshotIsCurrent'
  BY LockInvStep, SnapshotStep
<1>2. QED
  BY <1>1, TypeCorrect, InvariantsInit, RecordInit, RecordStep, PTL
     DEF Spec, RecordSpec, Record!Spec

=============================================================================
