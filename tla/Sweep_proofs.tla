---------------------------- MODULE Sweep_proofs ----------------------------
(***************************************************************************)
(* Proofs about the submissions of a sweep (Sweep), for every number of    *)
(* runs and of workers that die.                                           *)
(***************************************************************************)
EXTENDS Sweep, FiniteSetTheorems, TLAPS

(***************************************************************************)
(* The inductive invariant.  A pass takes an attempt of its own, and every *)
(* attempt but the present one was ended by the death of a worker; within  *)
(* a pass the runs before position are submitted and those after it are    *)
(* not, and the only child without committed final settings is the last.   *)
(***************************************************************************)
Attempt ==
  /\ attempt <= kills + 1
  /\ Idle /\ ~sweepDone /\ ~deleted => attempt <= kills
  /\ \A a \in Attempts, r \in Runs : a > attempt => children[a][r] = "none"
  /\ Idle /\ attempt \in Attempts /\ HasDraft(attempt) => attempt <= kills

Loop ==
  /\ unsaved => position.at = "submitting" /\ position.i > 0
  /\ ~Idle => attempt \in Attempts /\ position.i <= runs /\ ~sweepDone
  /\ position.at = "submitting" =>
       \A r \in Runs :
         Committed(attempt)[r] = IF r < position.i THEN "final" ELSE "none"
  /\ position.at = "created" =>
       /\ position.i < runs
       /\ \A r \in Runs :
            /\ r < position.i => children[attempt][r] = "final"
            /\ r = position.i => children[attempt][r] = "draft"
            /\ r > position.i => children[attempt][r] = "none"

IInv == TypeOK /\ Attempt /\ Loop /\ OnlyLastIsDraft /\ DoneIsComplete

USE SweepAssumption DEF SweepAssumption

(***************************************************************************)
(* Between two submissions the transaction, once committed, makes every    *)
(* child before position final.                                            *)
(***************************************************************************)
LEMMA CommittedChildren ==
  ASSUME IInv, position.at = "submitting"
  PROVE  /\ attempt \in Attempts
         /\ position.i \in 0 .. runs
         /\ Committed(attempt) =
              [r \in Runs |-> IF r < position.i THEN "final" ELSE "none"]
<1>1. attempt \in Attempts /\ position.i \in 0 .. runs
  BY DEF IInv, TypeOK, Loop, Idle
<1>2. Committed(attempt) \in [Runs -> {"none", "draft", "final"}]
  BY <1>1 DEF IInv, TypeOK, Committed
<1>3. \A r \in Runs :
        Committed(attempt)[r] = IF r < position.i THEN "final" ELSE "none"
  BY DEF IInv, Loop
<1> QED BY <1>1, <1>2, <1>3

(***************************************************************************)
(* What makes a table of children right: the runs of each attempt are      *)
(* submitted in order.                                                     *)
(***************************************************************************)
LEMMA UpdateAttempt ==
  ASSUME IInv, attempt \in Attempts,
         NEW table \in [Runs -> {"none", "draft", "final"}],
         children' = [children EXCEPT ![attempt] = table],
         runs' = runs,
         \A r \in Runs :
           table[r] # "none" =>
             r < runs /\ \A q \in Runs : q < r => table[q] = "final"
  PROVE  /\ children' \in [Attempts -> [Runs -> {"none", "draft", "final"}]]
         /\ OnlyLastIsDraft'
         /\ \A a \in Attempts, r \in Runs :
              a > attempt => children'[a][r] = "none"
         /\ children'[attempt] = table
<1>1. \A a \in Attempts :
        children'[a] = IF a = attempt THEN table ELSE children[a]
  BY DEF IInv, TypeOK
<1>2. attempt \in Nat BY DEF Attempts
<1>3. children' \in [Attempts -> [Runs -> {"none", "draft", "final"}]]
  BY DEF IInv, TypeOK
<1>4. OnlyLastIsDraft' BY <1>1 DEF IInv, OnlyLastIsDraft
<1>5. ASSUME NEW a \in Attempts, NEW r \in Runs, a > attempt
      PROVE  children'[a][r] = "none"
  BY <1>1, <1>2, <1>5 DEF IInv, Attempt
<1> QED BY <1>1, <1>3, <1>4, <1>5

\* A pass that starts keeps the invariant.
LEMMA StartPassStep == IInv /\ StartPass => IInv'
<1> SUFFICES ASSUME IInv, StartPass PROVE IInv'
  OBVIOUS
<1> USE DEF StartPass, Idle
<1>1. attempt \in Nat /\ attempt <= kills /\ kills \in 0 .. MaxKills
  BY DEF IInv, TypeOK, Attempt
<1>2. attempt' \in Attempts /\ attempt' \in 0 .. MaxKills + 1
  BY <1>1 DEF Attempts
<1>3. position' \in [at : {"idle", "submitting", "created"}, i : 0 .. MaxRuns]
  OBVIOUS
<1>4. TypeOK' BY <1>2, <1>3 DEF IInv, TypeOK
<1>5. ~unsaved BY DEF IInv, Loop, TypeOK
<1>6. \A a \in Attempts, r \in Runs : a > attempt => children[a][r] = "none"
  BY DEF IInv, Attempt
<1>7. Attempt'
  BY <1>1, <1>6 DEF Attempt, HasDraft, Attempts
<1>8. \A r \in Runs : Committed(attempt)'[r] = "none"
  BY <1>1, <1>2, <1>5, <1>6 DEF Committed
<1>9. \A r \in Runs : ~(r < 0) BY DEF Runs
<1>10. Loop'
  BY <1>2, <1>5, <1>8, <1>9 DEF Loop, IInv, TypeOK
<1> QED BY <1>4, <1>7, <1>10
        DEF IInv, OnlyLastIsDraft, DoneIsComplete

\* So does making the context of a child.
LEMMA MakeStep == IInv /\ MakeNewRunContext => IInv'
<1> SUFFICES ASSUME IInv, MakeNewRunContext PROVE IInv'
  OBVIOUS
<1> USE DEF MakeNewRunContext
<1> DEFINE table == [r \in Runs |-> IF r < position.i THEN "final"
                                    ELSE IF r = position.i THEN "draft"
                                    ELSE "none"]
<1>1. /\ attempt \in Attempts
      /\ position.i \in 0 .. runs
      /\ Committed(attempt) =
           [r \in Runs |-> IF r < position.i THEN "final" ELSE "none"]
  BY CommittedChildren
<1>2. position.i \in Runs /\ position.i < runs /\ runs \in Nat
  BY <1>1 DEF IInv, TypeOK, Runs
<1>3. table = [Committed(attempt) EXCEPT ![position.i] = "draft"]
  <2>1. DOMAIN Committed(attempt) = Runs BY <1>1
  <2>2. \A r \in Runs : r # position.i => table[r] = Committed(attempt)[r]
    BY <1>1
  <2>3. table[position.i] = "draft" BY <1>2 DEF Runs
  <2> QED BY <1>1, <2>1, <2>2, <2>3
<1>4. table \in [Runs -> {"none", "draft", "final"}]
  OBVIOUS
<1>5. \A r \in Runs :
        table[r] # "none" =>
          r < runs /\ \A q \in Runs : q < r => table[q] = "final"
  BY <1>2 DEF Runs
<1>6. children' = [children EXCEPT ![attempt] = table] BY <1>3
<1> HIDE DEF table
<1>7. /\ children' \in [Attempts -> [Runs -> {"none", "draft", "final"}]]
      /\ OnlyLastIsDraft'
      /\ \A a \in Attempts, r \in Runs :
           a > attempt => children'[a][r] = "none"
      /\ children'[attempt] = table
  BY <1>1, <1>4, <1>5, <1>6, UpdateAttempt
<1>8. position' = [at |-> "created", i |-> position.i]
  BY DEF IInv, TypeOK
<1>9. TypeOK' BY <1>7, <1>8 DEF IInv, TypeOK
<1>10. Attempt'
  BY <1>1, <1>7, <1>8 DEF IInv, Attempt, Idle
<1>11. /\ \A r \in Runs : r < position.i => table[r] = "final"
       /\ \A r \in Runs : r = position.i => table[r] = "draft"
       /\ \A r \in Runs : r > position.i => table[r] = "none"
  BY <1>2 DEF table, Runs
<1>12. Loop'
  BY <1>1, <1>2, <1>7, <1>8, <1>11 DEF IInv, Loop, Idle
<1>13. ~sweepDone BY DEF IInv, Loop, Idle
<1> QED BY <1>7, <1>9, <1>10, <1>12, <1>13 DEF IInv, DoneIsComplete

\* So does storing the child's settings.
LEMMA StoreStep == IInv /\ StoreFinalSettings => IInv'
<1> SUFFICES ASSUME IInv, StoreFinalSettings PROVE IInv'
  OBVIOUS
<1> USE DEF StoreFinalSettings
<1>1. attempt \in Attempts /\ position.i < runs /\ ~sweepDone
  BY DEF IInv, Loop, Idle
<1>2. position.i \in Runs /\ runs \in 0 .. MaxRuns /\ position.i \in Nat
  BY <1>1 DEF IInv, TypeOK, Runs
<1>3. position'.i = position.i + 1 /\ position'.at = "submitting"
  OBVIOUS
<1>4. position' \in [at : {"idle", "submitting", "created"}, i : 0 .. MaxRuns]
  BY <1>1, <1>2
<1>5. TypeOK' BY <1>4 DEF IInv, TypeOK
<1>6. Attempt' BY <1>3 DEF IInv, Attempt, Idle
<1>7. Committed(attempt)' = [children[attempt] EXCEPT ![position.i] = "final"]
  BY <1>2, <1>3 DEF Committed
<1>8. children[attempt] \in [Runs -> {"none", "draft", "final"}]
  BY <1>1 DEF IInv, TypeOK
<1>9. ASSUME NEW r \in Runs
      PROVE  Committed(attempt)'[r] =
               IF r < position.i + 1 THEN "final" ELSE "none"
  <2>1. CASE r < position.i
    BY <1>2, <1>7, <1>8, <2>1 DEF IInv, Loop, Runs
  <2>2. CASE r = position.i
    BY <1>2, <1>7, <1>8, <2>2 DEF Runs
  <2>3. CASE r > position.i
    BY <1>2, <1>7, <1>8, <2>3 DEF IInv, Loop, Runs
  <2> QED BY <1>2, <2>1, <2>2, <2>3 DEF Runs
<1>10. Loop'
  BY <1>1, <1>2, <1>3, <1>9 DEF Loop, Idle
<1> QED BY <1>5, <1>6, <1>10 DEF IInv, OnlyLastIsDraft, DoneIsComplete

(***************************************************************************)
(* A pass that comes to an end, after all runs or with an exception.       *)
(***************************************************************************)
LEMMA EndPassStep ==
  ASSUME IInv, position.at = "submitting", EndPass,
         sweepDone' \in BOOLEAN, deleted' \in BOOLEAN,
         sweepDone' \/ deleted',
         sweepDone' => position.i = runs
  PROVE  IInv'
<1> USE DEF EndPass
<1> DEFINE table == [r \in Runs |-> IF r < position.i THEN "final" ELSE "none"]
<1>1. /\ attempt \in Attempts
      /\ position.i \in 0 .. runs
      /\ Committed(attempt) = table
  BY CommittedChildren
<1>2. runs \in Nat BY DEF IInv, TypeOK
<1>3. table \in [Runs -> {"none", "draft", "final"}]
  OBVIOUS
<1>4. \A r \in Runs :
        table[r] # "none" =>
          r < runs /\ \A q \in Runs : q < r => table[q] = "final"
  BY <1>1, <1>2 DEF Runs
<1>5. \A r \in Runs : table[r] # "draft" OBVIOUS
<1>6. position.i = runs => \A r \in Runs : r < runs => table[r] = "final"
  OBVIOUS
<1> HIDE DEF table
<1>7. /\ children' \in [Attempts -> [Runs -> {"none", "draft", "final"}]]
      /\ OnlyLastIsDraft'
      /\ \A a \in Attempts, r \in Runs :
           a > attempt => children'[a][r] = "none"
      /\ children'[attempt] = table
  BY <1>1, <1>3, <1>4, UpdateAttempt
<1>8. position' = [at |-> "idle", i |-> position.i]
  BY DEF IInv, TypeOK
<1>9. TypeOK' BY <1>7, <1>8 DEF IInv, TypeOK
<1>10. ~HasDraft(attempt)' BY <1>5, <1>7 DEF HasDraft
<1>11. Attempt'
  BY <1>7, <1>10 DEF IInv, Attempt, HasDraft
<1>12. Loop' BY <1>8 DEF Loop, Idle
<1>13. DoneIsComplete' BY <1>1, <1>6, <1>7 DEF DoneIsComplete
<1> QED BY <1>7, <1>9, <1>11, <1>12, <1>13 DEF IInv

\* So does a worker that is killed.
LEMMA KillStep == IInv /\ Kill => IInv'
<1> SUFFICES ASSUME IInv, Kill PROVE IInv'
  OBVIOUS
<1> USE DEF Kill
<1>1. position' = [at |-> "idle", i |-> position.i]
  BY DEF IInv, TypeOK
<1>2. TypeOK'
  <2>1. kills' \in 0 .. MaxKills BY DEF IInv, TypeOK
  <2>2. position' \in [at : {"idle", "submitting", "created"},
                       i : 0 .. MaxRuns]
    BY <1>1 DEF IInv, TypeOK
  <2> QED BY <2>1, <2>2 DEF IInv, TypeOK
<1>3. Attempt' BY <1>1 DEF IInv, TypeOK, Attempt, Attempts, HasDraft, Idle
<1>4. Loop' BY <1>1 DEF Loop, Idle
<1> QED BY <1>2, <1>3, <1>4 DEF IInv, OnlyLastIsDraft, DoneIsComplete

\* So does deleting the sweep, and a pass without a stage to run.
LEMMA DeletedStep == IInv /\ (NoStageTriggered \/ Delete) => IInv'
<1> SUFFICES ASSUME IInv, NoStageTriggered \/ Delete PROVE IInv'
  OBVIOUS
<1>1. /\ deleted' = TRUE
      /\ UNCHANGED <<runs, passVars, children, sweepDone, kills>>
  BY DEF NoStageTriggered, Delete
<1> QED BY <1>1 DEF IInv, TypeOK, Attempt, Loop, OnlyLastIsDraft,
                    DoneIsComplete, passVars, Idle, HasDraft, Committed

\* So does a step that changes nothing.
LEMMA StutterStep == IInv /\ UNCHANGED vars => IInv'
BY DEF IInv, TypeOK, Attempt, Loop, OnlyLastIsDraft, DoneIsComplete, vars,
       passVars, Idle, HasDraft, Committed

------------------------------------------------------------------------------
(* The invariant holds in every reachable state.                           *)
THEOREM Invariant == Spec => []IInv
<1>1. Init => IInv
  <2> SUFFICES ASSUME Init PROVE IInv
    OBVIOUS
  <2>1. \A a \in Attempts, r \in Runs : children[a][r] = "none"
    BY DEF Init
  <2>2. TypeOK
    <3>1. [r \in Runs |-> "none"] \in [Runs -> {"none", "draft", "final"}]
      OBVIOUS
    <3>2. children \in [Attempts -> [Runs -> {"none", "draft", "final"}]]
      BY <3>1 DEF Init
    <3>3. position \in [at : {"idle", "submitting", "created"},
                        i : 0 .. MaxRuns]
      BY DEF Init
    <3>4. /\ runs \in 0 .. MaxRuns
          /\ attempt = 0 /\ kills = 0
          /\ unsaved = FALSE /\ rowLock = FALSE
          /\ sweepDone = FALSE /\ deleted = FALSE
      BY DEF Init
    <3>5. attempt \in 0 .. MaxKills + 1 /\ kills \in 0 .. MaxKills
      BY <3>4
    <3> QED BY <3>2, <3>3, <3>4, <3>5 DEF TypeOK
  <2>3. Attempt BY <2>1 DEF Init, Attempt, HasDraft, Attempts
  <2> QED BY <2>1, <2>2, <2>3
          DEF Init, IInv, Loop, OnlyLastIsDraft, DoneIsComplete, Idle
<1>2. IInv /\ [Next]_vars => IInv'
  <2> SUFFICES ASSUME IInv, Next \/ UNCHANGED vars PROVE IInv'
    OBVIOUS
  <2>1. CASE Output
    BY <2>1, EndPassStep DEF Output, IInv, TypeOK
  <2>2. CASE Raise
    <3>1. ~sweepDone BY <2>2 DEF Raise, IInv, Loop, Idle
    <3>2. deleted' \in BOOLEAN /\ deleted' BY <2>2 DEF Raise
    <3>3. sweepDone' \in BOOLEAN /\ ~sweepDone'
      BY <2>2, <3>1 DEF Raise, IInv, TypeOK
    <3>4. position.at = "submitting" /\ EndPass BY <2>2 DEF Raise
    <3> QED BY <3>2, <3>3, <3>4, EndPassStep
  <2> QED BY <2>1, <2>2, StartPassStep, MakeStep, StoreStep, KillStep,
             DeletedStep, StutterStep DEF Next, Process
<1> QED BY <1>1, <1>2, PTL DEF Spec

(***************************************************************************)
(* The variables of a sweep keep their types (TypeOK): no pass beyond the  *)
(* last run, and one attempt for each worker that dies.                    *)
(***************************************************************************)
THEOREM TypeCorrect == Spec => []TypeOK
<1>1. IInv => TypeOK BY DEF IInv
<1> QED BY <1>1, Invariant, PTL

(***************************************************************************)
(* Runs are submitted in order and only the last child of a pass may be    *)
(* without final settings (OnlyLastIsDraft).                               *)
(***************************************************************************)
THEOREM SubmittedInOrder == Spec => []OnlyLastIsDraft
<1>1. IInv => OnlyLastIsDraft BY DEF IInv
<1> QED BY <1>1, Invariant, PTL

(***************************************************************************)
(* A sweep that is done submitted all its runs in one pass                 *)
(* (DoneIsComplete).                                                       *)
(***************************************************************************)
THEOREM DoneSubmittedAll == Spec => []DoneIsComplete
<1>1. IInv => DoneIsComplete BY DEF IInv
<1> QED BY <1>1, Invariant, PTL

(***************************************************************************)
(* Children without final settings are left behind by dying workers only,  *)
(* one by each (DraftsAreFromKills).                                       *)
(***************************************************************************)
THEOREM DraftsBounded == Spec => []DraftsAreFromKills
<1>1. ASSUME IInv PROVE DraftsAreFromKills
  <2> DEFINE drafts == {a \in Attempts : HasDraft(a)}
             bound == kills + (IF Idle THEN 0 ELSE 1)
  <2>1. bound \in Nat /\ kills \in Nat /\ attempt \in Nat
    BY <1>1 DEF IInv, TypeOK
  <2>2. \A a \in drafts : a <= attempt
    BY <1>1 DEF IInv, Attempt, HasDraft, Attempts, TypeOK
  <2>3. ASSUME NEW a \in drafts PROVE a \in 1 .. bound
    <3>1. a \in Nat /\ a >= 1 /\ a <= attempt /\ attempt <= kills + 1
      BY <1>1, <2>2 DEF Attempts, IInv, Attempt
    <3>2. Idle /\ a = attempt => a <= kills
      BY <1>1 DEF IInv, Attempt
    <3> QED BY <2>1, <3>1, <3>2
  <2>4. drafts \subseteq 1 .. bound BY <2>3
  <2>5. IsFiniteSet(1 .. bound) /\ Cardinality(1 .. bound) = bound
    BY <2>1, FS_Interval
  <2>6. Cardinality(drafts) <= bound
    BY <2>4, <2>5, FS_Subset
  <2> QED BY <2>6 DEF DraftsAreFromKills
<1> QED BY <1>1, Invariant, PTL

(***************************************************************************)
(* A run has one job, and one more for each dead worker (JobsPerRun).      *)
(***************************************************************************)
THEOREM JobsBounded == Spec => []JobsPerRun
<1>1. ASSUME IInv, NEW r \in Runs
      PROVE  Cardinality({a \in Attempts : children[a][r] # "none"})
               <= kills + 1
  <2> DEFINE jobs == {a \in Attempts : children[a][r] # "none"}
             bound == kills + 1
  <2>1. kills \in Nat /\ attempt \in Nat /\ attempt <= kills + 1
    BY <1>1 DEF IInv, TypeOK, Attempt
  <2>2. \A a \in jobs : ~(a > attempt)
    BY <1>1 DEF IInv, Attempt
  <2>3. jobs \subseteq 1 .. bound
    BY <2>1, <2>2 DEF Attempts
  <2>4. IsFiniteSet(1 .. bound) /\ Cardinality(1 .. bound) = bound
    BY <2>1, FS_Interval
  <2>5. Cardinality(jobs) <= bound
    <3> HIDE DEF jobs, bound
    <3> QED BY <2>3, <2>4, FS_Subset
  <2> QED BY <2>5
<1>2. IInv => JobsPerRun BY <1>1 DEF JobsPerRun
<1> QED BY <1>2, Invariant, PTL

=============================================================================
