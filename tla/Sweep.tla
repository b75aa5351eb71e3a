------------------------------- MODULE Sweep -------------------------------
(***************************************************************************)
(* The stage of a parameter sweep (corestages/sweep.py), which submits one *)
(* job for every run of its map in the middle of a pass.  What the pass    *)
(* writes becomes durable piece by piece: the creation of each child       *)
(* commits everything written before it (jobs.py, commit_on_success), the  *)
(* settings that follow wait for the next creation or for the end of the   *)
(* pass.  Passes over the sweep do not overlap (ContextTasks).             *)
(***************************************************************************)
EXTENDS Naturals, FiniteSets

CONSTANTS
  MaxRuns,   \* bound: runs of the map
  MaxKills,  \* bound: workers that die in a pass
  Faults     \* what may happen besides kills: "error", "delete"

ASSUME SweepAssumption ==
  /\ MaxRuns \in Nat
  /\ MaxKills \in Nat
  /\ Faults \subseteq {"error", "delete"}

VARIABLES
  runs,      \* number of runs the map expands to
  attempt,   \* number of the present pass over the stage, or of the last one
  position,  \* the loop of process: the runs that are submitted, and i
  unsaved,   \* final settings of the child before i are written, uncommitted
  rowLock,   \* the pass holds the row of the sweep
  children,  \* the settings committed for the child of a run, by attempt
  sweepDone, \* stages/sweep/sweep_done, committed
  deleted,   \* the context of the sweep is deleted
  kills

passVars == <<attempt, position, unsaved, rowLock>>
vars == <<runs, passVars, children, sweepDone, deleted, kills>>

Attempts == 1 .. MaxKills + 1
Runs == 0 .. MaxRuns - 1

TypeOK ==
  /\ runs \in 0 .. MaxRuns
  /\ attempt \in 0 .. MaxKills + 1
  /\ position \in [at : {"idle", "submitting", "created"}, i : 0 .. MaxRuns]
  /\ unsaved \in BOOLEAN
  /\ rowLock \in BOOLEAN
  /\ children \in [Attempts -> [Runs -> {"none", "draft", "final"}]]
  /\ sweepDone \in BOOLEAN
  /\ deleted \in BOOLEAN
  /\ kills \in 0 .. MaxKills

Init ==
  /\ runs \in 0 .. MaxRuns
  /\ attempt = 0
  /\ position = [at |-> "idle", i |-> 0]
  /\ unsaved = FALSE
  /\ rowLock = FALSE
  /\ children = [a \in Attempts |-> [r \in Runs |-> "none"]]
  /\ sweepDone = FALSE
  /\ deleted = FALSE
  /\ kills = 0

Idle == position.at = "idle"

(***************************************************************************)
(* The children of a, as they are once the open transaction is committed.  *)
(***************************************************************************)
Committed(a) ==
  IF unsaved THEN [children[a] EXCEPT ![position.i - 1] = "final"]
             ELSE children[a]

-----------------------------------------------------------------------------
(***************************************************************************)
(* A pass takes the row of the sweep and finds it not done.                *)
(***************************************************************************)
StartPass ==
  /\ Idle
  /\ ~deleted
  /\ ~sweepDone
  /\ attempt' = attempt + 1
  /\ position' = [at |-> "submitting", i |-> 0]
  /\ rowLock' = TRUE
  /\ UNCHANGED <<runs, unsaved, children, sweepDone, deleted, kills>>

(* Mutant: the loop does not end with the runs.                            *)
MakeOneMore ==
  /\ position.at = "submitting"
  /\ children' =
       [children EXCEPT ![attempt] = [Committed(attempt) EXCEPT
                                        ![position.i] = "draft"]]
  /\ position' = [position EXCEPT !.at = "created"]
  /\ unsaved' = FALSE
  /\ rowLock' = FALSE
  /\ UNCHANGED <<runs, attempt, sweepDone, deleted, kills>>

(***************************************************************************)
(* The body of the loop up to _make_new_run_context: the inputs and values *)
(* of run i are written, and its child is created with draft settings.     *)
(* This commits the transaction of the pass, which loses its row.          *)
(***************************************************************************)
MakeNewRunContext ==
  /\ position.at = "submitting"
  /\ position.i < runs
  /\ children' =
       [children EXCEPT ![attempt] = [Committed(attempt) EXCEPT
                                        ![position.i] = "draft"]]
  /\ position' = [position EXCEPT !.at = "created"]
  /\ unsaved' = FALSE
  /\ rowLock' = FALSE
  /\ UNCHANGED <<runs, attempt, sweepDone, deleted, kills>>

(* Mutant: the final settings are committed nowhere.                       *)
ForgetFinalSettings ==
  /\ position.at = "created"
  /\ position' = [at |-> "submitting", i |-> position.i + 1]
  /\ UNCHANGED <<runs, attempt, unsaved, rowLock, children, sweepDone,
                 deleted, kills>>

(***************************************************************************)
(* The rest of make_runcontext_for_directive: the final settings of the    *)
(* child are written, in a transaction that stays open.                    *)
(***************************************************************************)
StoreFinalSettings ==
  /\ position.at = "created"
  /\ position' = [at |-> "submitting", i |-> position.i + 1]
  /\ unsaved' = TRUE
  /\ UNCHANGED <<runs, attempt, rowLock, children, sweepDone, deleted, kills>>

(***************************************************************************)
(* The pass ends and commits.                                              *)
(***************************************************************************)
EndPass ==
  /\ position' = [position EXCEPT !.at = "idle"]
  /\ children' = [children EXCEPT ![attempt] = Committed(attempt)]
  /\ unsaved' = FALSE
  /\ rowLock' = FALSE
  /\ UNCHANGED <<runs, attempt, kills>>

(* Mutant: the stage is done although a run is left.                       *)
OutputEarly ==
  /\ position.at = "submitting"
  /\ position.i + 1 >= runs
  /\ position.i > 0
  /\ EndPass
  /\ sweepDone' = TRUE
  /\ UNCHANGED deleted

(* Mutant: sweep_done is not stored.                                       *)
OutputNothing ==
  /\ position.at = "submitting"
  /\ position.i = runs
  /\ runs > 0
  /\ EndPass
  /\ UNCHANGED <<sweepDone, deleted>>

(***************************************************************************)
(* All runs are submitted.                                                 *)
(***************************************************************************)
Output ==
  /\ position.at = "submitting"
  /\ position.i = runs
  /\ runs > 0
  /\ EndPass
  /\ sweepDone' = TRUE
  /\ UNCHANGED deleted

(* Mutant: the exception leaves the transaction, which is rolled back.     *)
RaiseWithRollback ==
  /\ position.at = "submitting"
  /\ position.i < runs
  /\ position' = [position EXCEPT !.at = "idle"]
  /\ unsaved' = FALSE
  /\ rowLock' = FALSE
  /\ deleted' = TRUE
  /\ UNCHANGED <<runs, attempt, children, sweepDone, kills>>

(***************************************************************************)
(* The stage raises: an input cannot be copied, a child is refused, or the *)
(* map has no run at all (error_detected is set in the loop and read after *)
(* it).  The exception is caught inside of the transaction; the sweep has  *)
(* no other stage, and is deleted.                                         *)
(***************************************************************************)
Raise ==
  /\ position.at = "submitting"
  /\ \/ position.i < runs /\ "error" \in Faults
     \/ runs = 0
  /\ EndPass
  /\ deleted' = TRUE
  /\ UNCHANGED sweepDone

(* Mutant: a job that triggers no stage is left as it is.                  *)
LeaveUntriggered == Idle /\ sweepDone /\ ~deleted /\ UNCHANGED vars

(***************************************************************************)
(* A later pass finds the sweep done and triggers no stage.                *)
(***************************************************************************)
NoStageTriggered ==
  /\ Idle
  /\ sweepDone
  /\ ~deleted
  /\ deleted' = TRUE
  /\ UNCHANGED <<runs, passVars, children, sweepDone, kills>>

(***************************************************************************)
(* The user deletes the sweep: possible whenever its row is free, thus in  *)
(* the middle of the pass too, which goes on submitting.                   *)
(***************************************************************************)
Delete ==
  /\ "delete" \in Faults
  /\ ~rowLock
  /\ ~deleted
  /\ deleted' = TRUE
  /\ UNCHANGED <<runs, passVars, children, sweepDone, kills>>

(***************************************************************************)
(* The worker dies: the open transaction is rolled back, the children that *)
(* were created stay, and a later pass starts the stage again.             *)
(***************************************************************************)
Kill ==
  /\ ~Idle
  /\ kills < MaxKills
  /\ kills' = kills + 1
  /\ position' = [position EXCEPT !.at = "idle"]
  /\ unsaved' = FALSE
  /\ rowLock' = FALSE
  /\ UNCHANGED <<runs, attempt, children, sweepDone, deleted>>

Process == MakeNewRunContext \/ StoreFinalSettings \/ Output \/ Raise

Next == StartPass \/ Process \/ NoStageTriggered \/ Delete \/ Kill

Spec == Init /\ [][Next]_vars

(* The beat offers the sweep to workers again and again (ContextTasks).    *)
Fairness == WF_vars(StartPass \/ Process \/ NoStageTriggered)

FairSpec == Spec /\ Fairness

-----------------------------------------------------------------------------
(***************************************************************************)
(* Each pass submits the runs of the map in their order, and only the last *)
(* child of a pass, where it was interrupted or is at work, has settings   *)
(* that are not final: all before it were completed by the commits that    *)
(* created the next one.                                                   *)
(***************************************************************************)
OnlyLastIsDraft ==
  \A a \in Attempts, r \in Runs :
    children[a][r] # "none" =>
      r < runs /\ \A q \in Runs : q < r => children[a][q] = "final"

(***************************************************************************)
(* A child is left for good without its final settings only by the death   *)
(* of a worker, one child for each: an exception, or a deletion by the     *)
(* user, leaves none.                                                      *)
(***************************************************************************)
HasDraft(a) == \E r \in Runs : children[a][r] = "draft"

DraftsAreFromKills ==
  Cardinality({a \in Attempts : HasDraft(a)}) <=
    kills + (IF Idle THEN 0 ELSE 1)

(***************************************************************************)
(* A sweep that is done has submitted every run of its map in one pass,    *)
(* each with final settings, however often it was interrupted before.      *)
(***************************************************************************)
DoneIsComplete ==
  sweepDone => \E a \in Attempts :
                 \A r \in Runs : r < runs => children[a][r] = "final"

(***************************************************************************)
(* A run of the map gets one job ("would result in 4 HRMC Jobs", help text *)
(* of sweep_map), and one more for each worker that died: the pass does    *)
(* not look for the jobs of an earlier attempt.                            *)
(***************************************************************************)
JobsPerRun ==
  \A r \in Runs :
    Cardinality({a \in Attempts : children[a][r] # "none"}) <= kills + 1

(***************************************************************************)
(* A sweep comes to its end, whatever interrupts its passes.               *)
(***************************************************************************)
SweepEnds == <>[](deleted /\ Idle)

=============================================================================
