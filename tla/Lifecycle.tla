----------------------------- MODULE Lifecycle -----------------------------
(***************************************************************************)
(* What a smart connector promises about a job, without the settings, the  *)
(* machines and the faults: the stages follow each other in one order;     *)
(* every iteration gets processes of its own; it is transformed when each  *)
(* of them is completed, and only then; a job that has ended stays so.     *)
(***************************************************************************)
EXTENDS Naturals

VARIABLES
  stage,      \* the stage whose turn it is, "idle" when there is none
  iteration,  \* iterations so far
  issued,     \* ids of all processes so far
  pending     \* processes of the iteration that are not completed

vars == <<stage, iteration, issued, pending>>

Init ==
  /\ stage = "configure"
  /\ iteration = 0
  /\ issued = {}
  /\ pending = {}

Goto(from, to) == stage = from /\ stage' \in to

(* Without machines, or when a bootstrapped machine is lost before all of  *)
(* them are bootstrapped, no stage has its turn any more.                  *)
Prepare ==
  /\ \/ Goto("configure", {"create"})
     \/ Goto("create", {"bootstrap", "idle"})
     \/ Goto("bootstrap", {"bootstrap", "schedule", "idle"})
  /\ UNCHANGED <<iteration, issued, pending>>

(* Where nothing is installed on the machine, the processes are assigned   *)
(* when they are ready to be executed.                                     *)
Assign ==
  /\ Goto("schedule", {"schedule", "execute"})
  /\ pending = {}
  /\ pending' # {}
  /\ pending' \cap issued = {}
  /\ issued' = issued \cup pending'
  /\ UNCHANGED iteration

Schedule ==
  /\ Goto("schedule", {"schedule", "execute"})
  /\ UNCHANGED <<iteration, issued, pending>>

Execute ==
  /\ Goto("execute", {"execute", "wait"})
  /\ UNCHANGED <<iteration, issued, pending>>

Wait ==
  /\ pending' \subseteq pending
  /\ Goto("wait", IF pending' = {} THEN {"transform"} ELSE {"wait"})
  /\ UNCHANGED <<iteration, issued>>

Transform ==
  /\ Goto("transform", {"converge"})
  /\ UNCHANGED <<iteration, issued, pending>>

Converge ==
  /\ Goto("converge", {"schedule", "destroy"})
  /\ iteration' = iteration + 1
  /\ UNCHANGED <<issued, pending>>

Destroy ==
  /\ Goto("destroy", {"idle"})
  /\ UNCHANGED <<iteration, issued, pending>>

End ==
  /\ stage # "ended"
  /\ stage' = "ended"
  /\ UNCHANGED <<iteration, issued, pending>>

Next ==
  \/ Prepare
  \/ Assign
  \/ Schedule
  \/ Execute
  \/ Wait
  \/ Transform
  \/ Converge
  \/ Destroy
  \/ End

Spec == Init /\ [][Next]_vars

=============================================================================
