----------------------------- MODULE JobRecord -----------------------------
(***************************************************************************)
(* What the task layer promises about the stored record of one job (a row  *)
(* of Context with its ContextParameters): the record is created, gets its *)
(* final settings exactly once, is advanced by whole passes, one after the *)
(* other, and once it has ended it never changes again.                    *)
(***************************************************************************)
EXTENDS Naturals

CONSTANT Jobs       \* the jobs whose record is observed

VARIABLES
  phase,            \* where each job is in its life
  passes            \* number of passes stored in the record of each job

vars == <<phase, passes>>

Phase == {"absent", "draft", "live", "ended"}

TypeOK ==
  /\ phase \in [Jobs -> Phase]
  /\ passes \in [Jobs -> Nat]

Init ==
  /\ phase = [j \in Jobs |-> "absent"]
  /\ passes = [j \in Jobs |-> 0]

Enter(j, from, to) ==
  /\ phase[j] \in from
  /\ phase' = [phase EXCEPT ![j] = to]
  /\ UNCHANGED passes

Create(j) == Enter(j, {"absent"}, "draft")

Submit(j) == Enter(j, {"draft"}, "live")

End(j) == Enter(j, {"live"}, "ended")

Pass(j) ==
  /\ phase[j] \in {"draft", "live"}
  /\ passes' = [passes EXCEPT ![j] = @ + 1]
  /\ UNCHANGED phase

Next == \E j \in Jobs : Create(j) \/ Submit(j) \/ Pass(j) \/ End(j)

Spec == Init /\ [][Next]_vars

=============================================================================
