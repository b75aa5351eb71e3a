--------------------------- MODULE MCContextTasks ---------------------------
(***************************************************************************)
(* Instances of ContextTasks for TLC: an ordinary job and a sweep, and two *)
(* workers.                                                                *)
(***************************************************************************)
EXTENDS ContextTasks, TLC

CONSTANTS c1, s1, w1, w2

MCContexts == {c1, s1}
MCSweeps == {s1}
MCWorkers == {w1, w2}
OneWorker == {w1}
OneJob == {c1}
NoSweep == {}
MCSymmetry == Permutations({w1, w2})

=============================================================================
