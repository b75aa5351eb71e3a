------------------------- MODULE MCClusterConnector -------------------------
(***************************************************************************)
(* An instance of ClusterConnector for TLC: the one machine, and every     *)
(* kind of fault that a cluster knows.                                     *)
(***************************************************************************)
EXTENDS ClusterConnector

CONSTANTS v1

OneMachine == {v1}
ClusterFaults == {"ssh", "error", "kill", "delete"}

=============================================================================
