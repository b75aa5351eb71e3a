-------------------------- MODULE MCSmartConnector --------------------------
(***************************************************************************)
(* Instances of SmartConnector for TLC: machines of a quota, and the kinds *)
(* of fault each run lets happen.                                          *)
(***************************************************************************)
EXTENDS SmartConnector, TLC

CONSTANTS v1, v2, v3

TwoVms == {v1, v2}
ThreeVms == {v1, v2, v3}
VmSymmetry == Permutations(ThreeVms)

CloudFaults == {"vm", "error", "delete"}
WorkerFaults == {"error", "kill"}
VmFaults == {"vm"}

=============================================================================
