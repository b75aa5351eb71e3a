----------------------------- MODULE Placement -----------------------------
(***************************************************************************)
(* Which machine gets which process: the result of                         *)
(* start_round_robin_schedule as a formula (RoundRobin has its loop).      *)
(***************************************************************************)
EXTENDS Integers, FiniteSets, Functions

(* The number of machines that get processes.                              *)
UsedNodes(procs, nodes) == IF nodes > procs THEN procs ELSE nodes

(* The machine, from 1 to nodes, of the i-th process: blocks of procs/nodes*)
(* processes in the order of the machines, the first ones one longer.      *)
NodeOf(i, procs, nodes) ==
  LET share == procs \div nodes
      longer == procs % nodes
      inLonger == longer * (share + 1)
  IN  IF i <= inLonger THEN (i - 1) \div (share + 1) + 1
                       ELSE longer + (i - 1 - inLonger) \div share + 1

(* node places the processes first+1 .. first+procs on some of the nodes,  *)
(* taken in an unspecified order.                                          *)
IsRoundRobin(node, first, procs, nodes) ==
  LET used == UsedNodes(procs, Cardinality(nodes))
  IN  \E order \in Injection(1..used, nodes) :
        \A i \in 1..procs : node[first + i] = order[NodeOf(i, procs, used)]

=============================================================================
