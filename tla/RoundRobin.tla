----------------------------- MODULE RoundRobin -----------------------------
(***************************************************************************)
(* The loop of start_round_robin_schedule over the registered machines     *)
(* (cloudschedulestrategy.py), which gives each of them its share of the   *)
(* new processes.  SmartConnector uses its result in the form of Placement.*)
(***************************************************************************)
EXTENDS Placement

CONSTANTS
  MaxNodes,   \* bound: registered machines
  MaxProcs,   \* bound: new processes
  MaxFirst    \* bound: ids given out before

BoundsAssumption ==
  MaxNodes \in Nat \ {0} /\ MaxProcs \in Nat \ {0} /\ MaxFirst \in Nat

VARIABLES
  nodes,      \* number of registered machines
  procs,      \* number of new processes
  first,      \* schedule_index before
  cur,        \* position of cur_node
  remaining,  \* remaining_procs
  index,      \* the last id given out
  node        \* the lookup table: the machine of each new process

robinInputs == <<nodes, procs, first>>
robinVars == <<robinInputs, cur, remaining, index, node>>

RobinTypeOK ==
  /\ nodes \in 1 .. MaxNodes
  /\ procs \in 1 .. MaxProcs
  /\ first \in 0 .. MaxFirst
  /\ cur \in 1 .. nodes + 1
  /\ remaining \in Nat
  /\ index \in Nat
  /\ node \in [first + 1 .. index -> 1 .. nodes]

Used == UsedNodes(procs, nodes)

RobinInit ==
  /\ nodes \in 1 .. MaxNodes
  /\ procs \in 1 .. MaxProcs
  /\ first \in 0 .. MaxFirst
  /\ cur = 1
  /\ remaining = procs % Used
  /\ index = first
  /\ node = << >>

(* The ids of the machine's processes follow those given out before.       *)
Ids(count) == index + 1 .. index + count

Assign(count) ==
  /\ node' = [p \in first + 1 .. index + count |->
                IF p \in Ids(count) THEN cur ELSE node[p]]
  /\ index' = index + count
  /\ cur' = cur + 1
  /\ UNCHANGED robinInputs

(* Mutant: the remainder is not counted down.                              *)
ShareTheSame ==
  /\ cur <= Used
  /\ remaining > 0
  /\ Assign(procs \div Used + 1)
  /\ UNCHANGED remaining

(* Mutant: every machine gets one more.                                    *)
ShareAlwaysOneMore ==
  /\ cur <= Used
  /\ remaining' = remaining - 1
  /\ Assign(procs \div Used + 1)

ShareWithOneMore ==
  /\ cur <= Used
  /\ remaining > 0
  /\ remaining' = remaining - 1
  /\ Assign(procs \div Used + 1)

Share ==
  /\ cur <= Used
  /\ remaining = 0
  /\ Assign(procs \div Used)
  /\ UNCHANGED remaining

RobinNext == ShareWithOneMore \/ Share

RobinSpec == RobinInit /\ [][RobinNext]_robinVars

-----------------------------------------------------------------------------
(***************************************************************************)
(* The closed form of Placement is what the loop has computed, after every *)
(* machine.                                                                *)
(***************************************************************************)
LoopIsPlacement ==
  \A p \in first + 1 .. index : node[p] = NodeOf(p - first, procs, Used)

=============================================================================
