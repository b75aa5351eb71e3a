----------------------------- MODULE CloudNodes -----------------------------
(***************************************************************************)
(* The virtual machines of a job on a cloud, and the stages that get them  *)
(* and give them back: configure, create, bootstrap and destroy            *)
(* (corestages/, with CloudStrategy and cloudconnection/).                 *)
(*                                                                         *)
(* A stage knows the machines by the lists it keeps in the run settings,   *)
(* which it compares with what the cloud's API says at the moment.         *)
(***************************************************************************)
EXTENDS Integers, FiniteSets

CONSTANTS
  Vms,          \* identities of the machines the quota allows for
  MinVms,       \* minimum_number_vm_instances
  MaxVms,       \* number_vm_instances
  FaultKinds,   \* the kinds of fault that may happen, see AllFaults
  MaxFaults     \* bound: number of faults

AllFaults == {"vm",      \* the cloud terminates a machine
              "ssh",     \* an ssh connection fails
              "api",     \* a call of the cloud's API fails
              "error",   \* a stage raises for another reason
              "kill",    \* the worker dies before the pass commits
              "delete"}  \* the user deletes the job

ASSUME VmsAssumption == IsFiniteSet(Vms)
ASSUME CountsAssumption ==
  /\ MinVms \in Nat \ {0}
  /\ MaxVms \in Nat
  /\ MinVms <= MaxVms
ASSUME FaultsAssumption == FaultKinds \subseteq AllFaults /\ MaxFaults \in Nat

VARIABLES
  vm,           \* state of each machine in the cloud
  installed,    \* state of make bootstrap on each machine
  configured,   \* configure/configure_done
  createDone,   \* create/create_done
  created,      \* create/created_nodes: the recorded state of each machine
  bootStarted,  \* bootstrap/started
  bootstrapped, \* bootstrap/bootstrapped_nodes
  bootDone,     \* bootstrap/bootstrap_done
  runFinished,  \* destroy/run_finished
  faults        \* faults so far

worldVars == <<vm, installed>>
createVars == <<configured, createDone, created>>
bootVars == <<bootStarted, bootstrapped, bootDone>>
nodeVars == <<worldVars, createVars, bootVars, runFinished>>

NodesTypeOK ==
  /\ vm \in [Vms -> {"absent", "running", "gone"}]
  /\ installed \in [Vms -> {"no", "started", "yes"}]
  /\ configured \in BOOLEAN
  /\ createDone \in BOOLEAN
  /\ created \in [Vms -> {"none", "running", "failed", "terminated"}]
  /\ bootStarted \in BOOLEAN
  /\ bootstrapped \in SUBSET Vms
  /\ bootDone \in BOOLEAN
  /\ runFinished \in BOOLEAN
  /\ faults \in Nat

NodesInit ==
  /\ vm = [v \in Vms |-> "absent"]
  /\ installed = [v \in Vms |-> "no"]
  /\ configured = FALSE
  /\ createDone = FALSE
  /\ created = [v \in Vms |-> "none"]
  /\ bootStarted = FALSE
  /\ bootstrapped = {}
  /\ bootDone = FALSE
  /\ runFinished = FALSE
  /\ faults = 0

Fault(kind) ==
  /\ kind \in FaultKinds
  /\ faults < MaxFaults
  /\ faults' = faults + 1

NoFault == UNCHANGED faults

Mark(f, S, value) == [v \in DOMAIN f |-> IF v \in S THEN value ELSE f[v]]

Alive == {v \in Vms : vm[v] = "running"}
CreatedNodes == {v \in Vms : created[v] # "none"}
RunningCreated == {v \in Vms : created[v] = "running"}

(***************************************************************************)
(* get_registered_vms: the machines of a list that the API returns.  Any   *)
(* error of the API counts as a machine that does not exist (get_this_vm). *)
(***************************************************************************)
(* Mutant: all machines of the account, recorded by this job or not.       *)
AnyRegistered(list, nodes) == nodes = Alive /\ NoFault

Registered(list, nodes) ==
  \/ nodes = list \cap Alive /\ NoFault
  \/ /\ nodes \subseteq list \cap Alive
     /\ nodes # list \cap Alive
     /\ Fault("api")

-----------------------------------------------------------------------------
(***************************************************************************)
(* Configure prepares directories and records that it is done.             *)
(***************************************************************************)
ConfigureTriggered == ~configured

Configure ==
  /\ ConfigureTriggered
  /\ configured' = TRUE
  /\ NoFault
  /\ UNCHANGED <<worldVars, createDone, created, bootVars, runFinished>>

(***************************************************************************)
(* Create reserves machines and keeps those that answer to ssh.  With too  *)
(* few of them it destroys what it kept (each call of the API may fail,    *)
(* and is then ignored) and records an empty list.                         *)
(***************************************************************************)
CreateTriggered == configured /\ ~createDone

Reserve(reserved) ==
  /\ reserved \subseteq {v \in Vms : vm[v] = "absent"}
  /\ reserved = {} \/ Cardinality(reserved) \in MinVms .. MaxVms

CreateVms(reserved, ready) ==
  /\ CreateTriggered
  /\ Reserve(reserved)
  /\ ready \subseteq reserved
  /\ IF ready = reserved THEN NoFault ELSE Fault("ssh")
  /\ createDone' = TRUE
  /\ IF Cardinality(ready) >= MinVms
     THEN /\ vm' = Mark(vm, reserved, "running")
          /\ created' = Mark(created, ready, "running")
     ELSE /\ \E destroyed \in SUBSET ready :
               /\ "api" \notin FaultKinds => destroyed = ready
               /\ vm' = Mark(Mark(vm, reserved, "running"), destroyed, "gone")
          /\ UNCHANGED created
  /\ UNCHANGED <<installed, configured, bootVars, runFinished>>

(***************************************************************************)
(* Bootstrap copies the payload to every machine and starts make on it;    *)
(* later passes ask each machine whether make is done.                     *)
(***************************************************************************)
BootstrapTriggered == Cardinality(bootstrapped) < Cardinality(RunningCreated)

StartMake(nodes) == installed' = Mark(installed, nodes, "started")

StartBootstrap(nodes) ==
  /\ BootstrapTriggered
  /\ ~bootStarted
  /\ Registered(CreatedNodes, nodes)
  /\ nodes # {}
  /\ StartMake(nodes)
  /\ bootStarted' = TRUE
  /\ UNCHANGED <<vm, createVars, bootstrapped, bootDone, runFinished>>

(* Machines that the cloud no longer shows are flagged as failed; an ssh   *)
(* failure only means that the machine is not ready yet.                   *)
CompleteBootstrap(nodes, done) ==
  /\ BootstrapTriggered
  /\ bootStarted
  /\ nodes # {}
  /\ LET ready == {v \in nodes : installed[v] = "yes"}
     IN  \/ done = ready /\ Registered(CreatedNodes, nodes)
         \/ /\ done # ready /\ done \subseteq ready
            /\ nodes = CreatedNodes \cap Alive
            /\ Fault("ssh")
  /\ created' = IF Cardinality(nodes) < Cardinality(RunningCreated)
                THEN Mark(created, CreatedNodes \ nodes, "failed") ELSE created
  /\ bootstrapped' = bootstrapped \cup done
  /\ bootDone' = (bootDone \/ ( /\ bootstrapped' # {}
                                /\ Cardinality(bootstrapped')
                                     = Cardinality(RunningCreated')))
  /\ UNCHANGED <<worldVars, configured, createDone, bootStarted, runFinished>>

BootstrapWithoutNodes ==
  /\ BootstrapTriggered
  /\ Registered(CreatedNodes, {})

(***************************************************************************)
(* Destroy terminates what is left of the created machines and waits until *)
(* they are gone.  A call that fails is logged and forgotten.              *)
(***************************************************************************)
(* Mutant: machines are removed from the list that is being iterated.      *)
TerminateEveryOther(nodes) ==
  \E half \in SUBSET nodes :
    /\ Cardinality(half) = (Cardinality(nodes) + 1) \div 2
    /\ vm' = Mark(vm, half, "gone")

TerminateVms(nodes) == vm' = Mark(vm, nodes, "gone")

DestroyNodes(nodes) ==
  /\ Registered(CreatedNodes, nodes)
  /\ TerminateVms(nodes)
  /\ created' = Mark(created, RunningCreated, "terminated")
  /\ runFinished' = TRUE
  /\ UNCHANGED <<installed, configured, createDone, bootVars>>

-----------------------------------------------------------------------------
(***************************************************************************)
(* The worker is killed after a stage acted on the cloud and before its    *)
(* output is committed: the machines change, the settings do not.          *)
(***************************************************************************)
KilledInCreate(reserved) ==
  /\ CreateTriggered
  /\ Reserve(reserved)
  /\ Fault("kill")
  /\ vm' = Mark(vm, reserved, "running")
  /\ UNCHANGED <<installed, createVars, bootVars, runFinished>>

KilledInBootstrap ==
  /\ BootstrapTriggered
  /\ ~bootStarted
  /\ Fault("kill")
  /\ StartMake(CreatedNodes \cap Alive)
  /\ UNCHANGED <<vm, createVars, bootVars, runFinished>>

KilledInDestroy(nodes) ==
  /\ nodes \subseteq CreatedNodes \cap Alive
  /\ Fault("kill")
  /\ vm' = Mark(vm, nodes, "gone")
  /\ UNCHANGED <<installed, createVars, bootVars, runFinished>>

(***************************************************************************)
(* The cloud: make finishes on a machine, a machine is terminated.         *)
(***************************************************************************)
BootstrapMakeEnds(v) ==
  /\ vm[v] = "running"
  /\ installed[v] = "started"
  /\ installed' = [installed EXCEPT ![v] = "yes"]
  /\ NoFault
  /\ UNCHANGED <<vm, createVars, bootVars, runFinished>>

Terminate(v) ==
  /\ vm[v] = "running"
  /\ Fault("vm")
  /\ vm' = [vm EXCEPT ![v] = "gone"]
  /\ UNCHANGED <<installed, createVars, bootVars, runFinished>>

=============================================================================
