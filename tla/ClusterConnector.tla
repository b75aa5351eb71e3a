-------------------------- MODULE ClusterConnector --------------------------
(***************************************************************************)
(* One job of a smart connector on a cluster, a Hadoop master or a Jenkins *)
(* server (ClusterStrategy, HadoopStrategy, JenkinsStrategy): the stages   *)
(* of SmartConnector with one machine, which is there from the beginning,  *)
(* which no stage looks up and which is never given back.                  *)
(*                                                                         *)
(* A connector without a payload installs and starts nothing in advance:   *)
(* its process is made up when the schedule is completed, and its program  *)
(* runs to its end within the pass that executes it (run_task waits, and   *)
(* SynchronousWaitStrategy takes every process as finished).               *)
(***************************************************************************)
EXTENDS SmartConnector

ASSUME ClusterAssumption ==
  /\ Cardinality(Vms) = 1
  /\ FaultKinds \cap {"vm", "api"} = {}

Node == CHOOSE v \in Vms : TRUE

VARIABLES
  strategy,  \* strategy of the platform: "cluster" (or Hadoop), "jenkins"
  payload    \* the connector has a payload_source

choiceVars == <<strategy, payload>>
clusterVars == <<vars, choiceVars>>

ClusterInit ==
  /\ Init
  /\ strategy \in {"cluster", "jenkins"}
  /\ payload \in BOOLEAN

-----------------------------------------------------------------------------
(* create_resource: the address of the platform is recorded as a running   *)
(* machine; Jenkins records none, and no stage has its turn after that.    *)
CreateResource ==
  /\ CreateTriggered
  /\ NoFault
  /\ createDone' = TRUE
  /\ IF strategy = "cluster"
     THEN /\ vm' = Mark(vm, Vms, "running")
          /\ created' = Mark(created, Vms, "running")
     ELSE UNCHANGED <<vm, created>>
  /\ UNCHANGED <<installed, configured, bootVars, runFinished>>

(* Bootstrap without a payload: two passes that only record the machine.   *)
StartNoBootstrap ==
  /\ BootstrapTriggered
  /\ ~bootStarted
  /\ NoFault
  /\ bootStarted' = TRUE
  /\ UNCHANGED <<worldVars, createVars, bootstrapped, bootDone, runFinished>>

CompleteNoBootstrap ==
  /\ BootstrapTriggered
  /\ bootStarted
  /\ NoFault
  /\ bootstrapped' = Vms
  /\ bootDone' = TRUE
  /\ UNCHANGED <<worldVars, createVars, bootStarted, runFinished>>

BootstrapStage ==
  IF payload
  THEN \/ StartBootstrap(Vms)
       \/ \E done \in SUBSET Vms : CompleteBootstrap(Vms, done)
  ELSE StartNoBootstrap \/ CompleteNoBootstrap

-----------------------------------------------------------------------------
(* The command that starts make fails after the connection was opened: the *)
(* exception is logged, the processes are recorded as they always are.     *)
ScheduleCommandLost(procs) ==
  LET new == scheduleIndex + 1 .. scheduleIndex + procs
  IN
  /\ ScheduleTriggered
  /\ ~scheduleStarted
  /\ scheduleIndex + procs <= MaxIds
  /\ Fault("ssh")
  /\ scheduling' = Mark(scheduling, Vms, "no")
  /\ allProcs' = Mark(allProcs, new, "ready")
  /\ currentProcs' = [p \in Ids |-> IF p \in new THEN "ready" ELSE "none"]
  /\ place' = Mark(place, new, Node)
  /\ scheduleStarted' = TRUE
  /\ totalProcesses' = procs
  /\ scheduleIndex' = scheduleIndex + procs
  /\ UNCHANGED <<nodeVars, program, scheduleCompleted, totalScheduled,
                 scheduledNodes, runVars, iterationVars, deleted>>

(* Schedule without a payload: the number of processes is set to one ...   *)
StartNoSchedule ==
  /\ ScheduleTriggered
  /\ ~scheduleStarted
  /\ NoFault
  /\ scheduleStarted' = TRUE
  /\ totalProcesses' = 1
  /\ UNCHANGED <<nodeVars, scheduling, program, scheduleCompleted,
                 scheduleIndex, totalScheduled, scheduledNodes, tableVars,
                 runVars, iterationVars, deleted>>

(* Mutant: every iteration gives its process the same id.                  *)
FirstId == 1

(* ... and the process, numbered by the iteration and not by an index, is  *)
(* added to both tables when the schedule is completed.                    *)
NonCloudId == id + 1

CompleteNoSchedule ==
  /\ ScheduleTriggered
  /\ scheduleStarted
  /\ NonCloudId \in Ids
  /\ NoFault
  /\ totalScheduled' = 1
  /\ scheduledNodes' = Vms
  /\ allProcs' = Mark(allProcs, {NonCloudId}, "ready")
  /\ currentProcs' = Mark(currentProcs, {NonCloudId}, "ready")
  /\ place' = Mark(place, {NonCloudId}, Node)
  /\ scheduleCompleted' = TRUE
  /\ UNCHANGED <<nodeVars, scheduling, program, scheduleStarted, scheduleIndex,
                 totalProcesses, runVars, iterationVars, deleted>>

ScheduleStage ==
  IF payload
  THEN \/ \E procs \in 1 .. MaxProcs :
            \/ ScheduleCommandLost(procs)
            \/ StartSchedule(Vms, procs, Vms,
                 [p \in scheduleIndex + 1 .. scheduleIndex + procs |-> Node])
       \/ CompleteSchedule(Vms)
  ELSE StartNoSchedule \/ CompleteNoSchedule

-----------------------------------------------------------------------------
(* run_task of a connector without a payload, which such a connector has   *)
(* to supply, returns when the program has come to its end.                *)
ExecuteAndWait ==
  /\ ExecuteTriggered
  /\ InputsPrepared
  /\ NoFault
  /\ program' = Mark(program, Ready, "stopped")
  /\ currentProcs' = Mark(currentProcs, Ready, "running")
  /\ allProcs' = Mark(allProcs, Ready, "running")
  /\ executed' = TRUE
  /\ runsLeft' = Cardinality(WithStatus(currentProcs', "running"))
  /\ numbfile' = NextInput
  /\ UNCHANGED <<nodeVars, scheduling, scheduleVars, place, finished,
                 iterationVars, deleted>>

ExecuteStage ==
  IF payload THEN \E started \in SUBSET Ids : Execute(started)
             ELSE ExecuteAndWait

ConvergeStage ==
  \E done \in BOOLEAN :
    /\ done \/ payload \/ NonCloudId + 1 \in Ids
    /\ Converge(done)

(* destroy_resource of these strategies does nothing.                      *)
DestroyStage ==
  /\ DestroyTriggered
  /\ NoFault
  /\ runFinished' = TRUE
  /\ UNCHANGED <<worldVars, createVars, bootVars, processVars, deleted>>

-----------------------------------------------------------------------------
(* A connection that cannot be opened ends the job: bootstrap and schedule *)
(* do not catch it (the latter closes a connection it never got), and for  *)
(* Wait the reliability framework asks the cloud about the machine, which  *)
(* a cluster does not have.                                                *)
SshRaises ==
  /\ payload
  /\ BootstrapTriggered \/ ScheduleTriggered \/ WaitTriggered
  /\ Fault("ssh")
  /\ Delete

(* The worker is killed while the program it waits for runs on.            *)
KilledInExecuteAndWait ==
  /\ ExecuteTriggered
  /\ InputsPrepared
  /\ Fault("kill")
  /\ program' = Mark(program, Ready, "stopped")
  /\ UNCHANGED <<nodeVars, scheduling, scheduleVars, tableVars, runVars,
                 iterationVars>>

ClusterKilled ==
  IF payload THEN \/ KilledInBootstrap /\ UNCHANGED processVars
                  \/ KilledInSchedule
                  \/ KilledInExecute
             ELSE KilledInExecuteAndWait

ClusterPass ==
  /\ ~deleted
  /\ \/ (Configure \/ CreateResource \/ BootstrapStage)
           /\ UNCHANGED <<processVars, deleted>>
     \/ ScheduleStage
     \/ ExecuteStage
     \/ Wait
     \/ Transform
     \/ ConvergeStage
     \/ DestroyStage
     \/ NothingTriggered
     \/ ExecuteRaises
     \/ StageRaises
     \/ SshRaises
  /\ UNCHANGED choiceVars

ClusterMachines == Machines /\ UNCHANGED <<deleted, choiceVars>>

ClusterNext ==
  \/ ClusterPass
  \/ ~deleted /\ UserDelete /\ UNCHANGED choiceVars
  \/ ~deleted /\ ClusterKilled /\ UNCHANGED <<deleted, choiceVars>>
  \/ ClusterMachines

(* Passes are made again and again, as in SmartConnector.                  *)
ClusterSpec ==
  /\ ClusterInit
  /\ [][ClusterNext]_clusterVars
  /\ WF_clusterVars(ClusterPass)
  /\ WF_clusterVars(ClusterMachines)

-----------------------------------------------------------------------------
(***************************************************************************)
(* Properties.                                                             *)
(***************************************************************************)

(***************************************************************************)
(* The process tables agree although the process of a connector without a  *)
(* payload gets its id from the iteration and never passes the index: what *)
(* is in the one has the same status in the other, each iteration adds     *)
(* processes of its own, and those of earlier iterations are completed.    *)
(***************************************************************************)
ClusterTablesAgree ==
  /\ \A p \in Issued : allProcs[p] = IF p \in Current THEN currentProcs[p]
                                                      ELSE "completed"
  /\ Current \subseteq Issued
  /\ payload => Issued = 1 .. scheduleIndex
  /\ ~payload => Issued = 1 .. IF scheduleCompleted /\ ~converged THEN id + 1
                                                                ELSE id

(***************************************************************************)
(* Every job ends, in spite of exceptions, failing connections and killed  *)
(* workers, except one whose command to start make was lost: Schedule asks *)
(* for ever whether that make is done.                                     *)
(***************************************************************************)
CommandLost ==
  /\ payload
  /\ scheduleStarted /\ ~scheduleCompleted
  /\ scheduling[Node] = "no"

ClusterJobEnds == <>(deleted \/ CommandLost)

=============================================================================
