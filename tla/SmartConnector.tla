--------------------------- MODULE SmartConnector ---------------------------
(***************************************************************************)
(* One job of a smart connector on a cloud: the stages of the directive    *)
(* (corestages/, assembled by coreinitial.py), which share nothing but the *)
(* run settings, and the pass of tasks._process_context over them.         *)
(*                                                                         *)
(* A pass asks every stage, in no particular order, whether it is          *)
(* triggered, and lets the first one that is process and store its output. *)
(* Passes of a job do not overlap (ContextTasks, OnePassAtATime), so that  *)
(* a pass is a step here; a stage that raises loses its output.  When no   *)
(* stage could store an output the job is deleted.                         *)
(***************************************************************************)
EXTENDS CloudNodes, Placement

CONSTANTS
  NoVm,         \* place of a process that was never scheduled
  NoValue,      \* value of a setting whose key is absent
  MaxProcs,     \* bound: processes of an iteration
  MaxIds,       \* bound: processes of the job
  InputExists   \* the job has an input location

ASSUME NoVmAssumption == NoVm \notin Vms
ASSUME ProcsAssumption ==
  /\ MaxProcs \in Nat \ {0}
  /\ MaxIds \in Nat
  /\ MaxProcs <= MaxIds
ASSUME InputAssumption == InputExists \in BOOLEAN
ASSUME NoValueAssumption == NoValue \notin Int

Ids == 1 .. MaxIds

VARIABLES
  deleted,           \* Context.deleted
  scheduling,        \* state of make schedule on each machine
  program,           \* state of the program of each process on its machine
  scheduleStarted,   \* schedule/schedule_started
  scheduleCompleted, \* schedule/schedule_completed
  scheduleIndex,     \* schedule/schedule_index, the last id given out
  totalProcesses,    \* schedule/total_processes
  totalScheduled,    \* schedule/total_scheduled_procs
  scheduledNodes,    \* schedule/scheduled_nodes
  allProcs,          \* schedule/all_processes: status of each process
  currentProcs,      \* schedule/current_processes, those of the iteration
  place,             \* ip_address of each process
  executed,          \* execute/executed_procs is present (it is always [])
  runsLeft,          \* run/runs_left
  finished,          \* run/finished_nodes
  numbfile,          \* run/initial_numbfile
  transformed,       \* transform/transformed
  converged,         \* converge/converged
  id                 \* system/id, the iteration

scheduleVars == <<scheduleStarted, scheduleCompleted, scheduleIndex,
                  totalProcesses, totalScheduled, scheduledNodes>>
tableVars == <<allProcs, currentProcs, place>>
runVars == <<executed, runsLeft, finished, numbfile>>
iterationVars == <<transformed, converged, id>>
processVars == <<scheduling, program, scheduleVars, tableVars, runVars,
                 iterationVars>>
vars == <<nodeVars, faults, processVars, deleted>>

Status == {"none", "ready", "running", "completed"}

TypeOK ==
  /\ NodesTypeOK
  /\ deleted \in BOOLEAN
  /\ scheduling \in [Vms -> {"no", "started", "yes"}]
  /\ program \in [Ids -> {"idle", "running", "stopped"}]
  /\ scheduleStarted \in BOOLEAN
  /\ scheduleCompleted \in BOOLEAN
  /\ scheduleIndex \in 0 .. MaxIds
  /\ totalProcesses \in 0 .. MaxProcs
  /\ totalScheduled \in Nat
  /\ scheduledNodes \in SUBSET Vms
  /\ allProcs \in [Ids -> Status]
  /\ currentProcs \in [Ids -> Status]
  /\ place \in [Ids -> Vms \cup {NoVm}]
  /\ executed \in BOOLEAN
  /\ runsLeft \in Int \cup {NoValue}
  /\ finished \in SUBSET Ids
  /\ numbfile \in Nat
  /\ transformed \in BOOLEAN
  /\ converged \in BOOLEAN
  /\ id \in Nat

Init ==
  /\ NodesInit
  /\ deleted = FALSE
  /\ scheduling = [v \in Vms |-> "no"]
  /\ program = [p \in Ids |-> "idle"]
  /\ scheduleStarted = FALSE
  /\ scheduleCompleted = FALSE
  /\ scheduleIndex = 0
  /\ totalProcesses = 0
  /\ totalScheduled = 0
  /\ scheduledNodes = {}
  /\ allProcs = [p \in Ids |-> "none"]
  /\ currentProcs = [p \in Ids |-> "none"]
  /\ place = [p \in Ids |-> NoVm]
  /\ executed = FALSE
  /\ runsLeft = NoValue
  /\ finished = {}
  /\ numbfile = 1
  /\ transformed = FALSE
  /\ converged = FALSE
  /\ id = 0

-----------------------------------------------------------------------------
WithStatus(table, status) == {p \in Ids : table[p] = status}
Current == {p \in Ids : currentProcs[p] # "none"}
Ready == WithStatus(currentProcs, "ready")
Running == WithStatus(currentProcs, "running")
Issued == {p \in Ids : allProcs[p] # "none"}

(***************************************************************************)
(* is_triggered of the other stages.                                       *)
(***************************************************************************)
ScheduleTriggered ==
  /\ RunningCreated # {}
  /\ bootDone
  /\ bootstrapped # {}
  /\ totalProcesses = 0 \/ totalProcesses # totalScheduled

ExecuteTriggered ==
  /\ scheduleCompleted
  /\ Current # {}
  /\ executed => Ready # {}

WaitTriggered ==
  /\ executed
  /\ Current # {}
  /\ Ready = {}
  /\ runsLeft \notin {NoValue, 0}

(* Mutant: processes that could not be started are not looked for.         *)
TransformWithReady == runsLeft = 0 /\ ~transformed /\ ~converged

TransformTriggered ==
  /\ Ready = {}
  /\ runsLeft = 0
  /\ ~transformed
  /\ ~converged

ConvergeTriggered == transformed

DestroyTriggered == converged /\ ~runFinished

Stage == {"configure", "create", "bootstrap", "schedule", "execute", "wait",
          "transform", "converge", "destroy"}

Triggered(s) ==
  \/ s = "configure" /\ ConfigureTriggered
  \/ s = "create"    /\ CreateTriggered
  \/ s = "bootstrap" /\ BootstrapTriggered
  \/ s = "schedule"  /\ ScheduleTriggered
  \/ s = "execute"   /\ ExecuteTriggered
  \/ s = "wait"      /\ WaitTriggered
  \/ s = "transform" /\ TransformTriggered
  \/ s = "converge"  /\ ConvergeTriggered
  \/ s = "destroy"   /\ DestroyTriggered

TriggeredStages == {s \in Stage : Triggered(s)}

-----------------------------------------------------------------------------
(***************************************************************************)
(* Schedule, first pass of an iteration: new processes get the next ids    *)
(* and are spread over the registered machines, make is started on each.   *)
(* A command that fails is only logged, and so is a connection that cannot *)
(* be opened, but on the first machine: there it raises (StageRaises).     *)
(***************************************************************************)
StartSchedule(nodes, procs, commanded, placing) ==
  LET new == scheduleIndex + 1 .. scheduleIndex + procs
      used == {placing[p] : p \in new}
  IN
  /\ ScheduleTriggered
  /\ ~scheduleStarted
  /\ nodes # {}
  /\ scheduleIndex + procs <= MaxIds
  /\ \/ commanded = used /\ Registered(bootstrapped, nodes)
     \/ /\ commanded # used /\ commanded \subseteq used
        /\ nodes = bootstrapped \cap Alive
        /\ Fault("ssh")
  /\ IsRoundRobin(placing, scheduleIndex, procs, nodes)
  /\ scheduling' = Mark(Mark(scheduling, used, "no"), commanded, "started")
  /\ allProcs' = Mark(allProcs, new, "ready")
  /\ currentProcs' = [p \in Ids |-> IF p \in new THEN "ready" ELSE "none"]
  /\ place' = [p \in Ids |-> IF p \in new THEN placing[p] ELSE place[p]]
  /\ scheduleStarted' = TRUE
  /\ totalProcesses' = procs
  /\ scheduleIndex' = scheduleIndex + procs
  /\ UNCHANGED <<nodeVars, program, scheduleCompleted, totalScheduled,
                 scheduledNodes, runVars, iterationVars, deleted>>

(***************************************************************************)
(* Schedule, later passes: machines whose make is done are counted with    *)
(* their processes, once each.                                             *)
(***************************************************************************)
MakeDone(v) == scheduling[v] = "yes" \/ ~ \E p \in Current : place[p] = v

CompleteSchedule(nodes) ==
  LET done == {v \in nodes \ scheduledNodes : MakeDone(v)}
  IN
  /\ ScheduleTriggered
  /\ scheduleStarted
  /\ nodes # {}
  /\ Registered(bootstrapped, nodes)
  /\ scheduledNodes' = scheduledNodes \cup done
  /\ totalScheduled' = totalScheduled
                         + Cardinality({p \in Current : place[p] \in done})
  /\ scheduleCompleted' = (scheduleCompleted
                             \/ totalScheduled' = Cardinality(Current))
  /\ UNCHANGED <<nodeVars, scheduling, program, scheduleStarted, scheduleIndex,
                 totalProcesses, tableVars, runVars, iterationVars, deleted>>

(***************************************************************************)
(* Execute: the inputs, numbered from numbfile, are copied to the process  *)
(* with the same id, which must be ready, on its machine.  Then each ready *)
(* process is started; one that cannot be started stays ready.             *)
(***************************************************************************)
InputsPrepared ==
  InputExists =>
    \A n \in numbfile .. numbfile + totalProcesses - 1 :
      n \in Ready /\ place[n] \in Alive

(* Mutant: every process directory of the machines is started.             *)
StartDirectories(procs) ==
  program' = Mark(program, {p \in Ids : place[p] \in Alive}, "running")

Start(procs) == program' = Mark(program, procs, "running")

(* Mutant: one number for each input directory.                            *)
NumberDirectories == IF InputExists THEN numbfile + 1 ELSE numbfile

NextInput == IF InputExists THEN numbfile + totalProcesses ELSE numbfile

Execute(started) ==
  LET startable == {p \in Ready : place[p] \in Alive}
  IN
  /\ ExecuteTriggered
  /\ InputsPrepared
  /\ started \subseteq startable
  /\ IF started = startable THEN NoFault ELSE Fault("ssh")
  /\ Start(started)
  /\ currentProcs' = Mark(currentProcs, started, "running")
  /\ allProcs' = Mark(allProcs, started, "running")
  /\ executed' = TRUE
  /\ runsLeft' = Cardinality(WithStatus(currentProcs', "running"))
  /\ numbfile' = NextInput
  /\ UNCHANGED <<nodeVars, scheduling, scheduleVars, place, finished,
                 iterationVars, deleted>>

(***************************************************************************)
(* Wait: the output of each stopped process is fetched, once.              *)
(***************************************************************************)
Reachable == {p \in Running : place[p] \in Alive}

(* Mutants: the table of all processes is left alone; another status.      *)
CompleteCurrent(procs) ==
  currentProcs' = Mark(currentProcs, procs, "completed") /\ UNCHANGED allProcs

CompleteAsFinished(procs) ==
  /\ currentProcs' = Mark(currentProcs, procs, "finished")
  /\ allProcs' = Mark(allProcs, procs, "finished")

Complete(procs) ==
  /\ currentProcs' = Mark(currentProcs, procs, "completed")
  /\ allProcs' = Mark(allProcs, procs, "completed")

(* Mutant: the list is kept for the next iteration.                        *)
KeepFinished(procs) == finished' = finished \cup procs

StoreFinished(procs) ==
  finished' = IF runsLeft' = 0 THEN {} ELSE finished \cup procs

Wait ==
  LET stopped == {p \in Running : program[p] = "stopped"}
  IN
  /\ WaitTriggered
  /\ Reachable = Running
  /\ NoFault
  /\ Complete(stopped)
  /\ runsLeft' = Cardinality({p \in Current : currentProcs[p] # "ready"})
                   - Cardinality(finished \cup stopped)
  /\ StoreFinished(stopped)
  /\ UNCHANGED <<nodeVars, scheduling, program, scheduleVars, place, executed,
                 numbfile, iterationVars, deleted>>

Transform ==
  /\ TransformTriggered
  /\ NoFault
  /\ transformed' = TRUE
  /\ UNCHANGED <<nodeVars, scheduling, program, scheduleVars, tableVars,
                 runVars, converged, id, deleted>>

(* Mutants: a flag of the last schedule, or its total, is not reset.       *)
KeepCompleted ==
  /\ totalScheduled' = 0 /\ scheduleStarted' = FALSE
  /\ UNCHANGED scheduleCompleted

KeepStarted ==
  /\ totalScheduled' = 0 /\ scheduleCompleted' = FALSE
  /\ UNCHANGED scheduleStarted

KeepTotal ==
  /\ scheduleStarted' = FALSE /\ scheduleCompleted' = FALSE
  /\ UNCHANGED totalScheduled

(***************************************************************************)
(* Converge: the last iteration, or everything but all_processes and the   *)
(* index is reset for the next one.                                        *)
(***************************************************************************)
ResetSchedule ==
  totalScheduled' = 0 /\ scheduleStarted' = FALSE /\ scheduleCompleted' = FALSE

NextIteration ==
  /\ ResetSchedule
  /\ scheduledNodes' = {}
  /\ executed' = TRUE
  /\ currentProcs' = [p \in Ids |-> "none"]
  /\ runsLeft' = NoValue
  /\ UNCHANGED <<scheduleIndex, totalProcesses>>

Converge(done) ==
  /\ ConvergeTriggered
  /\ done \/ scheduleIndex + MaxProcs <= MaxIds
  /\ NoFault
  /\ transformed' = FALSE
  /\ converged' = done
  /\ id' = id + 1
  /\ IF done THEN UNCHANGED <<scheduleVars, currentProcs, executed, runsLeft>>
     ELSE NextIteration
  /\ UNCHANGED <<nodeVars, scheduling, program, allProcs, place, finished,
                 numbfile, deleted>>

Destroy(nodes) ==
  /\ DestroyTriggered
  /\ DestroyNodes(nodes)
  /\ UNCHANGED <<processVars, deleted>>

-----------------------------------------------------------------------------
(***************************************************************************)
(* The end of the job.  No stage is triggered, or the triggered one        *)
(* raises: no machine is registered, the inputs do not match the ready     *)
(* processes, or a process cannot be reached.                              *)
(***************************************************************************)
Delete == deleted' = TRUE /\ UNCHANGED <<nodeVars, processVars>>

NothingTriggered == TriggeredStages = {} /\ NoFault /\ Delete

BootstrapRaises == BootstrapWithoutNodes /\ Delete

ScheduleRaises ==
  /\ ScheduleTriggered
  /\ Registered(bootstrapped, {})
  /\ Delete

ExecuteRaises == ExecuteTriggered /\ ~InputsPrepared /\ NoFault /\ Delete

(***************************************************************************)
(* For a process that cannot be reached Wait asks for a rescheduling, with *)
(* a key (scheduled_started) that is no known parameter, so that storing   *)
(* its output raises.  The other stages of the pass are given copies of    *)
(* the settings as they were, with which none of them is triggered.        *)
(***************************************************************************)
ProcessFails ==
  /\ WaitTriggered
  /\ \/ Reachable # Running /\ NoFault
     \/ Reachable # {} /\ Fault("ssh")
  /\ Delete

StageRaises == TriggeredStages # {} /\ Fault("error") /\ Delete

(* tasks.delete, at the user's request.                                    *)
UserDelete == Fault("delete") /\ Delete

-----------------------------------------------------------------------------
(***************************************************************************)
(* The worker is killed in the middle of a pass.                           *)
(***************************************************************************)
KilledInSchedule ==
  /\ ScheduleTriggered
  /\ ~scheduleStarted
  /\ Fault("kill")
  /\ \E nodes \in SUBSET (bootstrapped \cap Alive) :
       scheduling' = Mark(scheduling, nodes, "started")
  /\ UNCHANGED <<nodeVars, program, scheduleVars, tableVars, runVars,
                 iterationVars>>

KilledInExecute ==
  /\ ExecuteTriggered
  /\ InputsPrepared
  /\ Fault("kill")
  /\ \E started \in SUBSET {p \in Ready : place[p] \in Alive} : Start(started)
  /\ UNCHANGED <<nodeVars, scheduling, scheduleVars, tableVars, runVars,
                 iterationVars>>

Killed ==
  \/ /\ \/ \E reserved \in SUBSET Vms : KilledInCreate(reserved)
        \/ KilledInBootstrap
        \/ \E nodes \in SUBSET Vms : DestroyTriggered /\ KilledInDestroy(nodes)
     /\ UNCHANGED processVars
  \/ KilledInSchedule
  \/ KilledInExecute

(***************************************************************************)
(* The machines: make and programs come to their end.                      *)
(***************************************************************************)
ScheduleMakeEnds(v) ==
  /\ vm[v] = "running"
  /\ scheduling[v] = "started"
  /\ scheduling' = [scheduling EXCEPT ![v] = "yes"]
  /\ NoFault
  /\ UNCHANGED <<nodeVars, program, scheduleVars, tableVars, runVars,
                 iterationVars>>

ProgramStops(p) ==
  /\ program[p] = "running"
  /\ place[p] \in Alive
  /\ program' = [program EXCEPT ![p] = "stopped"]
  /\ NoFault
  /\ UNCHANGED <<nodeVars, scheduling, scheduleVars, tableVars, runVars,
                 iterationVars>>

Machines ==
  \/ \E v \in Vms : ScheduleMakeEnds(v)
  \/ \E p \in Ids : ProgramStops(p)
  \/ \E v \in Vms : BootstrapMakeEnds(v) /\ UNCHANGED processVars

-----------------------------------------------------------------------------
(* Bootstrap and its predecessors come before the first iteration: the id, *)
(* which bootstrap sets to 0, is still 0.                                  *)
NodeStage ==
  \/ Configure
  \/ \E reserved, ready \in SUBSET Vms : CreateVms(reserved, ready)
  \/ \E nodes \in SUBSET Vms : StartBootstrap(nodes)
  \/ \E nodes, done \in SUBSET Vms : CompleteBootstrap(nodes, done)

ProcessStage ==
  \/ \E nodes, commanded \in SUBSET bootstrapped, procs \in 1 .. MaxProcs :
       \E placing \in [scheduleIndex + 1 .. scheduleIndex + procs -> nodes] :
         StartSchedule(nodes, procs, commanded, placing)
  \/ \E nodes \in SUBSET Vms : CompleteSchedule(nodes)
  \/ \E started \in SUBSET Ids : Execute(started)
  \/ Wait
  \/ Transform
  \/ \E done \in BOOLEAN : Converge(done)
  \/ \E nodes \in SUBSET Vms : Destroy(nodes)

EndOfJob ==
  \/ NothingTriggered
  \/ BootstrapRaises
  \/ ScheduleRaises
  \/ ExecuteRaises
  \/ ProcessFails
  \/ StageRaises

Pass ==
  /\ ~deleted
  /\ \/ NodeStage /\ UNCHANGED <<processVars, deleted>>
     \/ ProcessStage
     \/ EndOfJob

Next ==
  \/ Pass
  \/ ~deleted /\ UserDelete
  \/ ~deleted /\ Killed /\ UNCHANGED deleted
  \/ Machines /\ UNCHANGED deleted
  \/ \E v \in Vms : Terminate(v) /\ UNCHANGED <<processVars, deleted>>

Spec == Init /\ [][Next]_vars

(***************************************************************************)
(* The beat and the workers keep making passes (EveryJobEnds of            *)
(* ContextTasks), and make and programs stop by themselves.                *)
(***************************************************************************)
Fairness == WF_vars(Pass) /\ WF_vars(Machines /\ UNCHANGED deleted)

FairSpec == Spec /\ Fairness

-----------------------------------------------------------------------------
(***************************************************************************)
(* Properties.                                                             *)
(***************************************************************************)

(***************************************************************************)
(* The order in which a pass asks the stages does not matter, although     *)
(* tasks.py takes them from a query without ordering: at most one stage is *)
(* triggered by the settings, whatever was done and whatever failed.       *)
(***************************************************************************)
StagesExclusive ==
  \A s, t \in Stage : Triggered(s) /\ Triggered(t) => s = t

(***************************************************************************)
(* The two process tables, which every stage reads and writes separately,  *)
(* agree: on the processes of the iteration they give the same status, and *)
(* all other processes that were ever scheduled are completed.             *)
(***************************************************************************)
TablesAgree ==
  \A p \in Ids :
    allProcs[p] = IF p > scheduleIndex THEN "none"
                  ELSE IF p \in Current THEN currentProcs[p] ELSE "completed"

(***************************************************************************)
(* runs_left, computed by Wait from the lengths of two lists ("FIXME:      *)
(* nodes_working can be negative"), is the number of running processes.    *)
(***************************************************************************)
RunsLeftCountsRunning ==
  runsLeft # NoValue => runsLeft = Cardinality(Running)

(***************************************************************************)
(* An iteration is transformed, and a job converges, only when all of its  *)
(* processes are completed, and each of them really stopped.               *)
(***************************************************************************)
TransformsCompleteIterations ==
  transformed \/ converged =>
    /\ Current # {}
    /\ \A p \in Current :
         currentProcs[p] = "completed" /\ program[p] = "stopped"

(***************************************************************************)
(* Processes are only ever on machines that were bootstrapped and recorded *)
(* by create, so that destroy finds the machine of every process.          *)
(***************************************************************************)
ProcessesOnBootstrappedNodes ==
  \A p \in Ids : place[p] # NoVm =>
    place[p] \in bootstrapped \cap CreatedNodes

(***************************************************************************)
(* The files numbered by initial_numbfile meet the process ids: when the   *)
(* processes of an iteration are to be started, the next input is for the  *)
(* first of them, in every iteration.  (Where ssh fails a start is retried *)
(* with the inputs of the next iteration, and the job ends.)               *)
(***************************************************************************)
InputsMatchIds ==
  InputExists /\ "ssh" \notin FaultKinds /\ scheduleCompleted /\ Ready # {} =>
    Ready = numbfile .. numbfile + totalProcesses - 1

(***************************************************************************)
(* A process whose program has run to its end is not started again, unless *)
(* a worker was killed between the start and the commit.                   *)
(***************************************************************************)
ProgramsRunOnce ==
  [][\A p \in Ids :
       "kill" \notin FaultKinds /\ program[p] = "stopped"
         => program'[p] = "stopped"]_vars

(***************************************************************************)
(* A machine that runs is in the list of created machines from the moment  *)
(* its creation is committed until destroy, and after destroy there is     *)
(* none, provided that ssh, the API and the workers do not fail.           *)
(***************************************************************************)
NoVmUnaccounted ==
  FaultKinds \cap {"ssh", "api", "kill"} = {} =>
    /\ Alive \subseteq CreatedNodes
    /\ runFinished => Alive = {}

(***************************************************************************)
(* The stages, each of which looks only at the run settings to see whether *)
(* it is its turn, together behave as Lifecycle says.                      *)
(***************************************************************************)
StageNow ==
  IF deleted THEN "ended"
  ELSE IF TriggeredStages = {} THEN "idle"
  ELSE CHOOSE s \in TriggeredStages : TRUE

Job == INSTANCE Lifecycle WITH
  stage <- StageNow,
  iteration <- id,
  issued <- Issued,
  pending <- Ready \cup Running

LifecycleSpec == Job!Spec

(***************************************************************************)
(* Every job comes to its end, in spite of exceptions in stages and of     *)
(* workers killed between an effect on the machines and the commit.  (When *)
(* an API call or ssh fails while make is being started, or a machine goes *)
(* while make runs on it, the job is polled for ever.)                     *)
(***************************************************************************)
JobEnds == <>deleted

(***************************************************************************)
(* "The enduser may ignore failed processes", or have them rescheduled: a  *)
(* process that cannot be reached any more (Wait) does not end the job     *)
(* while others still run on the machines that are left.                   *)
(***************************************************************************)
FailedProcessesDoNotEndJob == deleted => Reachable = {}

=============================================================================
