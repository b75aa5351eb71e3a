---------------------- MODULE ClusterConnector_proofs ----------------------
(***************************************************************************)
(* Proofs about ClusterConnector.  The stages it shares with a connector   *)
(* on a cloud keep what Iteration_proofs shows of them; here are the ones  *)
(* that it replaces, and what takes the place of the index of processes    *)
(* for a connector without a payload.                                      *)
(***************************************************************************)
EXTENDS ClusterConnector, Iteration_proofs

(***************************************************************************)
(* The ids given out.  A connector with a payload numbers its processes as *)
(* on a cloud; the one process of a connector without has the number of    *)
(* its iteration, which converge raises.                                   *)
(***************************************************************************)
IndexedIds ==
  /\ Issued = 1 .. scheduleIndex
  /\ TotalIsCurrent

IterationIds ==
  /\ scheduleStarted => totalProcesses = 1
  /\ ~scheduleCompleted => Current = {}
  /\ Issued = 1 .. IF scheduleCompleted /\ ~converged THEN id + 1 ELSE id

ClusterCounts ==
  /\ payload \in BOOLEAN
  /\ IF payload THEN IndexedIds ELSE IterationIds

Steady == Order /\ Turns /\ RunCounts /\ ClusterCounts

-----------------------------------------------------------------------------
(* There is one machine, and Node is it.                                   *)
LEMMA OneNode == Vms # {} /\ Node \in Vms
<1>1. Vms # {} BY ClusterAssumption, FS_EmptySet
<1> QED BY <1>1 DEF Node

(***************************************************************************)
(* The steps of a cluster, by what they share with a job on a cloud.       *)
(***************************************************************************)
OwnNodeStage ==
  \/ CreateResource
  \/ ~payload /\ (StartNoBootstrap \/ CompleteNoBootstrap)

OwnProcessStage ==
  \/ payload /\ \E procs \in 1 .. MaxProcs : ScheduleCommandLost(procs)
  \/ ~payload /\ (StartNoSchedule \/ CompleteNoSchedule \/ ExecuteAndWait)
  \/ DestroyStage

SharedProcessStage ==
  /\ ProcessStage
  /\ \/ payload
     \/ Wait
     \/ Transform
     \/ \E done \in BOOLEAN : Converge(done)

Background ==
  \/ /\ ~deleted
     /\ NothingTriggered \/ ExecuteRaises \/ StageRaises \/ SshRaises
          \/ UserDelete
  \/ UNCHANGED deleted /\ (ClusterKilled \/ Machines)

\* The steps of the connector, by what they change.
LEMMA ClusterSteps ==
  ASSUME TypeOK, ClusterNext
  PROVE  /\ UNCHANGED choiceVars
         /\ \/ /\ ~deleted /\ (NodeStage \/ OwnNodeStage)
               /\ UNCHANGED <<processVars, deleted>>
            \/ ~deleted /\ (SharedProcessStage \/ OwnProcessStage)
            \/ Background
<1>1. UNCHANGED choiceVars
  BY DEF ClusterNext, ClusterPass, ClusterMachines
<1>2. ASSUME BootstrapStage PROVE NodeStage \/ OwnNodeStage
  BY <1>2 DEF BootstrapStage, NodeStage, OwnNodeStage
<1>3. ASSUME ScheduleStage PROVE SharedProcessStage \/ OwnProcessStage
  <2>1. ASSUME NEW procs \in 1 .. MaxProcs, NEW placing, payload,
               placing = [p \in scheduleIndex + 1 .. scheduleIndex + procs
                            |-> Node],
               StartSchedule(Vms, procs, Vms, placing)
        PROVE  SharedProcessStage
    <3>1. Vms \in SUBSET bootstrapped
      BY <2>1 DEF StartSchedule, Registered
    <3>2. placing \in [scheduleIndex + 1 .. scheduleIndex + procs -> Vms]
      BY <2>1, OneNode
    <3> QED BY <2>1, <3>1, <3>2 DEF SharedProcessStage, ProcessStage
  <2>2. ASSUME payload, CompleteSchedule(Vms) PROVE SharedProcessStage
    BY <2>2 DEF SharedProcessStage, ProcessStage
  <2> QED BY <1>3, <2>1, <2>2 DEF ScheduleStage, OwnProcessStage
<1>4. ASSUME ExecuteStage PROVE SharedProcessStage \/ OwnProcessStage
  BY <1>4 DEF ExecuteStage, SharedProcessStage, OwnProcessStage, ProcessStage
<1>5. ASSUME Wait \/ Transform \/ ConvergeStage PROVE SharedProcessStage
  BY <1>5 DEF SharedProcessStage, ProcessStage, ConvergeStage
<1>6. ASSUME DestroyStage PROVE OwnProcessStage
  BY <1>6 DEF OwnProcessStage
<1>7. CASE ClusterPass
  <2>1. ASSUME Configure \/ CreateResource PROVE NodeStage \/ OwnNodeStage
    BY <2>1 DEF NodeStage, OwnNodeStage
  <2> QED BY <1>1, <1>2, <1>3, <1>4, <1>5, <1>6, <1>7, <2>1
          DEF ClusterPass, Background
<1> QED BY <1>1, <1>7 DEF ClusterNext, ClusterMachines, Background

(* What no stage stores: all of the settings stay, and the programs of the *)
(* processes that are completed.                                           *)
LEMMA BackgroundKeeps ==
  ASSUME TypeOK, RunCounts, Background
  PROVE  /\ UNCHANGED settingVars
         /\ UNCHANGED deleted \/ (~deleted /\ deleted')
         /\ \A p \in Completed : program'[p] = program[p]
<1>1. UNCHANGED settingVars
  BY DEF Background, NothingTriggered, ExecuteRaises, StageRaises, SshRaises,
         UserDelete, Delete, ClusterKilled, KilledInBootstrap, KilledInSchedule,
         KilledInExecute, KilledInExecuteAndWait, Machines, ScheduleMakeEnds,
         ProgramStops, BootstrapMakeEnds, nodeVars, createVars, bootVars,
         processVars, settingVars
<1>2. UNCHANGED deleted \/ (~deleted /\ deleted')
  BY DEF Background, NothingTriggered, ExecuteRaises, StageRaises, SshRaises,
         UserDelete, Delete
<1>3. ASSUME NEW p \in Completed PROVE program'[p] = program[p]
  <2>1. p \in Ids /\ p \notin Ready
    BY TablesType
  <2>2. CASE KilledInExecute
    <3>1. PICK started \in SUBSET {q \in Ready : place[q] \in Alive} :
            program' = Mark(program, started, "running")
      BY <2>2 DEF KilledInExecute, Start
    <3> QED BY <2>1, <3>1 DEF Mark, TypeOK
  <2>3. CASE KilledInExecuteAndWait
    BY <2>1, <2>3 DEF KilledInExecuteAndWait, Mark, TypeOK
  <2>4. ASSUME NEW q \in Ids, ProgramStops(q) PROVE program'[p] = program[p]
    BY <2>1, <2>4 DEF ProgramStops, RunCounts, TypeOK
  <2> QED BY <2>2, <2>3, <2>4
          DEF Background, NothingTriggered, ExecuteRaises, StageRaises,
              SshRaises, UserDelete, Delete, ClusterKilled, KilledInBootstrap,
              KilledInSchedule, Machines, ScheduleMakeEnds, BootstrapMakeEnds,
              processVars
<1> QED BY <1>1, <1>2, <1>3

-----------------------------------------------------------------------------
(* Types of what the stages of its own record, and of what the background  *)
(* changes on the machine.                                                 *)
LEMMA OwnNodeTypes ==
  ASSUME TypeOK, OwnNodeStage, UNCHANGED <<processVars, deleted>>
  PROVE  TypeOK'
<1>1. NodesTypeOK'
  BY DEF OwnNodeStage, CreateResource, StartNoBootstrap, CompleteNoBootstrap,
         NodesTypeOK, TypeOK, Mark, NoFault, worldVars, createVars, bootVars
<1> QED BY <1>1 DEF TypeOK, processVars, scheduleVars, tableVars, runVars,
                    iterationVars

\* The stages of its own keep the types.
LEMMA OwnProcessTypes ==
  ASSUME TypeOK, OwnProcessStage
  PROVE  TypeOK'
<1>1. NodesTypeOK'
  <2>1. /\ UNCHANGED <<worldVars, createVars, bootVars>>
        /\ UNCHANGED runFinished \/ runFinished' = TRUE
        /\ UNCHANGED faults \/ faults' = faults + 1
    BY DEF OwnProcessStage, ScheduleCommandLost, StartNoSchedule,
           CompleteNoSchedule, ExecuteAndWait, DestroyStage, Fault, NoFault,
           nodeVars
  <2>2. faults' \in Nat BY <2>1 DEF NodesTypeOK, TypeOK
  <2>3. runFinished' \in BOOLEAN BY <2>1 DEF NodesTypeOK, TypeOK
  <2> QED BY <2>1, <2>2, <2>3
          DEF NodesTypeOK, TypeOK, worldVars, createVars, bootVars
<1>2. NodesTypeOK /\ ProcessTypeOK
  BY DEF TypeOK, ProcessTypeOK
<1> SUFFICES ProcessTypeOK'
  BY <1>1 DEF TypeOK, ProcessTypeOK
<1> USE <1>2 DEF ProcessTypeOK, Status, scheduleVars, tableVars, runVars,
                 iterationVars, processVars
<1>3. ASSUME NEW procs \in 1 .. MaxProcs, ScheduleCommandLost(procs)
      PROVE  ProcessTypeOK'
  <2> DEFINE new == scheduleIndex + 1 .. scheduleIndex + procs
  <2>1. /\ allProcs' = Mark(allProcs, new, "ready")
        /\ currentProcs' = [p \in Ids |-> IF p \in new THEN "ready" ELSE "none"]
        /\ place' = Mark(place, new, Node)
        /\ scheduling' = Mark(scheduling, Vms, "no")
        /\ totalProcesses' = procs
        /\ scheduleIndex' = scheduleIndex + procs
        /\ scheduleIndex' <= MaxIds
        /\ scheduleStarted' = TRUE
    BY <1>3 DEF ScheduleCommandLost
  <2>2. allProcs' \in [Ids -> Status] BY <2>1, MarkType
  <2>3. scheduling' \in [Vms -> {"no", "started", "yes"}]
    BY <2>1, MarkType
  <2>4. scheduleIndex' \in 0 .. MaxIds /\ totalProcesses' \in 0 .. MaxProcs
    BY <2>1, ProcsAssumption
  <2>5. place' \in [Ids -> Vms \cup {NoVm}] BY <2>1, OneNode DEF Mark
  <2>6. currentProcs' \in [Ids -> Status] BY <2>1
  <2> QED BY <1>3, <2>1, <2>2, <2>3, <2>4, <2>5, <2>6 DEF ScheduleCommandLost
<1>4. CASE StartNoSchedule
  BY <1>4, ProcsAssumption DEF StartNoSchedule
<1>5. CASE CompleteNoSchedule
  <2>1. /\ allProcs' \in [Ids -> Status]
        /\ currentProcs' \in [Ids -> Status]
        /\ place' \in [Ids -> Vms \cup {NoVm}]
    BY <1>5, OneNode DEF CompleteNoSchedule, Mark
  <2> QED BY <1>5, <2>1 DEF CompleteNoSchedule
<1>6. CASE ExecuteAndWait
  <2>1. /\ allProcs' \in [Ids -> Status]
        /\ currentProcs' \in [Ids -> Status]
        /\ program' \in [Ids -> {"idle", "running", "stopped"}]
    BY <1>6, MarkType DEF ExecuteAndWait
  <2>2. runsLeft' \in Nat
    BY <1>6, IdsFinite DEF ExecuteAndWait, WithStatus
  <2>3. numbfile' \in Nat BY <1>6, ProcsAssumption DEF ExecuteAndWait, NextInput
  <2> QED BY <1>6, <2>1, <2>2, <2>3 DEF ExecuteAndWait
<1>7. CASE DestroyStage
  BY <1>7 DEF DestroyStage
<1> QED BY <1>1, <1>3, <1>4, <1>5, <1>6, <1>7 DEF OwnProcessStage

\* The steps outside the stages keep the types.
LEMMA BackgroundTypes ==
  ASSUME TypeOK, RunCounts, Background
  PROVE  TypeOK'
<1>1. UNCHANGED settingVars /\ deleted' \in BOOLEAN
  BY BackgroundKeeps DEF TypeOK
<1>2. faults' \in Nat
  BY DEF Background, NothingTriggered, ExecuteRaises, StageRaises, SshRaises,
         UserDelete, Delete, ClusterKilled, KilledInBootstrap, KilledInSchedule,
         KilledInExecute, KilledInExecuteAndWait, Machines, ScheduleMakeEnds,
         ProgramStops, BootstrapMakeEnds, Fault, NoFault, TypeOK, NodesTypeOK
<1>3. UNCHANGED <<vm, place>>
  BY <1>1 DEF Background, NothingTriggered, ExecuteRaises, StageRaises,
         SshRaises, UserDelete, Delete, ClusterKilled, KilledInBootstrap,
         KilledInSchedule, KilledInExecute, KilledInExecuteAndWait, Machines,
         ScheduleMakeEnds, ProgramStops, BootstrapMakeEnds, nodeVars, worldVars,
         settingVars, tableVars
<1>4. installed' \in [Vms -> {"no", "started", "yes"}]
  BY DEF Background, NothingTriggered, ExecuteRaises, StageRaises, SshRaises,
         UserDelete, Delete, ClusterKilled, KilledInBootstrap, KilledInSchedule,
         KilledInExecute, KilledInExecuteAndWait, Machines, ScheduleMakeEnds,
         ProgramStops, BootstrapMakeEnds, nodeVars, worldVars, StartMake, Mark,
         TypeOK, NodesTypeOK
<1>5. scheduling' \in [Vms -> {"no", "started", "yes"}]
  BY DEF Background, NothingTriggered, ExecuteRaises, StageRaises, SshRaises,
         UserDelete, Delete, ClusterKilled, KilledInBootstrap, KilledInSchedule,
         KilledInExecute, KilledInExecuteAndWait, Machines, ScheduleMakeEnds,
         ProgramStops, BootstrapMakeEnds, processVars, Mark, TypeOK
<1>6. program' \in [Ids -> {"idle", "running", "stopped"}]
  BY DEF Background, NothingTriggered, ExecuteRaises, StageRaises, SshRaises,
         UserDelete, Delete, ClusterKilled, KilledInBootstrap, KilledInSchedule,
         KilledInExecute, KilledInExecuteAndWait, Machines, ScheduleMakeEnds,
         ProgramStops, BootstrapMakeEnds, processVars, Start, Mark, TypeOK
<1> QED BY <1>1, <1>2, <1>3, <1>4, <1>5, <1>6
        DEF TypeOK, NodesTypeOK, settingVars, createVars, bootVars,
            scheduleVars, tableVars, runVars, iterationVars

-----------------------------------------------------------------------------
(* What the ids depend on.                                                 *)
LEMMA ClusterCountsFrame ==
  ASSUME ClusterCounts, UNCHANGED <<payload, scheduleVars, id>>,
         Current' = Current, Issued' = Issued,
         converged' = converged \/ ~scheduleCompleted'
  PROVE  ClusterCounts'
BY DEF ClusterCounts, IndexedIds, IterationIds, TotalIsCurrent, scheduleVars

\* The steps outside the stages keep the bookkeeping consistent.
LEMMA BackgroundSteady ==
  ASSUME TypeOK, Steady, Background, UNCHANGED payload
  PROVE  Steady'
<1> USE DEF Steady
<1>1. UNCHANGED settingVars /\ \A p \in Completed : program'[p] = program[p]
  BY BackgroundKeeps
<1>2. RunCounts' /\ Issued' = Issued /\ Current' = Current
  BY <1>1, RunCountsFrame DEF settingVars, countVars, scheduleVars, tableVars,
     runVars, iterationVars
<1>3. Order' /\ Turns'
  BY <1>1, OrderFrame, TurnsFrame DEF settingVars, orderVars, turnVars,
     createVars, bootVars, scheduleVars, tableVars, runVars, iterationVars,
     Running, WithStatus
<1>4. ClusterCounts'
  BY <1>1, <1>2, ClusterCountsFrame DEF settingVars, iterationVars
<1> QED BY <1>2, <1>3, <1>4

(***************************************************************************)
(* The stages of the machine.  Without a payload it is bootstrapped by     *)
(* being recorded, which leaves as many machines bootstrapped as created.  *)
(***************************************************************************)
LEMMA NodesSteady ==
  ASSUME TypeOK, Steady, UNCHANGED payload, UNCHANGED <<processVars, deleted>>,
         NodeStage \/ OwnNodeStage
  PROVE  Steady'
<1> USE DEF Steady
<1>1. /\ UNCHANGED <<scheduleVars, tableVars, runVars, iterationVars, program>>
      /\ Current' = Current /\ Ready' = Ready /\ Running' = Running
      /\ Issued' = Issued
  BY DEF processVars, scheduleVars, tableVars, runVars, iterationVars,
         Current, Ready, Running, Issued, WithStatus
<1>2. RunCounts'
  BY <1>1, RunCountsFrame DEF countVars, scheduleVars, tableVars, runVars,
     iterationVars
<1>3. ClusterCounts'
  BY <1>1, ClusterCountsFrame DEF iterationVars
<1>4. CASE NodeStage
  BY <1>2, <1>3, <1>4, NodeStageOrder, NodeStageTurns
<1>5. CASE CreateResource
  <2>1. /\ configured' /\ createDone' /\ ~bootDone' /\ ~bootDone
        /\ UNCHANGED <<bootstrapped, runFinished>>
    BY <1>5 DEF CreateResource, CreateTriggered, Order, bootVars
  <2>2. Order'
    BY <1>1, <2>1 DEF Order, scheduleVars, runVars, iterationVars
  <2>3. Turns'
    BY <1>1, <2>1 DEF Turns, scheduleVars, runVars, iterationVars
  <2> QED BY <1>2, <1>3, <2>2, <2>3
<1>6. CASE StartNoBootstrap
  BY <1>1, <1>2, <1>3, <1>6, OrderFrame, TurnsFrame
     DEF StartNoBootstrap, orderVars, turnVars, createVars, scheduleVars,
         tableVars, runVars, iterationVars
<1>7. CASE CompleteNoBootstrap
  <2>1. /\ Cardinality(bootstrapped) < Cardinality(RunningCreated)
        /\ bootstrapped' = Vms /\ bootDone' /\ RunningCreated' = RunningCreated
        /\ UNCHANGED <<createVars, runFinished>>
    BY <1>7 DEF CompleteNoBootstrap, BootstrapTriggered, createVars,
       RunningCreated
  <2>2. /\ RunningCreated \in SUBSET Vms
        /\ Cardinality(RunningCreated) <= Cardinality(Vms)
        /\ Cardinality(bootstrapped) \in Nat
    BY VmsFinite, FS_Subset DEF RunningCreated, TypeOK, NodesTypeOK
  <2>3. RunningCreated # {}
    BY <2>1, <2>2, FS_EmptySet
  <2>4. createDone /\ configured
    BY <2>3 DEF Order
  <2>5. Order'
    BY <1>1, <2>1, <2>2, <2>4
       DEF Order, createVars, scheduleVars, runVars, iterationVars
  <2>6. Turns'
    BY <1>1, <2>1, <2>3, OneNode DEF Turns, scheduleVars, runVars, iterationVars
  <2> QED BY <1>2, <1>3, <2>5, <2>6
<1> QED BY <1>4, <1>5, <1>6, <1>7 DEF OwnNodeStage

(***************************************************************************)
(* The stages of the processes that are those of a job on a cloud.         *)
(***************************************************************************)
LEMMA SharedSteady ==
  ASSUME TypeOK, Steady, UNCHANGED payload, SharedProcessStage
  PROVE  Steady'
<1> USE DEF Steady
<1>1. CASE payload
  <2>1. Counts /\ TotalIsCurrent
    BY <1>1 DEF ClusterCounts, IndexedIds, Counts
  <2>2. Counts' /\ TotalIsCurrent'
    BY <2>1, ProcessStageCounts, ProcessStageTotal DEF SharedProcessStage
  <2>3. Order' /\ Turns'
    BY <2>1, ProcessStageOrder, ProcessStageTurns DEF SharedProcessStage
  <2> QED BY <1>1, <2>2, <2>3 DEF ClusterCounts, IndexedIds, Counts
<1>2. CASE ~payload
  <2>1. IterationIds
    BY <1>2 DEF ClusterCounts
  <2>2. scheduleCompleted /\ ~converged
    BY <1>2, NoValueAssumption
       DEF SharedProcessStage, Wait, WaitTriggered, Transform,
           TransformTriggered, Converge, ConvergeTriggered, Order
  <2>3. ~ \E nodes : CompleteSchedule(nodes)
    BY <2>2 DEF CompleteSchedule, ScheduleTriggered, Order
  <2>4. Order' /\ Turns'
    BY <2>3, ProcessStageOrder, ProcessStageTurns DEF SharedProcessStage
  <2>5. CASE Wait \/ Transform
    <3>1. RunCounts' /\ Issued' = Issued /\ Current' = Current
      BY <2>5, WaitCounts, TransformCounts
    <3>2. UNCHANGED <<scheduleVars, id, converged>>
      BY <2>5 DEF Wait, Transform, iterationVars
    <3> QED BY <2>4, <3>1, <3>2, ClusterCountsFrame
  <2>6. ASSUME NEW done \in BOOLEAN, Converge(done) PROVE ClusterCounts'
    <3>1. /\ RunCounts' /\ Issued' = Issued /\ id' = id + 1
          /\ converged' = done
      BY <2>6, ConvergeCounts DEF Converge
    <3>2. Issued = 1 .. id + 1
      BY <2>1, <2>2 DEF IterationIds
    <3>3. CASE done
      BY <1>2, <2>1, <2>2, <2>6, <3>1, <3>2, <3>3
         DEF Converge, scheduleVars, IterationIds, ClusterCounts
    <3>4. CASE ~done
      <4>1. ~scheduleCompleted' /\ ~scheduleStarted'
        BY <2>6, <3>4 DEF Converge, NextIteration, ResetSchedule
      <4>2. Current' = {}
        BY <2>6, <3>4 DEF Converge, NextIteration, Current
      <4> QED BY <1>2, <3>1, <3>2, <4>1, <4>2 DEF IterationIds, ClusterCounts
    <3> QED BY <3>3, <3>4
  <2>7. ASSUME NEW done \in BOOLEAN, Converge(done) PROVE RunCounts'
    BY <2>7, ConvergeCounts
  <2> QED BY <1>2, <2>4, <2>5, <2>6, <2>7 DEF SharedProcessStage
<1> QED BY <1>1, <1>2 DEF ClusterCounts

(***************************************************************************)
(* The stages of the processes that a cluster has of its own.              *)
(***************************************************************************)
LEMMA CommandLostSteady ==
  ASSUME TypeOK, Steady, UNCHANGED payload, payload,
         NEW procs \in 1 .. MaxProcs, ScheduleCommandLost(procs)
  PROVE  Steady'
<1> USE DEF Steady
<1>1. /\ ScheduleTriggered /\ ~scheduleStarted /\ scheduleStarted'
      /\ scheduleIndex + procs <= MaxIds
      /\ allProcs' = Mark(allProcs, scheduleIndex + 1 .. scheduleIndex + procs,
                          "ready")
      /\ currentProcs' = [p \in Ids |->
                            IF p \in scheduleIndex + 1 .. scheduleIndex + procs
                            THEN "ready" ELSE "none"]
      /\ totalProcesses' = procs
      /\ scheduleIndex' = scheduleIndex + procs
      /\ UNCHANGED <<nodeVars, scheduleCompleted, totalScheduled, runVars,
                     iterationVars>>
  BY DEF ScheduleCommandLost
<1>2. RunCounts' /\ Issued' = 1 .. scheduleIndex'
  BY <1>1, StartScheduleCounts DEF ClusterCounts, IndexedIds, Counts, runVars
<1>3. Cardinality(Current') = procs
  BY <1>1, NewProcessesTotal
<1>4. ~scheduleCompleted /\ runsLeft = NoValue /\ ~transformed /\ ~converged
  BY <1>1, NoValueAssumption DEF Order
<1>5. RunningCreated' = RunningCreated /\ procs # 0 /\ bootDone
  BY <1>1 DEF RunningCreated, nodeVars, createVars, ScheduleTriggered
<1>6. Order'
  BY <1>1, <1>4, <1>5
     DEF Order, nodeVars, createVars, bootVars, runVars, iterationVars
<1>7. Turns'
  <2>1. Running' = {} BY <1>1 DEF Running, WithStatus
  <2> QED BY <1>1, <1>4, <1>5, <2>1
          DEF Turns, nodeVars, createVars, bootVars, runVars, iterationVars
<1> QED BY <1>1, <1>2, <1>3, <1>6, <1>7
        DEF ClusterCounts, IndexedIds, TotalIsCurrent

\* So does starting without a schedule.
LEMMA StartNoScheduleSteady ==
  ASSUME TypeOK, Steady, UNCHANGED payload, ~payload, StartNoSchedule
  PROVE  Steady'
<1> USE DEF Steady
<1>1. /\ ScheduleTriggered /\ ~scheduleStarted /\ scheduleStarted'
      /\ totalProcesses' = 1
      /\ UNCHANGED <<nodeVars, program, scheduleCompleted, scheduleIndex,
                     totalScheduled, tableVars, runVars, iterationVars>>
  BY DEF StartNoSchedule
<1>2. ~scheduleCompleted /\ runsLeft = NoValue /\ ~transformed /\ ~converged
  BY <1>1, NoValueAssumption DEF Order
<1>3. /\ RunningCreated' = RunningCreated /\ Current' = Current
      /\ Issued' = Issued /\ Ready' = Ready /\ Running' = Running
      /\ Completed' = Completed /\ bootDone
  BY <1>1 DEF RunningCreated, nodeVars, createVars, tableVars, Current, Issued,
     Ready, Running, Completed, WithStatus, ScheduleTriggered
<1>4. Order' /\ Turns'
  BY <1>1, <1>2, <1>3
     DEF Order, Turns, nodeVars, createVars, bootVars, runVars, iterationVars
<1>5. RunCounts'
  BY <1>1, <1>2, <1>3 DEF RunCounts, TablesMatch, RunsLeftCountsRunning,
     tableVars, runVars, iterationVars
<1>6. ClusterCounts'
  BY <1>1, <1>2, <1>3 DEF ClusterCounts, IterationIds, iterationVars
<1> QED BY <1>4, <1>5, <1>6

\* Completing without a schedule makes processes ready to execute.
LEMMA CompleteNoScheduleSteady ==
  ASSUME TypeOK, Steady, UNCHANGED payload, ~payload, CompleteNoSchedule
  PROVE  /\ Steady' /\ Current = {} /\ Issued' = Issued \cup Ready'
         /\ Ready' # {} /\ Ready' \cap Issued = {} /\ Running' = {}
         /\ (StageIsDue' /\ ~deleted' => StageNow' = "execute")
<1> USE DEF Steady
<1>1. /\ ScheduleTriggered /\ scheduleStarted
      /\ id + 1 \in Ids /\ totalScheduled' = 1 /\ scheduleCompleted'
      /\ allProcs' = Mark(allProcs, {id + 1}, "ready")
      /\ currentProcs' = Mark(currentProcs, {id + 1}, "ready")
      /\ UNCHANGED <<nodeVars, program, scheduleStarted, totalProcesses,
                     runVars, iterationVars>>
  BY DEF CompleteNoSchedule, NonCloudId
<1>2. IterationIds BY DEF ClusterCounts
<1>3. /\ ~scheduleCompleted /\ runsLeft = NoValue /\ ~transformed /\ ~converged
      /\ totalProcesses = 1 /\ bootDone
  BY <1>1, <1>2, NoValueAssumption DEF Order, ScheduleTriggered, IterationIds
<1>4. Current = {} /\ Issued = 1 .. id
  BY <1>2, <1>3 DEF IterationIds
<1>5. /\ id \in Nat /\ id + 1 \notin 1 .. id
      /\ 1 .. id + 1 = (1 .. id) \cup {id + 1}
  BY DEF TypeOK
<1>6. currentProcs' = [p \in Ids |-> IF p \in {id + 1} THEN "ready" ELSE "none"]
  BY <1>1, <1>4, TablesType DEF Current, Mark
<1>7. /\ RunCounts' /\ Current' = {id + 1} /\ Ready' = {id + 1} /\ Running' = {}
      /\ Issued' = Issued \cup {id + 1}
  <2> DEFINE new == {id + 1}
  <2>1. new \in SUBSET Ids /\ new # {} /\ new \cap Issued = {}
    BY <1>1, <1>4, <1>5
  <2>2. /\ scheduleStarted' /\ UNCHANGED <<runsLeft, finished, iterationVars>>
        /\ allProcs' = Mark(allProcs, new, "ready")
        /\ currentProcs' = [p \in Ids |-> IF p \in new THEN "ready" ELSE "none"]
    BY <1>1, <1>6 DEF runVars
  <2> HIDE DEF new
  <2>3. /\ RunCounts' /\ Current' = new /\ Ready' = new /\ Running' = {}
        /\ Issued' = Issued \cup new
    BY <1>3, <1>4, <2>1, <2>2, NewProcessesCount
  <2> QED BY <2>3 DEF new
<1>8. RunningCreated' = RunningCreated
  BY <1>1 DEF RunningCreated, nodeVars, createVars
<1>9. Order' /\ Turns'
  BY <1>1, <1>3, <1>7, <1>8
     DEF Order, Turns, nodeVars, createVars, bootVars, runVars, iterationVars
<1>10. ClusterCounts'
  BY <1>1, <1>2, <1>3, <1>4, <1>5, <1>7
     DEF ClusterCounts, IterationIds, iterationVars
<1>11. ExecuteTriggered'
  BY <1>1, <1>7 DEF ExecuteTriggered
<1> QED BY <1>4, <1>5, <1>7, <1>9, <1>10, <1>11 DEF StageIsDue

\* Executing and waiting keeps the bookkeeping consistent.
LEMMA ExecuteAndWaitSteady ==
  ASSUME TypeOK, Steady, UNCHANGED payload, ~payload, ExecuteAndWait
  PROVE  Steady'
<1> USE DEF Steady
<1>1. /\ ExecuteTriggered /\ executed' /\ Ready \in SUBSET Ready
      /\ currentProcs' = Mark(currentProcs, Ready, "running")
      /\ allProcs' = Mark(allProcs, Ready, "running")
      /\ runsLeft' = Cardinality(WithStatus(currentProcs', "running"))
      /\ UNCHANGED <<nodeVars, scheduleVars, finished, iterationVars>>
  BY DEF ExecuteAndWait
<1>2. RunCounts' /\ Issued' = Issued /\ Current' = Current
  BY <1>1, ExecuteCounts
<1>3. scheduleCompleted /\ ~transformed /\ ~converged
  BY <1>1, NoValueAssumption DEF ExecuteTriggered, Order
<1>4. RunningCreated' = RunningCreated
  BY <1>1 DEF RunningCreated, nodeVars, createVars
<1>5. runsLeft' # NoValue
  <2>1. WithStatus(currentProcs', "running") \in SUBSET Ids
    BY DEF WithStatus
  <2> QED BY <1>1, <2>1, CountIsValue
<1>6. Order' /\ Turns'
  BY <1>1, <1>3, <1>4, <1>5
     DEF Order, Turns, nodeVars, createVars, bootVars, scheduleVars,
         iterationVars
<1>7. ClusterCounts'
  BY <1>1, <1>2, ClusterCountsFrame DEF iterationVars
<1> QED BY <1>2, <1>6, <1>7

\* So does the last stage.
LEMMA DestroySteady ==
  ASSUME TypeOK, Steady, UNCHANGED payload, DestroyStage
  PROVE  Steady'
<1> USE DEF Steady
<1>1. /\ converged /\ runFinished'
      /\ UNCHANGED <<worldVars, createVars, bootVars, processVars>>
  BY DEF DestroyStage, DestroyTriggered
<1>2. /\ RunCounts' /\ Current' = Current /\ Issued' = Issued
      /\ Running' = Running
  BY <1>1, RunCountsFrame DEF processVars, countVars, scheduleVars, tableVars,
     runVars, iterationVars, Running, WithStatus
<1>3. Order' /\ Turns'
  BY <1>1, <1>2, OrderFrame
     DEF orderVars, Turns, createVars, bootVars, processVars, scheduleVars,
         tableVars, runVars, iterationVars
<1>4. ClusterCounts'
  BY <1>1, <1>2, ClusterCountsFrame DEF processVars, iterationVars
<1> QED BY <1>2, <1>3, <1>4

-----------------------------------------------------------------------------
(***************************************************************************)
(* The settings of a job on a cluster are right, whatever its connector,   *)
(* its strategy, and the faults: TypeOK and the invariants of a job on a   *)
(* cloud hold here too, with the numbers of ClusterCounts.                 *)
(***************************************************************************)
THEOREM ClusterSteady == ClusterSpec => [](TypeOK /\ Steady)
<1>1. ClusterInit => TypeOK /\ Steady
  <2> SUFFICES ASSUME ClusterInit PROVE TypeOK /\ Steady
    OBVIOUS
  <2>1. Init /\ payload \in BOOLEAN BY DEF ClusterInit
  <2>2. TypeOK /\ Order BY <2>1, InitTypes, InitOrder
  <2>3. Counts /\ Turns BY <2>1, InitCounts, InitTurns
  <2>4. Current = {} /\ ~scheduleStarted /\ id = 0 /\ scheduleIndex = 0
        /\ ~scheduleCompleted
    BY <2>1 DEF Init, Current
  <2>5. Issued = {} /\ 1 .. 0 = {} BY <2>3, <2>4 DEF Counts
  <2> QED BY <2>1, <2>2, <2>3, <2>4, <2>5
          DEF Steady, Counts, ClusterCounts, IndexedIds, IterationIds,
              TotalIsCurrent
<1>2. TypeOK /\ Steady /\ [ClusterNext]_clusterVars => (TypeOK /\ Steady)'
  <2> SUFFICES ASSUME TypeOK, Steady, [ClusterNext]_clusterVars
               PROVE  TypeOK' /\ Steady'
    OBVIOUS
  <2>1. CASE UNCHANGED clusterVars
    <3>1. UNCHANGED <<vars, payload>> BY <2>1 DEF clusterVars, choiceVars
    <3>2. TypeOK'
      BY <3>1 DEF TypeOK, NodesTypeOK, vars, nodeVars, worldVars, createVars,
         bootVars, processVars, scheduleVars, tableVars, runVars, iterationVars
    <3>3. /\ Order' /\ Turns' /\ RunCounts'
          /\ Issued' = Issued /\ Current' = Current
      BY <3>1, OrderFrame, TurnsFrame, RunCountsFrame
         DEF Steady, vars, nodeVars, createVars, bootVars, processVars,
             scheduleVars, tableVars, runVars, iterationVars, orderVars,
             turnVars, countVars, Running, WithStatus
    <3>4. ClusterCounts'
      BY <3>1, <3>3, ClusterCountsFrame
         DEF Steady, vars, processVars, iterationVars
    <3> QED BY <3>2, <3>3, <3>4 DEF Steady
  <2>2. CASE ClusterNext
    <3>1. UNCHANGED payload BY <2>2, ClusterSteps DEF choiceVars
    <3>2. CASE (NodeStage \/ OwnNodeStage) /\ UNCHANGED <<processVars, deleted>>
      <4>1. TypeOK'
        <5>1. CASE NodeStage
          BY <3>2, <5>1, NodeStageTypes
             DEF TypeOK, processVars, scheduleVars, tableVars, runVars,
                 iterationVars
        <5> QED BY <3>2, <5>1, OwnNodeTypes
      <4> QED BY <3>1, <3>2, <4>1, NodesSteady
    <3>3. CASE SharedProcessStage
      <4>1. TypeOK'
        <5>1. NodesTypeOK'
          BY <3>3, ProcessStageNodeTypes DEF SharedProcessStage, TypeOK
        <5>2. ProcessTypeOK'
          BY <3>3, ProcessStageTypes
             DEF SharedProcessStage, TypeOK, ProcessTypeOK
        <5> QED BY <5>1, <5>2 DEF TypeOK, ProcessTypeOK
      <4> QED BY <3>1, <3>3, <4>1, SharedSteady
    <3>4. CASE OwnProcessStage
      <4>1. TypeOK' BY <3>4, OwnProcessTypes
      <4>2. Steady'
        BY <3>1, <3>4, CommandLostSteady, StartNoScheduleSteady,
           CompleteNoScheduleSteady, ExecuteAndWaitSteady, DestroySteady
           DEF OwnProcessStage
      <4> QED BY <4>1, <4>2
    <3>5. CASE Background
      BY <3>1, <3>5, BackgroundTypes, BackgroundSteady DEF Steady
    <3> QED BY <2>2, <3>2, <3>3, <3>4, <3>5, ClusterSteps
  <2> QED BY <2>1, <2>2
<1> QED BY <1>1, <1>2, PTL DEF ClusterSpec

(***************************************************************************)
(* The process tables agree (ClusterTablesAgree), though a connector       *)
(* without a payload numbers its processes by the iteration.               *)
(***************************************************************************)
THEOREM ClusterTablesAlwaysAgree == ClusterSpec => []ClusterTablesAgree
<1>1. Steady => ClusterTablesAgree
  BY DEF Steady, RunCounts, TablesMatch, ClusterCounts, IndexedIds,
         IterationIds, ClusterTablesAgree
<1> QED BY <1>1, ClusterSteady, PTL

(***************************************************************************)
(* At most one stage is triggered on a cluster, too (StagesExclusive).     *)
(***************************************************************************)
THEOREM ClusterOneStageAtATime == ClusterSpec => []StagesExclusive
<1>1. TypeOK /\ Steady => StagesExclusive
  BY OrderExcludes DEF Steady
<1> QED BY <1>1, ClusterSteady, PTL

(***************************************************************************)
(* A connector on a cluster transforms an iteration only when each of its  *)
(* processes has stopped (TransformsCompleteIterations), although Wait     *)
(* takes every process of a connector without a payload as finished.       *)
(***************************************************************************)
THEOREM ClusterNoPrematureTransform ==
  ClusterSpec => []TransformsCompleteIterations
<1>1. Steady => TransformsCompleteIterations
  BY DEF Steady, RunCounts, TransformsCompleteIterations, Completed, WithStatus
<1> QED BY <1>1, ClusterSteady, PTL

-----------------------------------------------------------------------------
(***************************************************************************)
(* The steps of a cluster are steps of Lifecycle.                          *)
(***************************************************************************)
LEMMA OwnNodeLives ==
  ASSUME DueInv, DueInv', OwnNodeStage, ~deleted,
         UNCHANGED <<processVars, deleted>>
  PROVE  Job!Next
<1> USE DEF DueInv, StageIsDue
<1>1. UNCHANGED <<id, Issued, Ready \cup Running>>
  BY DEF processVars, scheduleVars, tableVars, iterationVars, Ready, Running,
         Issued, WithStatus
<1>2. CASE CreateResource
  <2>1. ~createDone /\ ~bootDone /\ configured /\ createDone' /\ ~bootDone'
    BY <1>2 DEF CreateResource, CreateTriggered, Order, bootVars
  <2>2. StageNow = "create" /\ StageNow' \in {"bootstrap", "idle"}
    BY <2>1
  <2> QED BY <1>1, <2>2 DEF Job!Next, Job!Prepare, Job!Goto
<1>3. CASE StartNoBootstrap
  <2>1. BootstrapTriggered /\ BootstrapTriggered'
    BY <1>3 DEF StartNoBootstrap, BootstrapTriggered, RunningCreated, createVars
  <2>2. StageNow = "bootstrap" /\ StageNow' = "bootstrap"
    BY <2>1
  <2> QED BY <1>1, <2>2 DEF Job!Next, Job!Prepare, Job!Goto
<1>4. CASE CompleteNoBootstrap
  <2>1. BootstrapTriggered /\ bootDone' /\ UNCHANGED scheduleVars
    BY <1>4 DEF CompleteNoBootstrap, processVars
  <2>2. ~bootDone
    <3>1. /\ Cardinality(RunningCreated) \in Nat
          /\ Cardinality(bootstrapped) \in Nat
      BY VmsFinite DEF RunningCreated, TypeOK, NodesTypeOK
    <3> QED BY <2>1, <3>1 DEF BootstrapTriggered, Order
  <2>3. ~scheduleCompleted'
    BY <2>1, <2>2 DEF Order, scheduleVars
  <2>4. StageNow = "bootstrap" /\ StageNow' = "schedule"
    BY <2>1, <2>3
  <2> QED BY <1>1, <2>4 DEF Job!Next, Job!Prepare, Job!Goto
<1> QED BY <1>2, <1>3, <1>4 DEF OwnNodeStage

\* A stage shared with the cloud is a step of the lifecycle.
LEMMA SharedLives ==
  ASSUME DueInv, DueInv', ClusterCounts, SharedProcessStage, ~deleted
  PROVE  Job!Next
<1>1. CASE payload
  BY <1>1, ProcessStageLives
     DEF DueInv, ClusterCounts, IndexedIds, Counts, SharedProcessStage
<1>2. CASE ~payload
  BY <1>2, WaitLives, LastStagesLive DEF SharedProcessStage
<1> QED BY <1>1, <1>2 DEF ClusterCounts

\* So is a schedule command that is lost.
LEMMA CommandLostLives ==
  ASSUME DueInv, DueInv', ClusterCounts, payload, ~deleted,
         NEW procs \in 1 .. MaxProcs, ScheduleCommandLost(procs)
  PROVE  Job!Next
<1> USE DEF DueInv, StageIsDue
<1>1. /\ ~scheduleStarted /\ ~scheduleCompleted /\ bootDone
      /\ UNCHANGED <<bootDone, scheduleCompleted, id, deleted>>
  BY DEF ScheduleCommandLost, ScheduleTriggered, Order, nodeVars, bootVars,
         iterationVars
<1>2. StageNow = "schedule" /\ StageNow' = "schedule"
  BY <1>1
<1>3. /\ Current = {} /\ Ready' # {} /\ Ready' \cap Issued = {}
      /\ Running' = {} /\ Issued' = Issued \cup Ready'
  BY StartScheduleCounts
     DEF ScheduleCommandLost, runVars, ClusterCounts, IndexedIds
<1> QED BY <1>1, <1>2, <1>3, AssignmentLives

\* So is each of the connector's own stages.
LEMMA OwnProcessLives ==
  ASSUME DueInv, DueInv', ClusterCounts, ClusterCounts', UNCHANGED payload,
         OwnProcessStage, ~deleted
  PROVE  Job!Next
<1> USE DEF DueInv, StageIsDue
<1>1. CASE ~payload /\ StartNoSchedule
  <2>1. /\ ~scheduleStarted /\ ~scheduleCompleted /\ bootDone
        /\ UNCHANGED <<bootDone, scheduleCompleted, tableVars, id, deleted>>
    BY <1>1 DEF StartNoSchedule, ScheduleTriggered, Order, nodeVars, bootVars,
       iterationVars
  <2>2. StageNow = "schedule" /\ StageNow' = "schedule"
    BY <2>1
  <2>3. UNCHANGED <<Issued, Ready \cup Running>>
    BY <2>1 DEF tableVars, Issued, Ready, Running, WithStatus
  <2> QED BY <2>1, <2>2, <2>3 DEF Job!Next, Job!Schedule, Job!Goto
<1>2. CASE ~payload /\ CompleteNoSchedule
  <2>1. /\ Current = {} /\ Issued' = Issued \cup Ready' /\ Ready' # {}
        /\ Ready' \cap Issued = {} /\ Running' = {}
        /\ ~deleted' => StageNow' = "execute"
    BY <1>2, CompleteNoScheduleSteady DEF Steady
  <2>2. /\ bootDone /\ ~scheduleCompleted /\ UNCHANGED <<id, deleted>>
    BY <1>2 DEF CompleteNoSchedule, ScheduleTriggered, Order, iterationVars
  <2>3. StageNow = "schedule"
    BY <2>2
  <2> QED BY <2>1, <2>2, <2>3, AssignmentLives
<1>3. CASE ~payload /\ ExecuteAndWait
  <2>1. /\ ExecuteTriggered /\ Ready \in SUBSET Ready
        /\ currentProcs' = Mark(currentProcs, Ready, "running")
        /\ allProcs' = Mark(allProcs, Ready, "running")
        /\ runsLeft' = Cardinality(WithStatus(currentProcs', "running"))
        /\ executed'
        /\ UNCHANGED <<scheduleVars, finished, iterationVars, deleted>>
    BY <1>3 DEF ExecuteAndWait
  <2> QED BY <2>1, ExecuteLives
<1>4. CASE DestroyStage
  <2>1. /\ DestroyTriggered /\ runFinished'
        /\ UNCHANGED <<processVars, deleted>>
    BY <1>4 DEF DestroyStage
  <2> QED BY <2>1, LastStagesLive
<1> QED BY <1>1, <1>2, <1>3, <1>4, CommandLostLives DEF OwnProcessStage

(***************************************************************************)
(* A cluster implements Lifecycle (LifecycleSpec), too: bootstrap and      *)
(* schedule without a payload, the synchronous program and the machine     *)
(* that is never given back leave the order of the stages as it is.        *)
(***************************************************************************)
THEOREM ClusterLifecycleImplemented == ClusterSpec => LifecycleSpec
<1>1. ClusterInit => Job!Init
  BY LifeBegins DEF ClusterInit
<1> DEFINE Due == TypeOK /\ Steady /\ StageIsDue
<1>2. Due /\ Due' /\ [ClusterNext]_clusterVars => [Job!Next]_Job!vars
  <2> SUFFICES ASSUME Due, Due', [ClusterNext]_clusterVars
               PROVE  Job!Next \/ UNCHANGED <<StageNow, id, Issued,
                                              Ready \cup Running>>
    BY DEF Job!vars
  <2>1. DueInv /\ DueInv' /\ ClusterCounts /\ ClusterCounts'
    BY DEF DueInv, Steady
  <2>2. CASE UNCHANGED clusterVars
    BY <2>2, LifeStutters
       DEF clusterVars, vars, nodeVars, createVars, settingVars, processVars
  <2>3. CASE ClusterNext
    <3>1. UNCHANGED payload BY <2>3, ClusterSteps DEF choiceVars
    <3>2. ASSUME ~deleted, NodeStage \/ OwnNodeStage,
                 UNCHANGED <<processVars, deleted>>
          PROVE  Job!Next
      BY <2>1, <3>2, NodeStageLives, OwnNodeLives
    <3>3. ASSUME ~deleted, SharedProcessStage \/ OwnProcessStage
          PROVE  Job!Next
      BY <2>1, <3>1, <3>3, SharedLives, OwnProcessLives
    <3>4. CASE Background
      <4>1. /\ UNCHANGED settingVars
            /\ UNCHANGED deleted \/ (~deleted /\ deleted')
        BY <3>4, BackgroundKeeps DEF Steady
      <4>2. CASE UNCHANGED deleted
        BY <4>1, <4>2, LifeStutters DEF settingVars, createVars
      <4>3. CASE ~deleted /\ deleted'
        BY <4>1, <4>3, EndsOnce DEF settingVars, iterationVars, tableVars
      <4> QED BY <4>1, <4>2, <4>3
    <3> QED BY <2>3, <3>2, <3>3, <3>4, ClusterSteps
  <2> QED BY <2>2, <2>3
<1>3. TypeOK /\ Steady => StageIsDue
  BY StageDue DEF Steady
<1> QED BY <1>1, <1>2, <1>3, ClusterSteady, PTL
        DEF ClusterSpec, LifecycleSpec, Job!Spec

=============================================================================
