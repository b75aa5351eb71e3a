----------------------- MODULE SmartConnector_proofs -----------------------
(***************************************************************************)
(* Proofs about SmartConnector, for every quota of machines, every number  *)
(* of processes and any faults: types, that at most one stage is triggered *)
(* at a time, and that machines and processes are accounted for.           *)
(***************************************************************************)
EXTENDS SmartConnector, FiniteSetTheorems, TLAPS

(* Mark keeps the type of a function whose range has the new value.        *)
LEMMA MarkType ==
  ASSUME NEW S, NEW T, NEW f \in [S -> T], NEW A, NEW value \in T
  PROVE  Mark(f, A, value) \in [S -> T]
BY DEF Mark

(* Sets of ids, and of machines, are finite.                               *)
LEMMA IdsFinite ==
  ASSUME NEW S \in SUBSET Ids
  PROVE  IsFiniteSet(S) /\ Cardinality(S) \in Nat
<1>1. IsFiniteSet(Ids)
  BY FS_Interval, ProcsAssumption DEF Ids
<1> QED BY <1>1, FS_Subset, FS_CardinalityType

\* A set of nodes is finite.
LEMMA VmsFinite ==
  ASSUME NEW S \in SUBSET Vms
  PROVE  IsFiniteSet(S) /\ Cardinality(S) \in Nat
BY VmsAssumption, FS_Subset, FS_CardinalityType

-----------------------------------------------------------------------------
(***************************************************************************)
(* Types.  The variables of CloudNodes and those of the processes are      *)
(* treated apart.                                                          *)
(***************************************************************************)
ProcessTypeOK ==
  /\ deleted \in BOOLEAN
  /\ scheduling \in [Vms -> {"no", "started", "yes"}]
  /\ program \in [Ids -> {"idle", "running", "stopped"}]
  /\ scheduleStarted \in BOOLEAN
  /\ scheduleCompleted \in BOOLEAN
  /\ scheduleIndex \in 0 .. MaxIds
  /\ totalProcesses \in 0 .. MaxProcs
  /\ totalScheduled \in Nat
  /\ scheduledNodes \in SUBSET Vms
  /\ allProcs \in [Ids -> Status]
  /\ currentProcs \in [Ids -> Status]
  /\ place \in [Ids -> Vms \cup {NoVm}]
  /\ executed \in BOOLEAN
  /\ runsLeft \in Int \cup {NoValue}
  /\ finished \in SUBSET Ids
  /\ numbfile \in Nat
  /\ transformed \in BOOLEAN
  /\ converged \in BOOLEAN
  /\ id \in Nat

(* The stages that get the machines, and the faults of their workers, keep *)
(* the types of what is recorded about machines.                           *)
LEMMA NodeStageTypes ==
  ASSUME NodesTypeOK, NodeStage
  PROVE  NodesTypeOK'
<1> USE DEF NodesTypeOK, nodeVars, worldVars, createVars, bootVars,
            NoFault, Fault, Registered, AllFaults
<1>1. ASSUME Configure PROVE NodesTypeOK'
  BY <1>1 DEF Configure
<1>2. ASSUME NEW reserved \in SUBSET Vms, NEW ready \in SUBSET Vms,
             CreateVms(reserved, ready)
      PROVE  NodesTypeOK'
  BY <1>2 DEF CreateVms, Mark
<1>3. ASSUME NEW nodes \in SUBSET Vms, StartBootstrap(nodes)
      PROVE  NodesTypeOK'
  BY <1>3 DEF StartBootstrap, StartMake, Mark
<1>4. ASSUME NEW nodes \in SUBSET Vms, NEW done \in SUBSET Vms,
             CompleteBootstrap(nodes, done)
      PROVE  NodesTypeOK'
  BY <1>4 DEF CompleteBootstrap, Mark
<1> QED BY <1>1, <1>2, <1>3, <1>4, NodeStage DEF NodeStage

(* So do those that run processes.                                         *)
LEMMA ProcessStageNodeTypes ==
  ASSUME NodesTypeOK, ProcessStage
  PROVE  NodesTypeOK'
<1> USE DEF NodesTypeOK, nodeVars, worldVars, createVars, bootVars,
            NoFault, Fault, Registered, AllFaults
<1>1. ASSUME NEW nodes \in SUBSET Vms, Destroy(nodes) PROVE NodesTypeOK'
  BY <1>1 DEF Destroy, DestroyNodes, TerminateVms, Mark
<1>2. ASSUME NEW nodes \in SUBSET Vms, NEW commanded \in SUBSET Vms,
             NEW procs \in 1 .. MaxProcs, NEW placing,
             StartSchedule(nodes, procs, commanded, placing)
      PROVE  NodesTypeOK'
  BY <1>2 DEF StartSchedule
<1>3. ASSUME NEW nodes \in SUBSET Vms, CompleteSchedule(nodes)
      PROVE  NodesTypeOK'
  BY <1>3 DEF CompleteSchedule
<1>4. ASSUME NEW started \in SUBSET Ids, Execute(started) PROVE NodesTypeOK'
  BY <1>4 DEF Execute
<1>5. CASE Wait BY <1>5 DEF Wait
<1>6. CASE Transform BY <1>6 DEF Transform
<1>7. ASSUME NEW done \in BOOLEAN, Converge(done) PROVE NodesTypeOK'
  BY <1>7 DEF Converge, NextIteration, ResetSchedule
<1> QED BY <1>1, <1>2, <1>3, <1>4, <1>5, <1>6, <1>7 DEF ProcessStage

(* What else happens to the machines: the other steps of the job, the cloud,*)
(* a killed worker.                                                        *)
LEMMA OtherNodeTypes ==
  ASSUME NodesTypeOK, Next, ~ (NodeStage /\ UNCHANGED <<processVars, deleted>>)
  PROVE  NodesTypeOK'
<1> USE DEF NodesTypeOK, nodeVars, worldVars, createVars, bootVars,
            NoFault, Fault, Registered, AllFaults
<1>1. CASE ProcessStage BY <1>1, ProcessStageNodeTypes
<1>2. CASE EndOfJob
  <2>1. CASE ProcessFails BY <2>1 DEF ProcessFails, Delete
  <2>2. CASE ScheduleRaises BY <2>2 DEF ScheduleRaises, Delete
  <2>3. CASE BootstrapRaises
    BY <2>3 DEF BootstrapRaises, BootstrapWithoutNodes, Delete
  <2> QED BY <1>2, <2>1, <2>2, <2>3
          DEF EndOfJob, NothingTriggered, ExecuteRaises, StageRaises, Delete
<1>3. CASE UserDelete BY <1>3 DEF UserDelete, Delete
<1>4. CASE Killed
  <2>1. ASSUME NEW reserved \in SUBSET Vms, KilledInCreate(reserved)
        PROVE  NodesTypeOK'
    BY <2>1 DEF KilledInCreate, Mark
  <2>2. CASE KilledInBootstrap BY <2>2 DEF KilledInBootstrap, StartMake, Mark
  <2>3. ASSUME NEW nodes \in SUBSET Vms, KilledInDestroy(nodes)
        PROVE  NodesTypeOK'
    BY <2>3 DEF KilledInDestroy, Mark
  <2>4. CASE KilledInSchedule BY <2>4 DEF KilledInSchedule
  <2>5. CASE KilledInExecute BY <2>5 DEF KilledInExecute
  <2> QED BY <1>4, <2>1, <2>2, <2>3, <2>4, <2>5 DEF Killed
<1>5. CASE Machines
  <2>1. ASSUME NEW v \in Vms, BootstrapMakeEnds(v) PROVE NodesTypeOK'
    BY <2>1 DEF BootstrapMakeEnds
  <2> QED BY <1>5, <2>1 DEF Machines, ScheduleMakeEnds, ProgramStops
<1>6. ASSUME NEW v \in Vms, Terminate(v) PROVE NodesTypeOK'
  BY <1>6 DEF Terminate
<1> QED BY <1>1, <1>2, <1>3, <1>4, <1>5, <1>6, Next DEF Next, Pass

(* The stages that run processes keep the types of what they record.       *)
LEMMA ProcessStageTypes ==
  ASSUME NodesTypeOK, ProcessTypeOK, ProcessStage
  PROVE  ProcessTypeOK'
<1> USE DEF ProcessTypeOK, Status, scheduleVars, tableVars, runVars,
            iterationVars, processVars
<1>1. ASSUME NEW nodes \in SUBSET Vms, NEW commanded \in SUBSET Vms,
             NEW procs \in 1 .. MaxProcs,
             NEW placing \in
                   [scheduleIndex + 1 .. scheduleIndex + procs -> nodes],
             StartSchedule(nodes, procs, commanded, placing)
      PROVE  ProcessTypeOK'
  <2> DEFINE new == scheduleIndex + 1 .. scheduleIndex + procs
  <2>1. /\ allProcs' = Mark(allProcs, new, "ready")
        /\ currentProcs' = [p \in Ids |-> IF p \in new THEN "ready" ELSE "none"]
        /\ place' = [p \in Ids |-> IF p \in new THEN placing[p] ELSE place[p]]
        /\ totalProcesses' = procs
        /\ scheduleIndex' = scheduleIndex + procs
        /\ scheduleIndex' <= MaxIds
        /\ scheduleStarted' = TRUE
    BY <1>1 DEF StartSchedule
  <2>2. allProcs' \in [Ids -> Status] BY <2>1, MarkType
  <2>3. scheduling' \in [Vms -> {"no", "started", "yes"}]
    BY <1>1 DEF StartSchedule, Mark
  <2>4. scheduleIndex' \in 0 .. MaxIds /\ totalProcesses' \in 0 .. MaxProcs
    BY <2>1, ProcsAssumption
  <2>5. place' \in [Ids -> Vms \cup {NoVm}] BY <2>1
  <2>6. currentProcs' \in [Ids -> Status] BY <2>1
  <2> QED BY <1>1, <2>1, <2>2, <2>3, <2>4, <2>5, <2>6 DEF StartSchedule
<1>2. ASSUME NEW nodes \in SUBSET Vms, CompleteSchedule(nodes)
      PROVE  ProcessTypeOK'
  <2>1. \A S \in SUBSET Ids : Cardinality(S) \in Nat BY IdsFinite
  <2>2. totalScheduled' \in Nat
    BY <1>2, <2>1 DEF CompleteSchedule, Current
  <2>3. scheduleCompleted' \in BOOLEAN BY <1>2 DEF CompleteSchedule
  <2> QED BY <1>2, <2>2, <2>3 DEF CompleteSchedule
<1>3. ASSUME NEW started \in SUBSET Ids, Execute(started)
      PROVE  ProcessTypeOK'
  <2>1. /\ allProcs' = Mark(allProcs, started, "running")
        /\ currentProcs' = Mark(currentProcs, started, "running")
        /\ program' = Mark(program, started, "running")
        /\ runsLeft' = Cardinality(WithStatus(currentProcs', "running"))
    BY <1>3 DEF Execute, Start
  <2>2. /\ allProcs' \in [Ids -> Status]
        /\ currentProcs' \in [Ids -> Status]
        /\ program' \in [Ids -> {"idle", "running", "stopped"}]
    BY <2>1, MarkType
  <2>3. runsLeft' \in Nat
    BY <2>1, IdsFinite DEF WithStatus
  <2>4. numbfile' \in Nat BY <1>3, ProcsAssumption DEF Execute, NextInput
  <2> QED BY <1>3, <2>2, <2>3, <2>4 DEF Execute
<1>4. CASE Wait
  <2> DEFINE stopped == {p \in Running : program[p] = "stopped"}
  <2>1. /\ allProcs' = Mark(allProcs, stopped, "completed")
        /\ currentProcs' = Mark(currentProcs, stopped, "completed")
    BY <1>4 DEF Wait, Complete
  <2>2. /\ allProcs' \in [Ids -> Status]
        /\ currentProcs' \in [Ids -> Status]
    BY <2>1, MarkType
  <2>3. stopped \subseteq Ids BY DEF Running, WithStatus
  <2>4. /\ Cardinality(finished \cup stopped) \in Nat
        /\ Cardinality({p \in Current : currentProcs[p] # "ready"}) \in Nat
    BY <2>3, IdsFinite DEF Current
  <2>5. runsLeft' \in Int BY <1>4, <2>4 DEF Wait
  <2>6. finished' \in SUBSET Ids BY <1>4, <2>3 DEF Wait, StoreFinished
  <2> QED BY <1>4, <2>2, <2>5, <2>6 DEF Wait
<1>5. CASE Transform BY <1>5 DEF Transform
<1>6. ASSUME NEW done \in BOOLEAN, Converge(done) PROVE ProcessTypeOK'
  <2>1. /\ transformed' = FALSE /\ converged' = done /\ id' = id + 1
        /\ scheduling' = scheduling /\ program' = program /\ place' = place
        /\ allProcs' = allProcs /\ finished' = finished
        /\ numbfile' = numbfile /\ deleted' = deleted
    BY <1>6 DEF Converge, NextIteration, ResetSchedule
  <2>2. /\ scheduleStarted' \in {scheduleStarted, FALSE}
        /\ scheduleCompleted' \in {scheduleCompleted, FALSE}
        /\ executed' \in {executed, TRUE}
    BY <1>6, Zenon DEF Converge, NextIteration, ResetSchedule
  <2>3. /\ scheduleIndex' = scheduleIndex /\ totalProcesses' = totalProcesses
        /\ totalScheduled' \in {totalScheduled, 0}
        /\ scheduledNodes' \in {scheduledNodes, {}}
        /\ runsLeft' \in {runsLeft, NoValue}
        /\ currentProcs' \in {currentProcs, [p \in Ids |-> "none"]}
    BY <1>6 DEF Converge, NextIteration, ResetSchedule
  <2>4. /\ scheduleStarted' \in BOOLEAN /\ scheduleCompleted' \in BOOLEAN
        /\ executed' \in BOOLEAN /\ transformed' \in BOOLEAN
        /\ converged' \in BOOLEAN /\ deleted' \in BOOLEAN
    BY <2>1, <2>2
  <2>5. currentProcs' \in [Ids -> Status] BY <2>3
  <2> QED BY <2>1, <2>3, <2>4, <2>5
<1>7. ASSUME NEW nodes \in SUBSET Vms, Destroy(nodes) PROVE ProcessTypeOK'
  BY <1>7 DEF Destroy
<1>8. bootstrapped \in SUBSET Vms BY DEF NodesTypeOK
<1> QED BY <1>1, <1>2, <1>3, <1>4, <1>5, <1>6, <1>7, <1>8, ProcessStage
        DEF ProcessStage

(* So do all other steps, most of which leave the processes alone.         *)
LEMMA OtherProcessTypes ==
  ASSUME ProcessTypeOK, Next, ~ ProcessStage
  PROVE  ProcessTypeOK'
<1> USE DEF ProcessTypeOK, scheduleVars, tableVars, runVars, iterationVars,
            processVars
<1>1. CASE EndOfJob
  BY <1>1 DEF EndOfJob, NothingTriggered, BootstrapRaises, ScheduleRaises,
              ExecuteRaises, ProcessFails, StageRaises, Delete
<1>2. CASE Killed /\ UNCHANGED deleted
  <2>1. CASE KilledInSchedule BY <1>2, <2>1 DEF KilledInSchedule, Mark
  <2>2. CASE KilledInExecute BY <1>2, <2>2 DEF KilledInExecute, Start, Mark
  <2> QED BY <1>2, <2>1, <2>2 DEF Killed
<1>3. CASE Machines /\ UNCHANGED deleted
  <2>1. ASSUME NEW v \in Vms, ScheduleMakeEnds(v) PROVE ProcessTypeOK'
    BY <1>3, <2>1 DEF ScheduleMakeEnds
  <2>2. ASSUME NEW p \in Ids, ProgramStops(p) PROVE ProcessTypeOK'
    BY <1>3, <2>2 DEF ProgramStops
  <2> QED BY <1>3, <2>1, <2>2 DEF Machines
<1> QED BY <1>1, <1>2, <1>3, Next DEF Next, Pass, UserDelete, Delete

(* Initially nothing is recorded.                                          *)
LEMMA InitTypes ==
  ASSUME Init
  PROVE  TypeOK
<1>1. NodesTypeOK BY DEF Init, NodesInit, NodesTypeOK
<1>2. /\ scheduleIndex \in 0 .. MaxIds
      /\ totalProcesses \in 0 .. MaxProcs
  BY ProcsAssumption DEF Init
<1>3. /\ allProcs \in [Ids -> Status]
      /\ currentProcs \in [Ids -> Status]
      /\ place \in [Ids -> Vms \cup {NoVm}]
  BY DEF Init, Status
<1>4. ProcessTypeOK BY <1>2, <1>3 DEF Init, ProcessTypeOK
<1> QED BY <1>1, <1>4 DEF TypeOK, ProcessTypeOK

(***************************************************************************)
(* Every variable keeps its type (TypeOK), whatever the stages, the user,  *)
(* the workers and the machines do.                                        *)
(***************************************************************************)
THEOREM TypeCorrect == Spec => []TypeOK
<1>1. Init => TypeOK BY InitTypes
<1>2. TypeOK /\ [Next]_vars => TypeOK'
  <2> SUFFICES ASSUME TypeOK, [Next]_vars PROVE TypeOK'
    OBVIOUS
  <2>1. NodesTypeOK /\ ProcessTypeOK BY DEF TypeOK, ProcessTypeOK
  <2>2. CASE UNCHANGED vars
    BY <2>2 DEF TypeOK, NodesTypeOK, vars, nodeVars, worldVars, createVars,
      bootVars, processVars, scheduleVars, tableVars, runVars, iterationVars
  <2>3. CASE Next
    <3>1. NodesTypeOK' BY <2>1, <2>3, NodeStageTypes, OtherNodeTypes
    <3>2. ProcessTypeOK' BY <2>1, <2>3, ProcessStageTypes, OtherProcessTypes
    <3> QED BY <3>1, <3>2 DEF TypeOK, ProcessTypeOK
  <2> QED BY <2>2, <2>3
<1> QED BY <1>1, <1>2, PTL DEF Spec

-----------------------------------------------------------------------------
(***************************************************************************)
(* The order of the stages.  That at most one stage is triggered is not    *)
(* inductive: it rests on how far the settings of one stage vouch for      *)
(* those of the stages before it.                                          *)
(***************************************************************************)
Order ==
  /\ createDone => configured
  /\ ~createDone => RunningCreated = {}
  /\ bootDone => /\ createDone
                 /\ Cardinality(RunningCreated) <= Cardinality(bootstrapped)
  /\ scheduleStarted => bootDone /\ totalProcesses # 0
  /\ scheduleCompleted => /\ scheduleStarted
                          /\ totalScheduled = totalProcesses
  /\ runsLeft # NoValue => scheduleCompleted /\ executed
  /\ transformed \/ converged => runsLeft = 0 /\ Ready = {}
  /\ ~ (transformed /\ converged)

(* What a connector keeps that numbers its processes with an index.        *)
TotalIsCurrent == scheduleStarted => totalProcesses = Cardinality(Current)

orderVars == <<configured, createDone, created, bootstrapped, bootDone,
               scheduleVars, currentProcs, executed, runsLeft, transformed,
               converged>>

(* Order is about the settings alone.                                      *)
LEMMA OrderFrame ==
  ASSUME Order, UNCHANGED orderVars
  PROVE  Order'
BY DEF Order, orderVars, scheduleVars, RunningCreated, Current, Ready,
       WithStatus

(* At most one stage is triggered by settings that are in order.           *)
LEMMA OrderExcludes ==
  ASSUME TypeOK, Order
  PROVE  StagesExclusive
<1> USE DEF Order
<1>1. Cardinality(RunningCreated) \in Nat /\ Cardinality(bootstrapped) \in Nat
  BY VmsFinite DEF RunningCreated, TypeOK, NodesTypeOK
<1>2. RunningCreated = {} => Cardinality(RunningCreated) = 0
  BY FS_EmptySet
<1>3. NoValue # 0 BY NoValueAssumption
<1>4. BootstrapTriggered => createDone /\ ~bootDone
  BY <1>1, <1>2 DEF BootstrapTriggered
<1>5. ScheduleTriggered => createDone /\ bootDone /\ ~scheduleCompleted
  BY DEF ScheduleTriggered
<1>6. \/ ExecuteTriggered \/ WaitTriggered \/ TransformTriggered
      \/ ConvergeTriggered \/ DestroyTriggered
      => createDone /\ bootDone /\ scheduleCompleted
  BY <1>3 DEF ExecuteTriggered, WaitTriggered, TransformTriggered,
              ConvergeTriggered, DestroyTriggered
<1>7. bootDone => ~BootstrapTriggered BY <1>1 DEF BootstrapTriggered
<1>8. ConfigureTriggered => ~createDone /\ ~CreateTriggered
  BY DEF ConfigureTriggered, CreateTriggered
<1>9. CreateTriggered => ~createDone BY DEF CreateTriggered
<1>10. ExecuteTriggered => ~WaitTriggered /\ ~TransformTriggered
                             /\ ~ConvergeTriggered /\ ~DestroyTriggered
  BY <1>3 DEF ExecuteTriggered, WaitTriggered, TransformTriggered,
              ConvergeTriggered, DestroyTriggered
<1>11. WaitTriggered => ~TransformTriggered /\ ~ConvergeTriggered
                          /\ ~DestroyTriggered
  BY DEF WaitTriggered, TransformTriggered, ConvergeTriggered, DestroyTriggered
<1>12. /\ TransformTriggered => ~ConvergeTriggered /\ ~DestroyTriggered
       /\ ConvergeTriggered => ~DestroyTriggered
  BY DEF TransformTriggered, ConvergeTriggered, DestroyTriggered
<1> HIDE DEF Order
<1> QED BY <1>4, <1>5, <1>6, <1>7, <1>8, <1>9, <1>10, <1>11, <1>12
        DEF StagesExclusive, Triggered

(* The stages that get the machines keep the settings in order.            *)
LEMMA NodeStageOrder ==
  ASSUME TypeOK, Order, NodeStage, UNCHANGED processVars
  PROVE  Order'
<1>1. /\ UNCHANGED <<scheduleStarted, scheduleCompleted, totalProcesses,
                     totalScheduled, currentProcs, executed, runsLeft,
                     transformed, converged>>
      /\ Current' = Current /\ Ready' = Ready
  BY DEF processVars, scheduleVars, tableVars, runVars, iterationVars,
         Current, Ready, WithStatus
<1>2. RunningCreated = {} => Cardinality(RunningCreated) = 0
  BY FS_EmptySet
<1>3. Cardinality(RunningCreated) \in Nat /\ Cardinality(bootstrapped) \in Nat
  BY VmsFinite DEF RunningCreated, TypeOK, NodesTypeOK
<1>4. CASE Configure
  BY <1>4, OrderFrame, <1>1
  DEF Configure, Order, createVars, bootVars, RunningCreated
<1>5. ASSUME NEW reserved, NEW ready, CreateVms(reserved, ready) PROVE Order'
  <2>1. /\ createDone' /\ configured' /\ ~bootDone'
    BY <1>5 DEF CreateVms, CreateTriggered, Order, bootVars
  <2>2. ~scheduleStarted' BY <1>1, <2>1, <1>5 DEF Order, CreateVms, bootVars
  <2> QED BY <1>1, <2>1, <2>2 DEF Order
<1>6. ASSUME NEW nodes, StartBootstrap(nodes) PROVE Order'
  BY <1>6, <1>1, OrderFrame
  DEF StartBootstrap, orderVars, createVars, processVars
<1>7. ASSUME NEW nodes \in SUBSET Vms, NEW done \in SUBSET Vms,
             CompleteBootstrap(nodes, done)
      PROVE  Order'
  <2>1. ~bootDone /\ createDone /\ configured
    BY <1>7, <1>2, <1>3 DEF CompleteBootstrap, BootstrapTriggered, Order
  <2>2. createDone' /\ configured'
    BY <1>7, <2>1 DEF CompleteBootstrap
  <2>3. bootDone' => Cardinality(bootstrapped') = Cardinality(RunningCreated')
    BY <1>7, <2>1 DEF CompleteBootstrap
  <2>4. Cardinality(RunningCreated') \in Nat
    <3>1. RunningCreated' \in SUBSET Vms BY DEF RunningCreated
    <3> QED BY <3>1, VmsFinite
  <2>5. ~scheduleStarted' BY <1>1, <2>1 DEF Order
  <2> QED BY <1>1, <2>2, <2>3, <2>4, <2>5 DEF Order
<1> QED BY <1>4, <1>5, <1>6, <1>7, NodeStage DEF NodeStage

(* So do the stages that run the processes; complete_schedule compares with *)
(* the number of processes in the table.                                   *)
LEMMA ProcessStageOrder ==
  ASSUME TypeOK, Order, ProcessStage,
         (\E nodes : CompleteSchedule(nodes)) => TotalIsCurrent
  PROVE  Order'
<1>0. NoValue # 0 BY NoValueAssumption
<1>1. ASSUME NEW nodes, NEW commanded, NEW procs \in 1 .. MaxProcs, NEW placing,
             StartSchedule(nodes, procs, commanded, placing)
      PROVE  Order'
  <2>1. /\ totalProcesses' = procs /\ procs # 0
        /\ bootDone /\ ~scheduleStarted
        /\ UNCHANGED <<nodeVars, scheduleCompleted, totalScheduled, runVars,
                       iterationVars>>
    BY <1>1 DEF StartSchedule, ScheduleTriggered
  <2>2. ~scheduleCompleted /\ runsLeft = NoValue /\ ~transformed /\ ~converged
    BY <2>1, <1>0 DEF Order
  <2>3. RunningCreated' = RunningCreated
    BY <2>1 DEF RunningCreated, nodeVars, createVars
  <2> QED BY <2>1, <2>2, <2>3
          DEF Order, nodeVars, createVars, bootVars, runVars, iterationVars
<1>2. ASSUME NEW nodes, CompleteSchedule(nodes) PROVE Order'
  <2>1. /\ scheduleStarted /\ ~scheduleCompleted
        /\ UNCHANGED <<nodeVars, scheduleStarted, totalProcesses, currentProcs,
                       runVars, iterationVars>>
    BY <1>2 DEF CompleteSchedule, ScheduleTriggered, Order, tableVars
  <2>2. scheduleCompleted' => totalScheduled' = totalProcesses
    BY <1>2, <2>1 DEF CompleteSchedule, TotalIsCurrent
  <2>3. Current' = Current /\ Ready' = Ready /\ RunningCreated' = RunningCreated
    BY <2>1 DEF Current, Ready, WithStatus, RunningCreated, nodeVars, createVars
  <2>4. runsLeft = NoValue /\ ~transformed /\ ~converged
    BY <2>1, <1>0 DEF Order
  <2> QED BY <2>1, <2>2, <2>3, <2>4
          DEF Order, nodeVars, createVars, bootVars, runVars, iterationVars
<1>3. ASSUME NEW started, Execute(started) PROVE Order'
  <2>1. /\ scheduleCompleted /\ executed' /\ (executed => Ready # {})
        /\ started \subseteq Ready
        /\ currentProcs' = Mark(currentProcs, started, "running")
        /\ UNCHANGED <<nodeVars, scheduleVars, iterationVars>>
    BY <1>3 DEF Execute, ExecuteTriggered
  <2>2. Current' = Current
    BY <2>1 DEF Current, Ready, WithStatus, Mark, TypeOK
  <2>3. ~transformed /\ ~converged BY <2>1, <1>0 DEF Order
  <2>4. RunningCreated' = RunningCreated
    BY <2>1 DEF RunningCreated, nodeVars, createVars
  <2> QED BY <2>1, <2>2, <2>3, <2>4
          DEF Order, nodeVars, createVars, bootVars, scheduleVars, iterationVars
<1>4. CASE Wait
  <2> DEFINE stopped == {p \in Running : program[p] = "stopped"}
  <2>1. /\ executed /\ Ready = {} /\ runsLeft # NoValue /\ runsLeft # 0
        /\ currentProcs' = Mark(currentProcs, stopped, "completed")
        /\ UNCHANGED <<nodeVars, scheduleVars, executed, iterationVars>>
    BY <1>4 DEF Wait, WaitTriggered, Complete
  <2>2. Current' = Current
    BY <2>1 DEF Current, Running, WithStatus, Mark, TypeOK
  <2>3. ~transformed /\ ~converged /\ scheduleCompleted BY <2>1 DEF Order
  <2>4. RunningCreated' = RunningCreated
    BY <2>1 DEF RunningCreated, nodeVars, createVars
  <2> QED BY <2>1, <2>2, <2>3, <2>4
          DEF Order, nodeVars, createVars, bootVars, scheduleVars, iterationVars
<1>5. CASE Transform
  <2>1. /\ runsLeft = 0 /\ Ready = {} /\ ~converged
        /\ UNCHANGED <<nodeVars, scheduleVars, tableVars, runVars, converged>>
    BY <1>5 DEF Transform, TransformTriggered
  <2>2. Current' = Current /\ Ready' = Ready /\ RunningCreated' = RunningCreated
    BY <2>1 DEF Current, Ready, WithStatus, RunningCreated, nodeVars,
                createVars, tableVars
  <2> QED BY <2>1, <2>2
          DEF Order, nodeVars, createVars, bootVars, scheduleVars, runVars
<1>6. ASSUME NEW done \in BOOLEAN, Converge(done) PROVE Order'
  <2>1. /\ transformed /\ ~transformed' /\ (converged' <=> done)
        /\ UNCHANGED nodeVars
    BY <1>6 DEF Converge, ConvergeTriggered
  <2>2. RunningCreated' = RunningCreated
    BY <2>1 DEF RunningCreated, nodeVars, createVars
  <2>3. CASE done
    <3>1. UNCHANGED <<scheduleVars, currentProcs, executed, runsLeft>>
      BY <1>6, <2>3 DEF Converge, NextIteration, ResetSchedule
    <3>2. Current' = Current /\ Ready' = Ready
      BY <3>1 DEF Current, Ready, WithStatus
    <3> QED BY <2>1, <2>2, <3>1, <3>2
            DEF Order, nodeVars, createVars, bootVars, scheduleVars
  <2>4. CASE ~done
    <3>1. ~scheduleStarted' /\ ~scheduleCompleted' /\ runsLeft' = NoValue
      BY <1>6, <2>4 DEF Converge, NextIteration, ResetSchedule
    <3> QED BY <2>1, <2>2, <2>4, <3>1 DEF Order, nodeVars, createVars, bootVars
  <2> QED BY <2>3, <2>4
<1>7. ASSUME NEW nodes, Destroy(nodes) PROVE Order'
  <2>1. /\ created' = Mark(created, RunningCreated, "terminated")
        /\ UNCHANGED <<configured, createDone, bootVars, processVars>>
    BY <1>7 DEF Destroy, DestroyNodes
  <2>2. RunningCreated' = {}
    BY <2>1 DEF RunningCreated, Mark, TypeOK, NodesTypeOK
  <2>3. Cardinality(RunningCreated') = 0 BY <2>2, FS_EmptySet
  <2>4. Cardinality(bootstrapped) \in Nat
    BY VmsFinite DEF TypeOK, NodesTypeOK
  <2>5. Current' = Current /\ Ready' = Ready
    BY <2>1 DEF Current, Ready, WithStatus, processVars, tableVars
  <2> QED BY <2>1, <2>2, <2>3, <2>4, <2>5
          DEF Order, bootVars, processVars, scheduleVars, tableVars, runVars,
              iterationVars
<1> QED BY <1>1, <1>2, <1>3, <1>4, <1>5, <1>6, <1>7, ProcessStage
        DEF ProcessStage

(* The steps that are not the output of a stage touch no setting of the    *)
(* order: the machines, killed workers, the end of the job.                *)
LEMMA OtherOrder ==
  ASSUME Order, Next, ~ProcessStage,
         ~ (NodeStage /\ UNCHANGED <<processVars, deleted>>)
  PROVE  Order'
<1> USE DEF orderVars, nodeVars, createVars, bootVars, processVars,
            scheduleVars, tableVars, runVars, iterationVars
<1>1. CASE EndOfJob
  <2>1. UNCHANGED orderVars
    BY <1>1 DEF EndOfJob, NothingTriggered, BootstrapRaises, ScheduleRaises,
                ExecuteRaises, ProcessFails, StageRaises, Delete
  <2> QED BY <2>1, OrderFrame
<1>2. CASE UserDelete BY <1>2, OrderFrame DEF UserDelete, Delete
<1>3. CASE Killed
  <2>1. UNCHANGED orderVars
    BY <1>3 DEF Killed, KilledInCreate, KilledInBootstrap, KilledInDestroy,
                KilledInSchedule, KilledInExecute
  <2> QED BY <2>1, OrderFrame
<1>4. CASE Machines
  <2>1. UNCHANGED orderVars
    BY <1>4 DEF Machines, ScheduleMakeEnds, ProgramStops, BootstrapMakeEnds
  <2> QED BY <2>1, OrderFrame
<1>5. ASSUME NEW v \in Vms, Terminate(v), UNCHANGED processVars PROVE Order'
  BY <1>5, OrderFrame DEF Terminate
<1> QED BY <1>1, <1>2, <1>3, <1>4, <1>5, Next DEF Next, Pass

(* New processes with the next ids are as many as were asked for.          *)
LEMMA NewProcessesTotal ==
  ASSUME TypeOK, NEW procs \in 1 .. MaxProcs, scheduleIndex + procs <= MaxIds,
         currentProcs' = [p \in Ids |->
                            IF p \in scheduleIndex + 1 .. scheduleIndex + procs
                            THEN "ready" ELSE "none"]
  PROVE  Cardinality(Current') = procs
<1> DEFINE new == scheduleIndex + 1 .. scheduleIndex + procs
<1>1. scheduleIndex \in Nat /\ procs \in Nat
  BY ProcsAssumption DEF TypeOK
<1>2. Current' = new BY <1>1, ProcsAssumption DEF Current, Ids
<1>3. Cardinality(new) = procs BY <1>1, FS_Interval
<1> QED BY <1>2, <1>3

(* The number of processes is that of the table.                           *)
LEMMA ProcessStageTotal ==
  ASSUME TypeOK, Order, TotalIsCurrent, ProcessStage
  PROVE  TotalIsCurrent'
<1> USE DEF TotalIsCurrent
<1>1. ASSUME NEW nodes, NEW commanded, NEW procs \in 1 .. MaxProcs, NEW placing,
             StartSchedule(nodes, procs, commanded, placing)
      PROVE  TotalIsCurrent'
  BY <1>1, NewProcessesTotal DEF StartSchedule
<1>2. ASSUME UNCHANGED <<scheduleStarted, totalProcesses>>, Current' = Current
      PROVE  TotalIsCurrent'
  BY <1>2
<1>3. ASSUME NEW started, Execute(started) PROVE TotalIsCurrent'
  <2>1. Current' = Current
    BY <1>3 DEF Execute, Current, Ready, WithStatus, Mark, TypeOK
  <2> QED BY <1>2, <1>3, <2>1 DEF Execute, scheduleVars
<1>4. CASE Wait
  <2>1. Current' = Current
    BY <1>4 DEF Wait, Complete, Current, Running, WithStatus, Mark, TypeOK
  <2> QED BY <1>2, <1>4, <2>1 DEF Wait, scheduleVars
<1>5. ASSUME NEW done \in BOOLEAN, Converge(done) PROVE TotalIsCurrent'
  <2>1. CASE done
    BY <1>2, <1>5, <2>1 DEF Converge, scheduleVars, Current
  <2>2. CASE ~done
    BY <1>5, <2>2 DEF Converge, NextIteration, ResetSchedule
  <2> QED BY <2>1, <2>2
<1> QED BY <1>1, <1>2, <1>3, <1>4, <1>5, ProcessStage
        DEF ProcessStage, CompleteSchedule, Transform, Destroy, Current,
            scheduleVars, tableVars, processVars

(* All other steps leave the settings of the processes alone.              *)
LEMMA OtherSettings ==
  ASSUME Next, ~ProcessStage
  PROVE  UNCHANGED <<scheduleVars, tableVars, runVars, iterationVars>>
BY DEF Next, Pass, EndOfJob, NothingTriggered, BootstrapRaises, ScheduleRaises,
       ExecuteRaises, ProcessFails, StageRaises, Delete, UserDelete, Killed,
       KilledInSchedule, KilledInExecute, Machines, ScheduleMakeEnds,
       ProgramStops, processVars

\* Every step keeps the total processes those of the current schedule.
LEMMA TotalStep ==
  ASSUME TypeOK, Order, TotalIsCurrent, [Next]_vars
  PROVE  TotalIsCurrent'
<1>1. CASE UNCHANGED <<scheduleVars, tableVars>>
  BY <1>1 DEF TotalIsCurrent, scheduleVars, tableVars, Current
<1>2. CASE UNCHANGED vars
  BY <1>1, <1>2 DEF vars, processVars
<1> QED BY <1>1, <1>2, ProcessStageTotal, OtherSettings

(* Initially nothing is done, and no machine recorded.                     *)
LEMMA InitOrder ==
  ASSUME Init
  PROVE  Order /\ TotalIsCurrent
<1>1. RunningCreated = {} BY DEF Init, NodesInit, RunningCreated
<1> QED BY <1>1 DEF Init, NodesInit, Order, TotalIsCurrent

(* The settings of a job are in order.                                     *)
THEOREM OrderInvariant == Spec => [](Order /\ TotalIsCurrent)
<1>1. Init => Order /\ TotalIsCurrent BY InitOrder
<1>2. TypeOK /\ Order /\ TotalIsCurrent /\ [Next]_vars
        => Order' /\ TotalIsCurrent'
  <2> SUFFICES ASSUME TypeOK, Order, TotalIsCurrent, [Next]_vars PROVE Order'
    BY TotalStep
  <2>1. CASE UNCHANGED vars
    BY <2>1, OrderFrame DEF vars, orderVars, nodeVars, createVars, bootVars,
       processVars, scheduleVars, tableVars, runVars, iterationVars
  <2>2. CASE Next BY <2>2, NodeStageOrder, ProcessStageOrder, OtherOrder
  <2> QED BY <2>1, <2>2
<1> QED BY <1>1, <1>2, TypeCorrect, PTL DEF Spec

(***************************************************************************)
(* Whatever was done and whatever failed, at most one stage is triggered   *)
(* (StagesExclusive), so that the unordered query of tasks.py does not     *)
(* matter, nor that a pass goes on after a stage that raised.              *)
(***************************************************************************)
THEOREM OneStageAtATime == Spec => []StagesExclusive
<1>1. TypeOK /\ Order => StagesExclusive BY OrderExcludes
<1> QED BY <1>1, TypeCorrect, OrderInvariant, PTL

-----------------------------------------------------------------------------
(***************************************************************************)
(* Machines.  Both properties need that create keeps a record of every     *)
(* machine that bootstrap accepts, that no stage forgets one, and that     *)
(* create is not triggered again after destroy.                            *)
(***************************************************************************)
Recorded ==
  /\ bootstrapped \subseteq CreatedNodes
  /\ runFinished => createDone
  /\ ProcessesOnBootstrappedNodes
  /\ NoVmUnaccounted

recordVars == <<bootstrapped, created, createDone, runFinished, place>>

(* Machines may go, at any time.                                           *)
LEMMA RecordedFrame ==
  ASSUME Recorded, UNCHANGED recordVars, Alive' \subseteq Alive
  PROVE  Recorded'
BY DEF Recorded, recordVars, CreatedNodes, ProcessesOnBootstrappedNodes,
       NoVmUnaccounted

\* The stages about nodes keep each node on record.
LEMMA NodeStageRecorded ==
  ASSUME TypeOK, Recorded, NodeStage, UNCHANGED processVars
  PROVE  Recorded'
<1> USE DEF nodeVars, createVars, bootVars, worldVars, processVars, tableVars,
            recordVars
<1>1. ASSUME Configure PROVE Recorded'
  BY <1>1, RecordedFrame DEF Configure, Alive
<1>2. ASSUME NEW reserved \in SUBSET Vms, NEW ready \in SUBSET Vms,
             CreateVms(reserved, ready)
      PROVE  Recorded'
  <2>1. /\ ~createDone /\ createDone' /\ ready \subseteq reserved
        /\ "ssh" \notin FaultKinds => ready = reserved
        /\ UNCHANGED <<bootstrapped, runFinished, place>>
    BY <1>2 DEF CreateVms, CreateTriggered, Fault
  <2>2. ~runFinished
    BY <2>1 DEF Recorded
  <2>3. CASE Cardinality(ready) >= MinVms
    <3>1. /\ vm' = Mark(vm, reserved, "running")
          /\ created' = Mark(created, ready, "running")
      BY <1>2, <2>3 DEF CreateVms
    <3>2. CreatedNodes' = CreatedNodes \cup ready
      BY <3>1 DEF CreatedNodes, Mark, TypeOK, NodesTypeOK
    <3>3. Alive' = Alive \cup reserved
      BY <3>1 DEF Alive, Mark, TypeOK, NodesTypeOK
    <3>4. QED
      BY <2>1, <2>2, <3>2, <3>3
         DEF Recorded, ProcessesOnBootstrappedNodes, NoVmUnaccounted
  <2>4. CASE ~ (Cardinality(ready) >= MinVms)
    <3>1. PICK destroyed \in SUBSET ready :
            /\ "api" \notin FaultKinds => destroyed = ready
            /\ vm' = Mark(Mark(vm, reserved, "running"), destroyed, "gone")
            /\ UNCHANGED created
      BY <1>2, <2>4 DEF CreateVms
    <3>2. Alive' \subseteq Alive \cup (reserved \ destroyed)
      BY <3>1 DEF Alive, Mark, TypeOK, NodesTypeOK
    <3>3. CreatedNodes' = CreatedNodes
      BY <3>1 DEF CreatedNodes
    <3>4. QED
      BY <2>1, <2>2, <3>1, <3>2, <3>3
         DEF Recorded, ProcessesOnBootstrappedNodes, NoVmUnaccounted
  <2>5. QED
    BY <2>3, <2>4
<1>3. ASSUME NEW nodes \in SUBSET Vms, StartBootstrap(nodes) PROVE Recorded'
  BY <1>3, RecordedFrame DEF StartBootstrap, Alive
<1>4. ASSUME NEW nodes \in SUBSET Vms, NEW done \in SUBSET Vms,
             CompleteBootstrap(nodes, done)
      PROVE  Recorded'
  <2>1. nodes \subseteq CreatedNodes /\ done \subseteq nodes
    BY <1>4 DEF CompleteBootstrap, Registered
  <2>2. /\ bootstrapped' = bootstrapped \cup done
        /\ created' \in {created, Mark(created, CreatedNodes \ nodes, "failed")}
        /\ UNCHANGED <<vm, createDone, runFinished, place>>
    BY <1>4 DEF CompleteBootstrap
  <2>3. CreatedNodes' = CreatedNodes
    BY <2>2 DEF CreatedNodes, Mark, TypeOK, NodesTypeOK
  <2>4. QED
    BY <2>1, <2>2, <2>3
       DEF Recorded, ProcessesOnBootstrappedNodes, NoVmUnaccounted, Alive
<1>5. QED
  BY <1>1, <1>2, <1>3, <1>4 DEF NodeStage

\* So do the stages about processes.
LEMMA ProcessStageRecorded ==
  ASSUME TypeOK, Order, Recorded, ProcessStage
  PROVE  Recorded'
<1> USE DEF nodeVars, createVars, bootVars, worldVars, processVars, tableVars,
            recordVars
<1>1. ASSUME NEW nodes \in SUBSET bootstrapped,
             NEW commanded \in SUBSET bootstrapped, NEW procs \in 1 .. MaxProcs,
             NEW placing \in
               [scheduleIndex + 1 .. scheduleIndex + procs -> nodes],
             StartSchedule(nodes, procs, commanded, placing)
      PROVE  Recorded'
  <2>1. /\ place' = [p \in Ids |->
                       IF p \in scheduleIndex + 1 .. scheduleIndex + procs
                       THEN placing[p] ELSE place[p]]
        /\ UNCHANGED nodeVars
    BY <1>1 DEF StartSchedule
  <2>2. ProcessesOnBootstrappedNodes'
    BY <2>1 DEF Recorded, ProcessesOnBootstrappedNodes, CreatedNodes
  <2>3. QED
    BY <2>1, <2>2 DEF Recorded, NoVmUnaccounted, CreatedNodes, Alive
<1>2. ASSUME NEW nodes \in SUBSET Vms, CompleteSchedule(nodes) PROVE Recorded'
  BY <1>2, RecordedFrame DEF CompleteSchedule, Alive
<1>3. ASSUME NEW started \in SUBSET Ids, Execute(started) PROVE Recorded'
  BY <1>3, RecordedFrame DEF Execute, Alive
<1>4. CASE Wait
  BY <1>4, RecordedFrame DEF Wait, Alive
<1>5. CASE Transform
  BY <1>5, RecordedFrame DEF Transform, Alive
<1>6. ASSUME NEW done \in BOOLEAN, Converge(done) PROVE Recorded'
  BY <1>6, RecordedFrame DEF Converge, Alive
<1>7. ASSUME NEW nodes \in SUBSET Vms, Destroy(nodes) PROVE Recorded'
  <2>1. createDone
    BY <1>7, NoValueAssumption
       DEF Destroy, DestroyTriggered, Order
  <2>2. /\ vm' = Mark(vm, nodes, "gone")
        /\ created' = Mark(created, RunningCreated, "terminated")
        /\ UNCHANGED <<createDone, bootstrapped, place>>
        /\ "api" \notin FaultKinds => nodes = CreatedNodes \cap Alive
    BY <1>7 DEF Destroy, DestroyNodes, TerminateVms, Registered, Fault
  <2>3. CreatedNodes' = CreatedNodes
    BY <2>2 DEF CreatedNodes, RunningCreated, Mark, TypeOK, NodesTypeOK
  <2>4. Alive' = Alive \ nodes
    BY <2>2 DEF Alive, Mark, TypeOK, NodesTypeOK
  <2>5. QED
    BY <2>1, <2>2, <2>3, <2>4
       DEF Recorded, ProcessesOnBootstrappedNodes, NoVmUnaccounted
<1>8. QED
  BY <1>1, <1>2, <1>3, <1>4, <1>5, <1>6, <1>7 DEF ProcessStage

\* So do all other steps.
LEMMA OtherRecorded ==
  ASSUME TypeOK, Recorded, Next, ~ProcessStage,
         ~ (NodeStage /\ UNCHANGED <<processVars, deleted>>)
  PROVE  Recorded'
<1> USE DEF nodeVars, createVars, bootVars, worldVars, processVars, tableVars,
            recordVars, Alive
<1>1. CASE EndOfJob
  <2>1. Delete
    BY <1>1 DEF EndOfJob, NothingTriggered, BootstrapRaises, ScheduleRaises,
                ExecuteRaises, ProcessFails, StageRaises
  <2>2. QED
    BY <2>1, RecordedFrame DEF Delete
<1>2. CASE UserDelete
  BY <1>2, RecordedFrame DEF UserDelete, Delete
<1>3. CASE Killed
  <2>1. ASSUME NEW reserved \in SUBSET Vms, KilledInCreate(reserved),
               UNCHANGED processVars
        PROVE  Recorded'
    <3>1. "kill" \in FaultKinds /\ UNCHANGED recordVars
      BY <2>1 DEF KilledInCreate, Fault
    <3>2. QED
      BY <3>1 DEF Recorded, ProcessesOnBootstrappedNodes, NoVmUnaccounted,
                  CreatedNodes
  <2>2. ASSUME NEW nodes \in SUBSET Vms, KilledInDestroy(nodes),
               UNCHANGED processVars
        PROVE  Recorded'
    <3>1. UNCHANGED recordVars /\ vm' = Mark(vm, nodes, "gone")
      BY <2>2 DEF KilledInDestroy
    <3>2. Alive' \subseteq Alive
      BY <3>1 DEF Mark, TypeOK, NodesTypeOK
    <3>3. QED
      BY <3>1, <3>2, RecordedFrame
  <2>3. CASE KilledInBootstrap /\ UNCHANGED processVars
    BY <2>3, RecordedFrame DEF KilledInBootstrap
  <2>4. CASE KilledInSchedule
    BY <2>4, RecordedFrame DEF KilledInSchedule
  <2>5. CASE KilledInExecute
    BY <2>5, RecordedFrame DEF KilledInExecute
  <2>6. QED
    BY <1>3, <2>1, <2>2, <2>3, <2>4, <2>5 DEF Killed
<1>4. CASE Machines
  BY <1>4, RecordedFrame DEF Machines, ScheduleMakeEnds, ProgramStops,
     BootstrapMakeEnds
<1>5. ASSUME NEW v \in Vms, Terminate(v), UNCHANGED processVars PROVE Recorded'
  <2>1. Alive' \subseteq Alive
    BY <1>5 DEF Terminate, TypeOK, NodesTypeOK
  <2>2. QED
    BY <1>5, <2>1, RecordedFrame DEF Terminate
<1>6. QED
  BY <1>1, <1>2, <1>3, <1>4, <1>5, Next DEF Next, Pass

\* Every node that runs for the job is on record, in every state.
THEOREM RecordedInvariant == Spec => []Recorded
<1>1. Init => Recorded
  BY DEF Init, NodesInit, Recorded, ProcessesOnBootstrappedNodes,
     NoVmUnaccounted, Alive, CreatedNodes
<1>2. TypeOK /\ Order /\ Recorded /\ [Next]_vars => Recorded'
  <2> SUFFICES ASSUME TypeOK, Order, Recorded, [Next]_vars PROVE Recorded'
    OBVIOUS
  <2>1. CASE UNCHANGED vars
    BY <2>1, RecordedFrame DEF vars, recordVars, nodeVars, worldVars,
       createVars, bootVars, processVars, tableVars, Alive
  <2>2. CASE Next
    BY <2>2, NodeStageRecorded, ProcessStageRecorded, OtherRecorded
  <2>3. QED
    BY <2>1, <2>2
<1>3. QED
  BY <1>1, <1>2, TypeCorrect, OrderInvariant, PTL DEF Spec

(***************************************************************************)
(* Every process is on a machine that was bootstrapped and that destroy    *)
(* knows of, whatever fails.                                               *)
(***************************************************************************)
THEOREM ProcessesAreReachable == Spec => []ProcessesOnBootstrappedNodes
<1>1. Recorded => ProcessesOnBootstrappedNodes
  BY DEF Recorded
<1>2. QED
  BY <1>1, RecordedInvariant, PTL

(***************************************************************************)
(* Without failures of ssh, the API and workers each running machine is    *)
(* recorded, and none runs after destroy: machines may be lost, stages     *)
(* raise and users delete jobs.                                            *)
(***************************************************************************)
THEOREM MachinesAreAccounted == Spec => []NoVmUnaccounted
<1>1. Recorded => NoVmUnaccounted
  BY DEF Recorded
<1>2. QED
  BY <1>1, RecordedInvariant, PTL

=============================================================================
