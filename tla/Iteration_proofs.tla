-------------------------- MODULE Iteration_proofs --------------------------
(***************************************************************************)
(* Proofs about the processes of an iteration (SmartConnector): the tables *)
(* and counters that schedule, execute and wait keep separately agree,     *)
(* an iteration is transformed only when each of its processes stopped,    *)
(* inputs meet their processes, and programs run once.                     *)
(***************************************************************************)
EXTENDS SmartConnector_proofs

Completed == WithStatus(currentProcs, "completed")

(***************************************************************************)
(* The inductive invariant, on top of TypeOK and Order.  Execute adds to   *)
(* the running processes and wait takes from them, each with a number of   *)
(* its own: they meet because execute is not triggered again once a        *)
(* process is completed, and because finished_nodes is exactly the list of *)
(* the completed ones for as long as runs_left is not zero.                *)
(***************************************************************************)
TablesMatch ==
  /\ \A p \in Issued : allProcs[p] = IF p \in Current THEN currentProcs[p]
                                                      ELSE "completed"
  /\ Current \subseteq Issued

RunCounts ==
  /\ ~scheduleStarted => Current = {}
  /\ scheduleCompleted => Current # {}
  /\ runsLeft = NoValue => Completed = {}
  /\ Ready # {} => Completed = {}
  /\ runsLeft \in {NoValue, 0} => finished = {}
  /\ runsLeft \notin {NoValue, 0} => finished = Completed
  /\ \A p \in Completed : program[p] = "stopped"
  /\ transformed \/ converged => Current # {} /\ Current = Completed
  /\ TablesMatch
  /\ RunsLeftCountsRunning

Counts == RunCounts /\ Issued = 1 .. scheduleIndex

countVars == <<scheduleStarted, scheduleCompleted, runsLeft, finished,
               transformed, converged, currentProcs, allProcs>>

(* RunCounts depends on programs only where they are completed.            *)
LEMMA RunCountsFrame ==
  ASSUME RunCounts, UNCHANGED countVars,
         \A p \in Completed : program'[p] = program[p]
  PROVE  RunCounts' /\ Issued' = Issued /\ Current' = Current
BY DEF RunCounts, countVars, Completed, Current, Ready, Running, WithStatus,
       Issued, TablesMatch, RunsLeftCountsRunning

(* What TypeOK says of the tables.                                         *)
LEMMA TablesType ==
  ASSUME TypeOK
  PROVE  /\ currentProcs \in [Ids -> {"none", "ready", "running", "completed"}]
         /\ allProcs \in [Ids -> {"none", "ready", "running", "completed"}]
         /\ scheduleIndex \in Nat
         /\ Current = Ready \cup Running \cup Completed
         /\ Ready \cap Running = {} /\ Ready \cap Completed = {}
         /\ Running \cap Completed = {}
         /\ Current \in SUBSET Ids /\ Running \in SUBSET Ids
         /\ Completed \in SUBSET Ids /\ Ready \in SUBSET Ids
BY DEF TypeOK, Status, Current, Ready, Running, Completed, WithStatus

\* Two sets of processes without a common one.
LEMMA DisjointIds ==
  ASSUME NEW S \in SUBSET Ids, NEW T \in SUBSET Ids, S \cap T = {}
  PROVE  Cardinality(S \cup T) = Cardinality(S) + Cardinality(T)
<1>1. IsFiniteSet(S) /\ IsFiniteSet(T) BY IdsFinite
<1>2. Cardinality(S) \in Nat /\ Cardinality(T) \in Nat BY IdsFinite
<1>3. Cardinality(S \cap T) = 0 BY FS_EmptySet
<1>4. Cardinality(S \cup T)
        = Cardinality(S) + Cardinality(T) - Cardinality(S \cap T)
  BY <1>1, FS_Union
<1> QED BY <1>2, <1>3, <1>4

(* A number of processes is no absent value, and zero only without any.    *)
LEMMA CountIsValue ==
  ASSUME NEW S \in SUBSET Ids
  PROVE  /\ Cardinality(S) \in Nat /\ Cardinality(S) # NoValue
         /\ Cardinality(S) = 0 <=> S = {}
BY IdsFinite, FS_EmptySet, NoValueAssumption

(* The tables agree when the ids are those up to the index.                *)
LEMMA IndexedTablesAgree ==
  ASSUME TypeOK, TablesMatch, Issued = 1 .. scheduleIndex
  PROVE  TablesAgree
<1> SUFFICES ASSUME NEW p \in Ids
             PROVE  allProcs[p] =
                      IF p > scheduleIndex THEN "none"
                      ELSE IF p \in Current THEN currentProcs[p]
                      ELSE "completed"
  BY DEF TablesAgree
<1>1. p \in Issued <=> ~ (p > scheduleIndex)
  BY TablesType, ProcsAssumption DEF Ids
<1> QED BY <1>1 DEF TablesMatch, Issued

(* Both tables marked alike still match.                                   *)
LEMMA MarkMatches ==
  ASSUME TypeOK, TablesMatch, NEW S \in SUBSET Current,
         NEW status \in {"running", "completed"},
         currentProcs' = Mark(currentProcs, S, status),
         allProcs' = Mark(allProcs, S, status)
  PROVE  TablesMatch' /\ Current' = Current /\ Issued' = Issued
<1>1. S \subseteq Issued BY DEF TablesMatch
<1>2. Current' = Current BY TablesType DEF Current, Mark
<1>3. Issued' = Issued BY <1>1, TablesType DEF Issued, Mark
<1> QED BY <1>1, <1>2, <1>3, TablesType DEF TablesMatch, Mark, Issued

(* New processes come in when there are none, and no counter is set.       *)
LEMMA NewProcessesCount ==
  ASSUME TypeOK, RunCounts, NEW new \in SUBSET Ids, new # {},
         new \cap Issued = {}, Current = {},
         runsLeft = NoValue, ~transformed, ~converged,
         allProcs' = Mark(allProcs, new, "ready"),
         currentProcs' = [p \in Ids |-> IF p \in new THEN "ready" ELSE "none"],
         scheduleStarted', UNCHANGED <<runsLeft, finished, iterationVars>>
  PROVE  /\ RunCounts'
         /\ Current' = new /\ Ready' = new /\ Running' = {}
         /\ Issued' = Issued \cup new
<1>1. /\ Current' = new /\ Ready' = new /\ Completed' = {} /\ Running' = {}
  BY DEF Current, Ready, Completed, Running, WithStatus
<1>2. Issued' = Issued \cup new BY TablesType DEF Issued, Mark
<1>3. TablesMatch'
  BY <1>1, <1>2, TablesType DEF RunCounts, TablesMatch, Issued, Mark
<1>4. finished' = {} /\ runsLeft' = NoValue BY DEF RunCounts
<1> QED BY <1>1, <1>2, <1>3, <1>4
        DEF RunCounts, RunsLeftCountsRunning, iterationVars

\* Starting a schedule makes its processes ready, with fresh numbers.
LEMMA StartScheduleCounts ==
  ASSUME TypeOK, Order, RunCounts, Issued = 1 .. scheduleIndex,
         NEW procs \in 1 .. MaxProcs, ~scheduleStarted, scheduleStarted',
         scheduleIndex + procs <= MaxIds,
         allProcs' = Mark(allProcs, scheduleIndex + 1 .. scheduleIndex + procs,
                          "ready"),
         currentProcs' = [p \in Ids |->
                            IF p \in scheduleIndex + 1 .. scheduleIndex + procs
                            THEN "ready" ELSE "none"],
         scheduleIndex' = scheduleIndex + procs,
         UNCHANGED <<runsLeft, finished, iterationVars>>
  PROVE  /\ Counts' /\ Current = {} /\ Ready' # {}
         /\ Ready' \cap Issued = {} /\ Running' = {}
         /\ Issued' = Issued \cup Ready'
<1> DEFINE new == scheduleIndex + 1 .. scheduleIndex + procs
<1>1. Current = {} BY DEF RunCounts
<1>2. scheduleIndex \in Nat /\ procs \in Nat \ {0}
  BY TablesType, ProcsAssumption
<1>3. /\ new \in SUBSET Ids /\ new \cap (1 .. scheduleIndex) = {}
      /\ 1 .. scheduleIndex + procs = (1 .. scheduleIndex) \cup new
  BY <1>2, ProcsAssumption DEF Ids
<1>4. new # {}
  <2>1. scheduleIndex + 1 \in new BY <1>2
  <2> QED BY <2>1
<1>5. runsLeft = NoValue /\ ~transformed /\ ~converged
  BY NoValueAssumption DEF Order
<1> HIDE DEF new
<1>6. /\ RunCounts' /\ Issued' = Issued \cup new
      /\ Current' = new /\ Ready' = new /\ Running' = {}
  BY <1>1, <1>3, <1>4, <1>5, NewProcessesCount DEF new
<1> QED BY <1>1, <1>3, <1>4, <1>6 DEF Counts, new

(* Machines that are counted are no news about the processes.              *)
LEMMA CompleteScheduleCounts ==
  ASSUME TypeOK, Order, TotalIsCurrent, Counts, NEW nodes,
         CompleteSchedule(nodes)
  PROVE  Counts'
<1>1. /\ scheduleStarted /\ scheduleStarted'
      /\ UNCHANGED <<program, scheduleIndex, totalProcesses, tableVars, runVars,
                     iterationVars>>
  BY DEF CompleteSchedule
<1>2. Current # {}
  BY <1>1, FS_EmptySet DEF TotalIsCurrent, Order
<1>3. /\ Current' = Current /\ Completed' = Completed /\ Ready' = Ready
      /\ Running' = Running /\ Issued' = Issued
  BY <1>1 DEF Current, Completed, Ready, Running, Issued, WithStatus, tableVars
<1> QED BY <1>1, <1>2, <1>3
        DEF Counts, RunCounts, TablesMatch, RunsLeftCountsRunning,
            tableVars, runVars, iterationVars

(* Execute runs before any process of the iteration is completed.          *)
LEMMA ExecuteCounts ==
  ASSUME TypeOK, Order, RunCounts, NEW started \in SUBSET Ready,
         ExecuteTriggered,
         currentProcs' = Mark(currentProcs, started, "running"),
         allProcs' = Mark(allProcs, started, "running"),
         runsLeft' = Cardinality(WithStatus(currentProcs', "running")),
         UNCHANGED <<scheduleVars, finished, iterationVars>>
  PROVE  RunCounts' /\ Issued' = Issued /\ Current' = Current
<1>1. scheduleCompleted /\ (executed => Ready # {}) BY DEF ExecuteTriggered
<1>2. Completed = {} /\ finished = {}
  BY <1>1 DEF RunCounts, Order
<1>3. ~transformed /\ ~converged BY <1>1, NoValueAssumption DEF Order
<1>4. TablesMatch' /\ Current' = Current /\ Issued' = Issued
  BY TablesType, MarkMatches DEF RunCounts
<1>5. Completed' = {}
  BY <1>2, TablesType DEF Completed, Ready, WithStatus, Mark
<1>6. runsLeft' = Cardinality(Running') BY DEF Running, WithStatus
<1>7. runsLeft' # NoValue
  <2>1. Running' \in SUBSET Ids BY DEF Running, WithStatus
  <2> QED BY <2>1, <1>6, CountIsValue
<1> QED BY <1>1, <1>2, <1>3, <1>4, <1>5, <1>6, <1>7
        DEF RunCounts, RunsLeftCountsRunning, iterationVars, scheduleVars

(* Wait moves stopped processes from the running to the completed ones,    *)
(* and its difference of lengths is the number of those that remain.       *)
LEMMA WaitCounts ==
  ASSUME TypeOK, Order, RunCounts, Wait
  PROVE  RunCounts' /\ Issued' = Issued /\ Current' = Current
<1> DEFINE stopped == {p \in Running : program[p] = "stopped"}
<1>1. /\ executed /\ Ready = {} /\ runsLeft \notin {NoValue, 0}
      /\ currentProcs' = Mark(currentProcs, stopped, "completed")
      /\ allProcs' = Mark(allProcs, stopped, "completed")
      /\ runsLeft' = Cardinality({p \in Current : currentProcs[p] # "ready"})
                       - Cardinality(finished \cup stopped)
      /\ finished' = IF runsLeft' = 0 THEN {} ELSE finished \cup stopped
      /\ UNCHANGED <<program, scheduleVars, iterationVars>>
  BY DEF Wait, WaitTriggered, Complete, StoreFinished
<1>2. finished = Completed BY <1>1 DEF RunCounts
<1>3. ~transformed /\ ~converged BY <1>1 DEF Order
<1>4. TablesMatch' /\ Current' = Current /\ Issued' = Issued
  BY <1>1, TablesType, MarkMatches DEF RunCounts
<1>5. /\ Ready' = {}
      /\ Completed' = Completed \cup stopped
      /\ Running' = Running \ stopped
  BY <1>1, TablesType DEF Completed, Ready, Running, WithStatus, Mark
<1>6. runsLeft' = Cardinality(Running')
  <2>1. {p \in Current : currentProcs[p] # "ready"} = Running' \cup Completed'
    BY <1>1, <1>5, TablesType DEF Ready, WithStatus
  <2>2. Running' \cap Completed' = {} BY <1>5, TablesType
  <2>3. /\ Running' \in SUBSET Ids
        /\ Completed' \in SUBSET Ids
    BY DEF Running, Completed, WithStatus
  <2>4. Cardinality(Running' \cup Completed')
          = Cardinality(Running') + Cardinality(Completed')
    BY <2>2, <2>3, DisjointIds
  <2>5. Cardinality(Running') \in Nat /\ Cardinality(Completed') \in Nat
    BY <2>3, IdsFinite
  <2>6. Cardinality(Running' \cup Completed') - Cardinality(Completed')
          = Cardinality(Running')
    BY <2>4, <2>5
  <2>7. finished \cup stopped = Completed' BY <1>2, <1>5
  <2> QED BY <1>1, <2>1, <2>6, <2>7
<1>7. runsLeft' # NoValue
  <2>1. Running' \in SUBSET Ids BY DEF Running, WithStatus
  <2> QED BY <2>1, <1>6, CountIsValue
<1>8. \A p \in Completed' : program'[p] = "stopped"
  BY <1>1, <1>5 DEF RunCounts
<1>9. finished' = IF runsLeft' = 0 THEN {} ELSE Completed'
  BY <1>1, <1>2, <1>5
<1> QED BY <1>1, <1>3, <1>4, <1>5, <1>6, <1>7, <1>8, <1>9
        DEF RunCounts, RunsLeftCountsRunning, iterationVars, scheduleVars

(* Transform finds nothing ready and nothing running.                      *)
LEMMA TransformCounts ==
  ASSUME TypeOK, Order, RunCounts, Transform
  PROVE  RunCounts' /\ Issued' = Issued /\ Current' = Current
<1>1. /\ Ready = {} /\ runsLeft = 0 /\ transformed'
      /\ UNCHANGED <<program, scheduleVars, tableVars, runVars, converged>>
  BY DEF Transform, TransformTriggered
<1>2. Running = {}
  BY <1>1, NoValueAssumption, TablesType, CountIsValue
     DEF RunCounts, RunsLeftCountsRunning
<1>3. Current # {}
  BY <1>1, NoValueAssumption DEF Order, RunCounts
<1>4. Current = Completed BY <1>1, <1>2, TablesType
<1>5. /\ Current' = Current /\ Completed' = Completed /\ Ready' = Ready
      /\ Running' = Running /\ Issued' = Issued
  BY <1>1 DEF Current, Completed, Ready, Running, WithStatus, tableVars, Issued
<1>6. TablesMatch' /\ RunsLeftCountsRunning'
  BY <1>1, <1>5 DEF RunCounts, TablesMatch, RunsLeftCountsRunning, tableVars,
                    runVars
<1> QED BY <1>1, <1>3, <1>4, <1>5, <1>6
        DEF RunCounts, scheduleVars, tableVars, runVars

(* Converge starts the next iteration with empty tables.                   *)
LEMMA ConvergeCounts ==
  ASSUME TypeOK, Order, RunCounts, NEW done \in BOOLEAN, Converge(done)
  PROVE  RunCounts' /\ Issued' = Issued /\ (done => Current' = Current)
<1>1. /\ transformed /\ ~transformed' /\ (converged' <=> done)
      /\ UNCHANGED <<program, allProcs, finished>>
  BY DEF Converge, ConvergeTriggered
<1>2. Issued' = Issued BY <1>1 DEF Issued
<1>3. CASE done
  <2>1. UNCHANGED <<scheduleVars, currentProcs, runsLeft>>
    BY <1>3 DEF Converge
  <2>2. /\ Current' = Current /\ Completed' = Completed /\ Ready' = Ready
        /\ Running' = Running
    BY <2>1 DEF Current, Completed, Ready, Running, WithStatus
  <2>3. TablesMatch' /\ RunsLeftCountsRunning'
    BY <1>1, <1>2, <2>1, <2>2 DEF RunCounts, TablesMatch, RunsLeftCountsRunning
  <2> QED BY <1>1, <1>2, <2>1, <2>2, <2>3 DEF RunCounts, scheduleVars
<1>4. CASE ~done
  <2>1. /\ currentProcs' = [p \in Ids |-> "none"]
        /\ runsLeft' = NoValue /\ ~scheduleCompleted'
    BY <1>4 DEF Converge, NextIteration, ResetSchedule
  <2>2. Current' = {} /\ Completed' = {} /\ Ready' = {}
    BY <2>1 DEF Current, Completed, Ready, WithStatus
  <2>3. finished = {} BY <1>1 DEF RunCounts, Order
  <2>4. TablesMatch'
    <3>1. \A p \in Current : currentProcs[p] = "completed"
      BY <1>1 DEF RunCounts, Completed, WithStatus
    <3> QED BY <1>1, <1>2, <2>2, <3>1 DEF RunCounts, TablesMatch
  <2> QED BY <1>1, <1>2, <1>4, <2>1, <2>2, <2>3, <2>4
          DEF RunCounts, RunsLeftCountsRunning
<1> QED BY <1>3, <1>4

(* The stages that run processes keep tables and counters right.           *)
LEMMA ProcessStageCounts ==
  ASSUME TypeOK, Order, TotalIsCurrent, Counts, ProcessStage
  PROVE  Counts'
<1> USE DEF Counts
<1>1. ASSUME NEW nodes, NEW commanded, NEW procs \in 1 .. MaxProcs,
             NEW placing, StartSchedule(nodes, procs, commanded, placing)
      PROVE  Counts'
  BY <1>1, StartScheduleCounts DEF StartSchedule, runVars
<1>2. ASSUME NEW nodes, CompleteSchedule(nodes) PROVE Counts'
  BY <1>2, CompleteScheduleCounts
<1>3. ASSUME NEW started, Execute(started) PROVE Counts'
  <2>1. /\ started \in SUBSET Ready /\ ExecuteTriggered
        /\ currentProcs' = Mark(currentProcs, started, "running")
        /\ allProcs' = Mark(allProcs, started, "running")
        /\ runsLeft' = Cardinality(WithStatus(currentProcs', "running"))
        /\ UNCHANGED <<scheduleVars, finished, iterationVars>>
    BY <1>3 DEF Execute
  <2> QED BY <2>1, ExecuteCounts DEF scheduleVars
<1>4. CASE Wait BY <1>4, WaitCounts DEF Wait, scheduleVars
<1>5. CASE Transform
  BY <1>5, TransformCounts DEF Transform, scheduleVars
<1>6. ASSUME NEW done \in BOOLEAN, Converge(done) PROVE Counts'
  BY <1>6, ConvergeCounts
     DEF Converge, NextIteration, ResetSchedule, scheduleVars
<1>7. ASSUME NEW nodes, Destroy(nodes) PROVE Counts'
  BY <1>7, RunCountsFrame DEF Destroy, countVars, processVars, scheduleVars,
                              tableVars, runVars, iterationVars
<1> QED BY <1>1, <1>2, <1>3, <1>4, <1>5, <1>6, <1>7 DEF ProcessStage

(* No other step touches the program of a process that is completed.       *)
LEMMA OtherCounts ==
  ASSUME TypeOK, RunCounts, Next, ~ProcessStage
  PROVE  RunCounts' /\ Issued' = Issued /\ Current' = Current
<1> USE DEF processVars
<1>1. UNCHANGED countVars
  BY OtherSettings DEF countVars, scheduleVars, tableVars, runVars,
     iterationVars
<1>2. ASSUME KilledInExecute, NEW p \in Completed PROVE program'[p] = program[p]
  <2>1. PICK started \in SUBSET {q \in Ready : place[q] \in Alive} :
          program' = Mark(program, started, "running")
    BY <1>2 DEF KilledInExecute, Start
  <2>2. p \notin started /\ p \in Ids
    BY TablesType
  <2> QED BY <2>1, <2>2 DEF Mark, TypeOK
<1>3. ASSUME NEW q \in Ids, ProgramStops(q), NEW p \in Completed
      PROVE  program'[p] = program[p]
  BY <1>3 DEF ProgramStops, RunCounts, TypeOK
<1>4. \A p \in Completed : program'[p] = program[p]
  BY <1>2, <1>3
     DEF Next, Pass, EndOfJob, NothingTriggered, BootstrapRaises,
         ScheduleRaises, ExecuteRaises, ProcessFails, StageRaises, Delete,
         UserDelete, Killed, KilledInSchedule, Machines, ScheduleMakeEnds
<1> QED BY <1>1, <1>4, RunCountsFrame

(* Initially there are no processes.                                       *)
LEMMA InitCounts ==
  ASSUME Init
  PROVE  Counts
<1>1. /\ Current = {} /\ Completed = {} /\ Ready = {} /\ Issued = {}
      /\ 1 .. scheduleIndex = {}
  BY DEF Init, Current, Completed, Ready, Issued, WithStatus
<1> QED BY <1>1
        DEF Init, Counts, RunCounts, TablesMatch,
            RunsLeftCountsRunning

-----------------------------------------------------------------------------
(* The tables and counters of a job are right in every reachable state.    *)
THEOREM CountsInvariant == Spec => []Counts
<1>1. Init => Counts BY InitCounts
<1>2. TypeOK /\ Order /\ TotalIsCurrent /\ Counts /\ [Next]_vars => Counts'
  <2> SUFFICES ASSUME TypeOK, Order, TotalIsCurrent, Counts, [Next]_vars
               PROVE  Counts'
    OBVIOUS
  <2> USE DEF Counts
  <2>1. CASE UNCHANGED vars
    BY <2>1, RunCountsFrame DEF vars, countVars, processVars, scheduleVars,
       tableVars, runVars, iterationVars
  <2>2. CASE ProcessStage
    BY <2>2, ProcessStageCounts
  <2>3. CASE Next /\ ~ProcessStage
    BY <2>3, OtherCounts, OtherSettings DEF scheduleVars
  <2> QED BY <2>1, <2>2, <2>3
<1> QED BY <1>1, <1>2, TypeCorrect, OrderInvariant, PTL DEF Spec

(***************************************************************************)
(* The two process tables always agree (TablesAgree), though each stage    *)
(* reads both from their texts and writes both back.                       *)
(***************************************************************************)
THEOREM TablesAlwaysAgree == Spec => []TablesAgree
<1>1. TypeOK /\ Counts => TablesAgree
  BY IndexedTablesAgree DEF Counts, RunCounts
<1> QED BY <1>1, TypeCorrect, CountsInvariant, PTL

(***************************************************************************)
(* runs_left is the number of running processes (RunsLeftCountsRunning);   *)
(* in particular it is never negative, which wait.py leaves open.          *)
(***************************************************************************)
THEOREM RunsLeftIsExact == Spec => []RunsLeftCountsRunning
<1>1. Counts => RunsLeftCountsRunning BY DEF Counts, RunCounts
<1> QED BY <1>1, CountsInvariant, PTL

(***************************************************************************)
(* An iteration is transformed only when each of its processes has stopped *)
(* and its output was fetched (TransformsCompleteIterations).              *)
(***************************************************************************)
THEOREM NoPrematureTransform == Spec => []TransformsCompleteIterations
<1>1. Counts => TransformsCompleteIterations
  BY DEF Counts, RunCounts, TransformsCompleteIterations, Completed,
         WithStatus
<1> QED BY <1>1, CountsInvariant, PTL

-----------------------------------------------------------------------------
(***************************************************************************)
(* Inputs.  Schedule numbers processes and execute numbers inputs, each    *)
(* with a counter of its own: they meet whenever no process waits to be    *)
(* started, and an iteration is started as a whole.                        *)
(***************************************************************************)
Numbering ==
  InputExists /\ "ssh" \notin FaultKinds =>
    /\ ~scheduleStarted \/ runsLeft # NoValue => numbfile = scheduleIndex + 1
    /\ scheduleStarted /\ runsLeft = NoValue =>
         /\ Ready = numbfile .. numbfile + totalProcesses - 1
         /\ numbfile + totalProcesses = scheduleIndex + 1
    /\ runsLeft # NoValue => Ready = {}

numberVars == <<scheduleStarted, scheduleIndex, totalProcesses, runsLeft,
                numbfile>>

\* A step that leaves the numbers alone keeps Numbering.
LEMMA NumberingFrame ==
  ASSUME Numbering, UNCHANGED numberVars, Ready' = Ready
  PROVE  Numbering'
BY DEF Numbering, numberVars

(* The steps of the processes; all others leave these settings alone.      *)
LEMMA StagesNumber ==
  ASSUME TypeOK, Order, Counts, Numbering, ProcessStage
  PROVE  Numbering'
<1> USE DEF numberVars, scheduleVars, tableVars, runVars, iterationVars,
            processVars
<1>1. ASSUME NEW nodes, NEW commanded, NEW procs \in 1 .. MaxProcs, NEW placing,
             StartSchedule(nodes, procs, commanded, placing)
      PROVE  Numbering'
  <2> DEFINE new == scheduleIndex + 1 .. scheduleIndex + procs
  <2>1. /\ currentProcs' = [p \in Ids |-> IF p \in new THEN "ready" ELSE "none"]
        /\ scheduleIndex' = scheduleIndex + procs /\ totalProcesses' = procs
        /\ scheduleIndex + procs <= MaxIds
        /\ scheduleStarted' /\ ~scheduleStarted
        /\ UNCHANGED <<runsLeft, numbfile>>
    BY <1>1 DEF StartSchedule
  <2>2. runsLeft = NoValue
    BY <2>1 DEF Order
  <2>3. scheduleIndex \in Nat /\ procs \in Nat
    BY TablesType
  <2>4. Ready' = new
    BY <2>1, <2>3, ProcsAssumption DEF Ready, WithStatus, Ids
  <2>5. QED
    BY <2>1, <2>2, <2>3, <2>4 DEF Numbering
<1>2. ASSUME NEW nodes, CompleteSchedule(nodes) PROVE Numbering'
  BY <1>2, NumberingFrame DEF CompleteSchedule, Ready, WithStatus
<1>3. ASSUME NEW started \in SUBSET Ids, Execute(started)
      PROVE  Numbering'
  <2> SUFFICES ASSUME InputExists, "ssh" \notin FaultKinds
               PROVE  Numbering'
    BY DEF Numbering
  <2>1. /\ executed => Ready # {}
        /\ scheduleCompleted /\ InputsPrepared
        /\ started = {p \in Ready : place[p] \in Alive}
        /\ currentProcs' = Mark(currentProcs, started, "running")
        /\ runsLeft' = Cardinality(WithStatus(currentProcs', "running"))
        /\ numbfile' = numbfile + totalProcesses
        /\ UNCHANGED scheduleVars
    BY <1>3 DEF Execute, ExecuteTriggered, NextInput, Fault
  <2>2. scheduleStarted /\ runsLeft = NoValue
    BY <2>1 DEF Order, Numbering
  <2>3. /\ Ready = numbfile .. numbfile + totalProcesses - 1
        /\ numbfile + totalProcesses = scheduleIndex + 1
    BY <2>2 DEF Numbering
  <2>4. started = Ready
    BY <2>1, <2>3 DEF InputsPrepared
  <2>5. Ready' = {}
    BY <2>1, <2>4, TablesType DEF Ready, WithStatus, Mark
  <2>6. runsLeft' # NoValue
    <3>1. WithStatus(currentProcs', "running") \in SUBSET Ids
      BY DEF WithStatus
    <3>2. QED
      BY <2>1, <3>1, IdsFinite, NoValueAssumption
  <2>7. QED
    BY <2>1, <2>3, <2>5, <2>6 DEF Numbering
<1>4. CASE Wait
  <2>1. PICK stopped \in SUBSET Running :
          /\ currentProcs' = Mark(currentProcs, stopped, "completed")
          /\ runsLeft' =
               Cardinality({p \in Current : currentProcs[p] # "ready"})
                 - Cardinality(finished \cup stopped)
          /\ UNCHANGED <<scheduleVars, numbfile>>
    BY <1>4 DEF Wait, Complete
  <2>2. Ready' = Ready
    BY <2>1, TablesType DEF Ready, Running, WithStatus, Mark
  <2>3. runsLeft # NoValue
    BY <1>4 DEF Wait, WaitTriggered
  <2>4. runsLeft' # NoValue
    <3>1. /\ {p \in Current : currentProcs[p] # "ready"} \in SUBSET Ids
          /\ finished \cup stopped \in SUBSET Ids
      BY <2>1, TablesType DEF TypeOK
    <3>2. QED
      BY <2>1, <3>1, IdsFinite, NoValueAssumption
  <2>5. QED
    BY <2>1, <2>2, <2>3, <2>4 DEF Numbering
<1>5. CASE Transform
  BY <1>5, NumberingFrame DEF Transform, Ready, WithStatus
<1>6. ASSUME NEW done \in BOOLEAN, Converge(done) PROVE Numbering'
  <2>1. CASE done
    BY <1>6, <2>1, NumberingFrame DEF Converge, Ready, WithStatus
  <2>2. CASE ~done
    <3>1. /\ ~scheduleStarted' /\ runsLeft' = NoValue
          /\ UNCHANGED <<numbfile, scheduleIndex>>
      BY <1>6, <2>2 DEF Converge, NextIteration, ResetSchedule
    <3>2. runsLeft # NoValue
      BY <1>6, NoValueAssumption DEF Converge, ConvergeTriggered, Order
    <3>3. QED
      BY <3>1, <3>2 DEF Numbering
  <2>3. QED
    BY <2>1, <2>2
<1>7. ASSUME NEW nodes, Destroy(nodes) PROVE Numbering'
  BY <1>7, NumberingFrame DEF Destroy, Ready, WithStatus
<1>8. QED
  BY <1>1, <1>2, <1>3, <1>4, <1>5, <1>6, <1>7, ProcessStage DEF ProcessStage

(***************************************************************************)
(* Where ssh does not fail, the next input is for the first of the         *)
(* processes that are to be started, in every iteration (InputsMatchIds).  *)
(***************************************************************************)
THEOREM InputsMeetProcesses == Spec => []InputsMatchIds
<1>1. Init => Numbering
  BY NoValueAssumption DEF Init, Numbering, Ready, WithStatus
<1>2. TypeOK /\ Order /\ Counts /\ Numbering /\ [Next]_vars => Numbering'
  <2> SUFFICES ASSUME TypeOK, Order, Counts, Numbering, [Next]_vars
               PROVE  Numbering'
    OBVIOUS
  <2>1. CASE ProcessStage
    BY <2>1, StagesNumber
  <2>2. CASE UNCHANGED <<scheduleVars, tableVars, runVars>>
    BY <2>2, NumberingFrame DEF numberVars, scheduleVars, tableVars, runVars,
       Ready, WithStatus
  <2>3. QED
    BY <2>1, <2>2, OtherSettings DEF vars, processVars
<1>3. Order /\ Numbering => InputsMatchIds
  BY DEF Order, Numbering, InputsMatchIds
<1>4. QED
  BY <1>1, <1>2, <1>3, TypeCorrect, OrderInvariant, CountsInvariant, PTL
     DEF Spec

-----------------------------------------------------------------------------
(***************************************************************************)
(* Programs.  A process that was not started has not run, unless a worker  *)
(* was killed after it started programs and before it could say so.        *)
(***************************************************************************)
IdleUntilStarted ==
  "kill" \notin FaultKinds =>
    \A p \in Ids : allProcs[p] \in {"none", "ready"} => program[p] = "idle"

\* A process that is ready to execute has not been started.
LEMMA ReadyAreIdle ==
  ASSUME TypeOK, RunCounts, IdleUntilStarted, "kill" \notin FaultKinds
  PROVE  \A p \in Ready : program[p] = "idle"
<1> SUFFICES ASSUME NEW p \in Ready
             PROVE  allProcs[p] = "ready" /\ p \in Ids
  BY DEF IdleUntilStarted
<1>1. p \in Current /\ currentProcs[p] = "ready" /\ p \in Ids
  BY DEF Ready, Current, WithStatus
<1>2. QED
  BY <1>1 DEF RunCounts, TablesMatch

\* Every step keeps unstarted processes idle.
LEMMA IdleStep ==
  ASSUME TypeOK, Counts, IdleUntilStarted, [Next]_vars
  PROVE  IdleUntilStarted'
<1> USE DEF nodeVars, processVars, tableVars
<1> SUFFICES ASSUME "kill" \notin FaultKinds PROVE IdleUntilStarted'
  BY DEF IdleUntilStarted
<1>1. CASE UNCHANGED <<allProcs, program>>
  BY <1>1 DEF IdleUntilStarted
<1>2. ASSUME NEW nodes, NEW commanded, NEW procs \in 1 .. MaxProcs, NEW placing,
             StartSchedule(nodes, procs, commanded, placing)
      PROVE  IdleUntilStarted'
  <2>1. /\ allProcs' = Mark(allProcs,
                            scheduleIndex + 1 .. scheduleIndex + procs, "ready")
        /\ UNCHANGED program
    BY <1>2 DEF StartSchedule
  <2>2. ASSUME NEW p \in scheduleIndex + 1 .. scheduleIndex + procs, p \in Ids
        PROVE  allProcs[p] = "none"
    BY <2>2, TablesType DEF Counts, Issued
  <2>3. QED
    BY <2>1, <2>2, TablesType DEF IdleUntilStarted, Mark
<1>3. ASSUME NEW started, Execute(started) PROVE IdleUntilStarted'
  <2>1. /\ allProcs' = Mark(allProcs, started, "running")
        /\ program' = Mark(program, started, "running")
    BY <1>3 DEF Execute, Start
  <2>2. QED
    BY <2>1, TablesType DEF IdleUntilStarted, Mark, TypeOK
<1>4. CASE Wait
  <2>1. /\ UNCHANGED program
        /\ \E stopped : allProcs' = Mark(allProcs, stopped, "completed")
    BY <1>4 DEF Wait, Complete
  <2>2. QED
    BY <2>1, TablesType DEF IdleUntilStarted, Mark
<1>5. ASSUME NEW p \in Ids, ProgramStops(p) PROVE IdleUntilStarted'
  BY <1>5 DEF ProgramStops, IdleUntilStarted, TypeOK
<1>6. QED
  BY <1>1, <1>2, <1>3, <1>4, <1>5
     DEF Next, Pass, ProcessStage, CompleteSchedule, Transform, Converge,
         Destroy, EndOfJob, NothingTriggered, BootstrapRaises, ScheduleRaises,
         ExecuteRaises, ProcessFails, StageRaises, Delete, UserDelete, Killed,
         KilledInSchedule, KilledInExecute, Fault, Machines, ScheduleMakeEnds,
         vars

(***************************************************************************)
(* A program that has run to its end is not started again in any           *)
(* iteration, unless workers are killed (ProgramsRunOnce).                 *)
(***************************************************************************)
THEOREM NoProgramRunsTwice == Spec => ProgramsRunOnce
<1> DEFINE Once == \A p \in Ids :
                     "kill" \notin FaultKinds /\ program[p] = "stopped"
                       => program'[p] = "stopped"
<1>1. Init => IdleUntilStarted
  BY DEF Init, IdleUntilStarted
<1>2. TypeOK /\ Counts /\ IdleUntilStarted /\ [Next]_vars => IdleUntilStarted'
  BY IdleStep
<1>3. TypeOK /\ Counts /\ IdleUntilStarted /\ [Next]_vars => [Once]_vars
  <2> SUFFICES ASSUME TypeOK, Counts, IdleUntilStarted, Next,
                      NEW p \in Ids, "kill" \notin FaultKinds,
                      program[p] = "stopped"
               PROVE  program'[p] = "stopped"
    OBVIOUS
  <2>1. CASE UNCHANGED program
    BY <2>1
  <2>2. ASSUME NEW started, Execute(started) PROVE program'[p] = "stopped"
    <3>1. /\ program' = Mark(program, started, "running")
          /\ started \subseteq Ready
      BY <2>2 DEF Execute, Start
    <3>2. p \notin started
      BY <3>1, ReadyAreIdle DEF Counts
    <3>3. QED
      BY <3>1, <3>2 DEF Mark, TypeOK
  <2>3. ASSUME NEW q \in Ids, ProgramStops(q) PROVE program'[p] = "stopped"
    BY <2>3 DEF ProgramStops, TypeOK
  <2>4. QED
    BY <2>1, <2>2, <2>3
       DEF Next, Pass, NodeStage, ProcessStage, StartSchedule,
           CompleteSchedule, Wait, Transform, Converge, Destroy, EndOfJob,
           NothingTriggered, BootstrapRaises, ScheduleRaises, ExecuteRaises,
           ProcessFails, StageRaises, Delete, UserDelete, Killed,
           KilledInSchedule, KilledInExecute, Fault, Machines,
           ScheduleMakeEnds, processVars
<1>4. QED
  BY <1>1, <1>2, <1>3, TypeCorrect, CountsInvariant, PTL
     DEF Spec, ProgramsRunOnce

-----------------------------------------------------------------------------
(***************************************************************************)
(* Lifecycle.  What the order of the stages and the counts leave open:     *)
(* after each stage the next one really has its turn.                      *)
(***************************************************************************)
Turns ==
  /\ ~scheduleStarted => totalScheduled = 0
  /\ scheduleStarted /\ ~scheduleCompleted => totalScheduled # totalProcesses
  /\ bootDone /\ ~runFinished => RunningCreated # {} /\ bootstrapped # {}
  /\ runFinished => converged
  /\ runsLeft = NoValue => Running = {}

turnVars == <<scheduleStarted, scheduleCompleted, totalScheduled,
              totalProcesses, bootDone, runFinished, bootstrapped, created,
              converged, runsLeft>>

\* A step that leaves the flags of the stages alone keeps Turns.
LEMMA TurnsFrame ==
  ASSUME Turns, UNCHANGED turnVars, Running' = Running
  PROVE  Turns'
BY DEF Turns, turnVars, RunningCreated

\* The stages about nodes keep the order of the stages.
LEMMA NodeStageTurns ==
  ASSUME TypeOK, Order, Turns, NodeStage, UNCHANGED processVars
  PROVE  Turns'
<1> USE DEF turnVars, nodeVars, createVars, bootVars, worldVars, processVars,
            scheduleVars, tableVars, runVars, iterationVars
<1>1. Running' = Running
  BY DEF Running, WithStatus
<1>2. CASE Configure
  BY <1>1, <1>2, TurnsFrame DEF Configure
<1>3. ASSUME NEW reserved, NEW ready, CreateVms(reserved, ready) PROVE Turns'
  <2>1. ~bootDone'
    BY <1>3 DEF CreateVms, CreateTriggered, Order
  <2>2. QED
    BY <1>1, <1>3, <2>1 DEF CreateVms, Turns
<1>4. ASSUME NEW nodes, StartBootstrap(nodes) PROVE Turns'
  BY <1>1, <1>4, TurnsFrame DEF StartBootstrap
<1>5. ASSUME NEW nodes, NEW done, CompleteBootstrap(nodes, done) PROVE Turns'
  <2>1. ~bootDone
    <3>1. /\ Cardinality(RunningCreated) \in Nat
          /\ Cardinality(bootstrapped) \in Nat
      BY VmsFinite DEF RunningCreated, TypeOK, NodesTypeOK
    <3>2. QED
      BY <1>5, <3>1 DEF CompleteBootstrap, BootstrapTriggered, Order
  <2>2. bootDone' => /\ bootstrapped' # {}
                     /\ Cardinality(bootstrapped')
                          = Cardinality(RunningCreated')
    BY <1>5, <2>1 DEF CompleteBootstrap
  <2>3. bootstrapped' \in SUBSET Vms
    BY <1>5 DEF CompleteBootstrap, Registered, CreatedNodes, TypeOK, NodesTypeOK
  <2>4. bootDone' => RunningCreated' # {}
    BY <2>2, <2>3, VmsFinite, FS_EmptySet
  <2>5. QED
    BY <1>1, <1>5, <2>2, <2>4 DEF CompleteBootstrap, Turns
<1>6. QED
  BY <1>2, <1>3, <1>4, <1>5 DEF NodeStage

\* So do the stages about processes.
LEMMA ProcessStageTurns ==
  ASSUME TypeOK, Order, Turns, ProcessStage,
         (\E nodes : CompleteSchedule(nodes)) => TotalIsCurrent
  PROVE  Turns'
<1> USE DEF turnVars, nodeVars, createVars, bootVars, worldVars, processVars,
            scheduleVars, tableVars, runVars, iterationVars
<1>1. ASSUME NEW nodes, NEW commanded, NEW procs \in 1 .. MaxProcs, NEW placing,
             StartSchedule(nodes, procs, commanded, placing)
      PROVE  Turns'
  <2>1. /\ ~scheduleStarted /\ scheduleStarted'
        /\ totalProcesses' = procs /\ procs # 0 /\ totalScheduled' = 0
    BY <1>1 DEF StartSchedule, Turns
  <2>2. Running' = {}
    BY <1>1 DEF StartSchedule, Running, WithStatus
  <2>3. QED
    BY <1>1, <2>1, <2>2 DEF StartSchedule, Turns, RunningCreated
<1>2. ASSUME NEW nodes, CompleteSchedule(nodes) PROVE Turns'
  <2>1. /\ scheduleStarted /\ totalProcesses = Cardinality(Current)
        /\ scheduleCompleted' = (scheduleCompleted
                                   \/ totalScheduled' = Cardinality(Current))
        /\ UNCHANGED <<nodeVars, scheduleStarted, totalProcesses, tableVars,
                       runVars, iterationVars>>
    BY <1>2 DEF CompleteSchedule, TotalIsCurrent
  <2>2. Running' = Running
    BY <2>1 DEF Running, WithStatus
  <2>3. QED
    BY <2>1, <2>2 DEF Turns, RunningCreated
<1>3. ASSUME NEW started, Execute(started) PROVE Turns'
  <2>1. runsLeft' # NoValue
    <3>1. WithStatus(currentProcs', "running") \in SUBSET Ids
      BY DEF WithStatus
    <3>2. QED
      BY <1>3, <3>1, IdsFinite, NoValueAssumption DEF Execute
  <2>2. QED
    BY <1>3, <2>1 DEF Execute, Turns, RunningCreated
<1>4. CASE Wait
  <2>1. Running' \subseteq Running
    BY <1>4, TablesType DEF Wait, Complete, Running, WithStatus, Mark
  <2>2. runsLeft # NoValue
    BY <1>4 DEF Wait, WaitTriggered
  <2>3. runsLeft' # NoValue
    <3>1. /\ {p \in Current : currentProcs[p] # "ready"} \in SUBSET Ids
          /\ finished \cup {p \in Running : program[p] = "stopped"}
               \in SUBSET Ids
      BY TablesType DEF TypeOK
    <3>2. QED
      BY <1>4, <3>1, IdsFinite, NoValueAssumption DEF Wait
  <2>4. QED
    BY <1>4, <2>3 DEF Wait, Turns, RunningCreated
<1>5. CASE Transform
  BY <1>5, TurnsFrame DEF Transform, Running, WithStatus
<1>6. ASSUME NEW done \in BOOLEAN, Converge(done) PROVE Turns'
  <2>1. ~converged /\ ~runFinished
    BY <1>6 DEF Converge, ConvergeTriggered, Order, Turns
  <2>2. CASE done
    BY <1>6, <2>1, <2>2 DEF Converge, Turns, RunningCreated, Running, WithStatus
  <2>3. CASE ~done
    <3>1. Running' = {}
      BY <1>6, <2>3 DEF Converge, NextIteration, Running, WithStatus
    <3>2. QED
      BY <1>6, <2>1, <2>3, <3>1
         DEF Converge, NextIteration, ResetSchedule, Turns, RunningCreated
  <2>4. QED
    BY <2>2, <2>3
<1>7. ASSUME NEW nodes, Destroy(nodes) PROVE Turns'
  <2>1. converged
    BY <1>7 DEF Destroy, DestroyTriggered
  <2>2. QED
    BY <1>7, <2>1 DEF Destroy, DestroyNodes, Turns, Running, WithStatus
<1>8. QED
  BY <1>1, <1>2, <1>3, <1>4, <1>5, <1>6, <1>7, ProcessStage DEF ProcessStage

(* The settings that say whose turn it is are changed by no other step.    *)
settingVars == <<createVars, bootVars, runFinished, scheduleVars, tableVars,
                 runVars, iterationVars>>

\* No other step changes the settings.
LEMMA OtherStepsKeepSettings ==
  ASSUME Next, ~ProcessStage,
         ~ (NodeStage /\ UNCHANGED <<processVars, deleted>>)
  PROVE  UNCHANGED settingVars
<1>1. UNCHANGED <<scheduleVars, tableVars, runVars, iterationVars>>
  BY OtherSettings
<1>2. UNCHANGED <<createVars, bootVars, runFinished>>
  BY DEF Next, Pass, EndOfJob, NothingTriggered, BootstrapRaises,
         ScheduleRaises, ExecuteRaises, ProcessFails, StageRaises, Delete,
         UserDelete, Killed, KilledInCreate, KilledInBootstrap,
         KilledInDestroy, KilledInSchedule, KilledInExecute, Machines,
         ScheduleMakeEnds, ProgramStops, BootstrapMakeEnds, Terminate,
         nodeVars, createVars, bootVars
<1>3. QED
  BY <1>1, <1>2 DEF settingVars

(* Initially no stage but configure has anything to do.                   *)
LEMMA InitTurns ==
  ASSUME Init
  PROVE  Turns
BY DEF Init, NodesInit, Turns, Running, WithStatus

(* Whose turn it is can be read off the settings in every reachable state. *)
THEOREM TurnsInvariant == Spec => []Turns
<1>1. Init => Turns
  BY InitTurns
<1>2. TypeOK /\ Order /\ TotalIsCurrent /\ Turns /\ [Next]_vars => Turns'
  <2> SUFFICES ASSUME TypeOK, Order, TotalIsCurrent, Turns, [Next]_vars
               PROVE  Turns'
    OBVIOUS
  <2>1. CASE UNCHANGED settingVars
    BY <2>1, TurnsFrame DEF settingVars, turnVars, createVars, bootVars,
       scheduleVars, tableVars, runVars, iterationVars, Running, WithStatus
  <2>2. CASE UNCHANGED vars
    BY <2>1, <2>2 DEF vars, settingVars, nodeVars, processVars
  <2>3. CASE Next
    BY <2>1, <2>3, NodeStageTurns, ProcessStageTurns, OtherStepsKeepSettings
  <2>4. QED
    BY <2>2, <2>3
<1>3. QED
  BY <1>1, <1>2, TypeCorrect, OrderInvariant, PTL DEF Spec

(***************************************************************************)
(* The stage whose turn it is, read off the settings.                      *)
(***************************************************************************)
StageIsDue ==
  /\ deleted => StageNow = "ended"
  /\ ~deleted =>
       /\ StageNow # "ended"
       /\ ~configured => StageNow = "configure"
       /\ configured /\ ~createDone => StageNow = "create"
       /\ createDone /\ ~bootDone => StageNow \in {"bootstrap", "idle"}
       /\ BootstrapTriggered => StageNow = "bootstrap"
       /\ bootDone /\ ~scheduleCompleted => StageNow = "schedule"
       /\ ExecuteTriggered => StageNow = "execute"
       /\ WaitTriggered => StageNow = "wait"
       /\ TransformTriggered => StageNow = "transform"
       /\ transformed => StageNow = "converge"
       /\ converged /\ ~runFinished => StageNow = "destroy"
       /\ runFinished => StageNow = "idle"

\* Turns says which stage is due.
LEMMA StageDue ==
  ASSUME TypeOK, Order, Turns
  PROVE  StageIsDue
<1>1. ~deleted /\ TriggeredStages = {} => StageNow = "idle"
  BY DEF StageNow
<1>2. deleted => StageNow = "ended"
  BY DEF StageNow
<1>3. ASSUME ~deleted, NEW s \in Stage, Triggered(s)
      PROVE  StageNow = s
  <2>1. TriggeredStages = {s}
    BY <1>3, OrderExcludes DEF TriggeredStages, StagesExclusive
  <2>2. QED
    BY <1>3, <2>1 DEF StageNow
<1>4. ASSUME ~deleted, TriggeredStages # {}
      PROVE  StageNow \in Stage /\ Triggered(StageNow)
  <2>1. PICK s \in Stage : Triggered(s)
    BY <1>4 DEF TriggeredStages
  <2>2. QED
    BY <1>3, <1>4, <2>1
<1>5. SUFFICES ASSUME ~deleted PROVE StageIsDue
  BY <1>2 DEF StageIsDue
<1>6. StageNow # "ended"
  BY <1>1, <1>4, <1>5 DEF Stage
<1>7. /\ ConfigureTriggered => StageNow = "configure"
      /\ CreateTriggered => StageNow = "create"
      /\ BootstrapTriggered => StageNow = "bootstrap"
      /\ ScheduleTriggered => StageNow = "schedule"
      /\ ExecuteTriggered => StageNow = "execute"
      /\ WaitTriggered => StageNow = "wait"
      /\ TransformTriggered => StageNow = "transform"
      /\ ConvergeTriggered => StageNow = "converge"
      /\ DestroyTriggered => StageNow = "destroy"
  BY <1>3, <1>5 DEF Stage, Triggered
<1>8. bootDone /\ ~scheduleCompleted => ScheduleTriggered
  BY NoValueAssumption DEF Order, Turns, ScheduleTriggered
<1>9. createDone /\ ~bootDone => StageNow \in {"bootstrap", "idle"}
  <2>1. SUFFICES ASSUME createDone, ~bootDone, StageNow # "idle"
                 PROVE  StageNow = "bootstrap"
    OBVIOUS
  <2>2. StageNow \in Stage /\ Triggered(StageNow)
    BY <1>1, <1>4, <1>5, <2>1
  <2>3. configured /\ ~scheduleCompleted /\ runsLeft = NoValue
          /\ ~transformed /\ ~converged
    BY <2>1, NoValueAssumption DEF Order
  <2>4. QED
    BY <2>1, <2>2, <2>3, NoValueAssumption
       DEF Triggered, ConfigureTriggered, CreateTriggered, ScheduleTriggered,
           ExecuteTriggered, WaitTriggered, TransformTriggered,
           ConvergeTriggered, DestroyTriggered
<1>10. runFinished => StageNow = "idle"
  <2>1. SUFFICES ASSUME runFinished PROVE TriggeredStages = {}
    BY <1>1, <1>5
  <2>2. /\ converged /\ ~transformed /\ runsLeft = 0 /\ Ready = {} /\ executed
        /\ scheduleCompleted /\ scheduleStarted /\ bootDone /\ createDone
        /\ configured /\ totalScheduled = totalProcesses /\ totalProcesses # 0
    BY <2>1, NoValueAssumption DEF Order, Turns
  <2>3. ~BootstrapTriggered
    <3>1. /\ Cardinality(RunningCreated) \in Nat
          /\ Cardinality(bootstrapped) \in Nat
      BY VmsFinite DEF RunningCreated, TypeOK, NodesTypeOK
    <3>2. QED
      BY <2>2, <3>1 DEF Order, BootstrapTriggered
  <2>4. QED
    BY <2>1, <2>2, <2>3
       DEF TriggeredStages, Triggered, ConfigureTriggered, CreateTriggered,
           ScheduleTriggered, ExecuteTriggered, WaitTriggered,
           TransformTriggered, ConvergeTriggered, DestroyTriggered
<1>11. QED
  BY <1>5, <1>6, <1>7, <1>8, <1>9, <1>10
     DEF StageIsDue, ConfigureTriggered, CreateTriggered, ConvergeTriggered,
         DestroyTriggered

(***************************************************************************)
(* Every step of a job is a step of Lifecycle, or changes nothing that     *)
(* Lifecycle speaks of.                                                    *)
(***************************************************************************)
DueInv == TypeOK /\ Order /\ RunCounts /\ Turns /\ StageIsDue

\* Only the pass takes turns, and it does so while the job is not deleted.
LEMMA EndsOnce ==
  ASSUME StageIsDue, StageIsDue', ~deleted, deleted',
         UNCHANGED <<id, allProcs, currentProcs>>
  PROVE  Job!Next
BY DEF StageIsDue, Job!Next, Job!End, Ready, Running, Issued, WithStatus

\* A stage about nodes is a step of the lifecycle, or stutters.
LEMMA NodeStageLives ==
  ASSUME DueInv, DueInv', NodeStage, ~deleted,
         UNCHANGED <<processVars, deleted>>
  PROVE  Job!Next
<1> USE DEF DueInv, StageIsDue
<1>1. UNCHANGED <<id, Issued, Ready \cup Running>>
  BY DEF processVars, scheduleVars, tableVars, iterationVars, Ready, Running,
         Issued, WithStatus
<1>2. CASE Configure
  <2>1. ~createDone
    BY <1>2 DEF Configure, ConfigureTriggered, Order
  <2>2. StageNow = "configure" /\ StageNow' = "create"
    BY <1>2, <2>1 DEF Configure, ConfigureTriggered
  <2>3. QED
    BY <1>1, <2>2 DEF Job!Next, Job!Prepare, Job!Goto
<1>3. ASSUME NEW reserved, NEW ready, CreateVms(reserved, ready)
      PROVE  Job!Next
  <2>1. ~createDone /\ ~bootDone /\ configured /\ createDone' /\ ~bootDone'
    BY <1>3 DEF CreateVms, CreateTriggered, Order, bootVars
  <2>2. StageNow = "create" /\ StageNow' \in {"bootstrap", "idle"}
    BY <2>1
  <2>3. QED
    BY <1>1, <2>2 DEF Job!Next, Job!Prepare, Job!Goto
<1>4. ASSUME NEW nodes, StartBootstrap(nodes) PROVE Job!Next
  <2>1. BootstrapTriggered /\ BootstrapTriggered'
    BY <1>4 DEF StartBootstrap, BootstrapTriggered, RunningCreated, createVars
  <2>2. StageNow = "bootstrap" /\ StageNow' = "bootstrap"
    BY <2>1
  <2>3. QED
    BY <1>1, <2>2 DEF Job!Next, Job!Prepare, Job!Goto
<1>5. ASSUME NEW nodes, NEW done, CompleteBootstrap(nodes, done)
      PROVE  Job!Next
  <2>1. /\ BootstrapTriggered /\ UNCHANGED createDone
        /\ UNCHANGED <<scheduleStarted, scheduleCompleted>>
    BY <1>5 DEF CompleteBootstrap, processVars, scheduleVars
  <2>2. createDone /\ ~bootDone
    <3>1. /\ Cardinality(RunningCreated) \in Nat
          /\ Cardinality(bootstrapped) \in Nat
      BY VmsFinite DEF RunningCreated, TypeOK, NodesTypeOK
    <3>2. RunningCreated = {} => Cardinality(RunningCreated) = 0
      BY FS_EmptySet
    <3>3. QED
      BY <2>1, <3>1, <3>2 DEF BootstrapTriggered, Order
  <2>3. ~scheduleCompleted'
    BY <2>1, <2>2 DEF Order
  <2>4. /\ StageNow = "bootstrap"
        /\ StageNow' \in {"bootstrap", "schedule", "idle"}
    BY <2>1, <2>2, <2>3
  <2>5. QED
    BY <1>1, <2>4 DEF Job!Next, Job!Prepare, Job!Goto
<1>6. QED
  BY <1>2, <1>3, <1>4, <1>5 DEF NodeStage

\* So is an assignment that makes new processes ready.
LEMMA AssignmentLives ==
  ASSUME DueInv, DueInv', ~deleted, ~deleted', StageNow = "schedule",
         StageNow' \in {"schedule", "execute"},
         Current = {}, Ready' # {}, Ready' \cap Issued = {}, Running' = {},
         Issued' = Issued \cup Ready', id' = id
  PROVE  Job!Next
<1>1. Ready \cup Running = {}
  BY TablesType DEF DueInv
<1>2. Ready' \cup Running' = Ready'
  OBVIOUS
<1>3. QED
  BY <1>1, <1>2 DEF Job!Next, Job!Assign, Job!Goto

\* So is each step of scheduling.
LEMMA ScheduleLives ==
  ASSUME DueInv, DueInv', TotalIsCurrent, Issued = 1 .. scheduleIndex,
         ~deleted, NEW nodes,
         \/ \E procs \in 1 .. MaxProcs : \E commanded, placing :
              StartSchedule(nodes, procs, commanded, placing)
         \/ CompleteSchedule(nodes)
  PROVE  Job!Next
<1> USE DEF DueInv, StageIsDue
<1>1. ASSUME NEW commanded, NEW placing, NEW procs \in 1 .. MaxProcs,
             StartSchedule(nodes, procs, commanded, placing)
      PROVE  Job!Next
  <2>1. /\ ~scheduleStarted /\ bootDone
        /\ UNCHANGED <<bootDone, scheduleCompleted, id, deleted>>
    BY <1>1 DEF StartSchedule, ScheduleTriggered, nodeVars, bootVars,
                iterationVars
  <2>2. ~scheduleCompleted
    BY <2>1 DEF Order
  <2>3. StageNow = "schedule" /\ StageNow' = "schedule"
    BY <2>1, <2>2
  <2>4. /\ Current = {} /\ Ready' # {} /\ Ready' \cap Issued = {}
        /\ Running' = {} /\ Issued' = Issued \cup Ready'
    BY <1>1, StartScheduleCounts DEF StartSchedule, runVars
  <2>5. QED
    BY <2>1, <2>3, <2>4, AssignmentLives
<1>2. ASSUME CompleteSchedule(nodes) PROVE Job!Next
  <2>1. /\ scheduleStarted /\ ScheduleTriggered
        /\ UNCHANGED <<bootDone, scheduleStarted, totalProcesses, scheduleIndex,
                       tableVars, runVars, iterationVars, deleted>>
    BY <1>2 DEF CompleteSchedule, nodeVars, bootVars
  <2>2. bootDone /\ ~scheduleCompleted /\ runsLeft = NoValue
    BY <2>1 DEF ScheduleTriggered, Order
  <2>3. StageNow = "schedule"
    BY <2>2
  <2>4. Running = {} /\ Completed = {} /\ Current # {}
    BY <2>1, <2>2, TablesType, FS_EmptySet
       DEF Turns, RunCounts, Order, TotalIsCurrent
  <2>5. Ready # {}
    BY <2>4, TablesType
  <2>6. UNCHANGED <<id, Issued, Ready \cup Running>>
    BY <2>1 DEF iterationVars, tableVars, Ready, Running, Issued, WithStatus
  <2>7. CASE scheduleCompleted'
    <3>1. ExecuteTriggered'
      BY <2>1, <2>4, <2>5, <2>7
         DEF ExecuteTriggered, tableVars, Current, Ready, WithStatus
    <3>2. StageNow' = "execute"
      BY <2>1, <3>1
    <3>3. QED
      BY <2>3, <2>6, <3>2 DEF Job!Next, Job!Schedule, Job!Goto
  <2>8. CASE ~scheduleCompleted'
    <3>1. StageNow' = "schedule"
      BY <2>1, <2>2, <2>8
    <3>2. QED
      BY <2>3, <2>6, <3>1 DEF Job!Next, Job!Schedule, Job!Goto
  <2>9. QED
    BY <2>7, <2>8
<1>3. QED
  BY <1>1, <1>2

\* So is starting the processes that are ready.
LEMMA ExecuteLives ==
  ASSUME DueInv, DueInv', ~deleted, NEW started \in SUBSET Ready,
         ExecuteTriggered,
         currentProcs' = Mark(currentProcs, started, "running"),
         allProcs' = Mark(allProcs, started, "running"),
         runsLeft' = Cardinality(WithStatus(currentProcs', "running")),
         executed', UNCHANGED <<scheduleVars, finished, iterationVars, deleted>>
  PROVE  Job!Next
<1> USE DEF DueInv, StageIsDue
<1>1. runsLeft' = Cardinality(Running')
  BY DEF Running, WithStatus
<1>2. StageNow = "execute"
  BY <1>1
<1>3. Ready' \cup Running' = Ready \cup Running
  BY <1>1, TablesType DEF Ready, Running, WithStatus, Mark
<1>4. Current' = Current /\ Issued' = Issued
  BY ExecuteCounts
<1>5. scheduleCompleted /\ Current # {} /\ Completed = {}
  BY DEF ExecuteTriggered, RunCounts, Order
<1>6. UNCHANGED <<id, Issued>>
  BY <1>4 DEF iterationVars
<1>7. CASE Ready' # {}
  <2>1. ExecuteTriggered'
    BY <1>1, <1>4, <1>5, <1>7 DEF ExecuteTriggered, scheduleVars
  <2>2. StageNow' = "execute"
    BY <1>1, <2>1
  <2>3. QED
    BY <1>2, <1>3, <1>6, <2>2 DEF Job!Next, Job!Execute, Job!Goto
<1>8. CASE Ready' = {}
  <2>1. Running' # {}
    BY <1>3, <1>5, <1>8, TablesType
  <2>2. Running' \in SUBSET Ids
    BY DEF Running, WithStatus
  <2>3. runsLeft' \notin {NoValue, 0}
    BY <1>1, <2>1, <2>2, IdsFinite, FS_EmptySet, NoValueAssumption
  <2>4. WaitTriggered'
    BY <1>1, <1>4, <1>5, <1>8, <2>3 DEF WaitTriggered
  <2>5. StageNow' = "wait"
    BY <1>1, <2>4
  <2>6. QED
    BY <1>2, <1>3, <1>6, <2>5 DEF Job!Next, Job!Execute, Job!Goto
<1>9. QED
  BY <1>7, <1>8

\* So is a look at the processes that run.
LEMMA WaitLives ==
  ASSUME DueInv, DueInv', ~deleted, Wait
  PROVE  Job!Next
<1> USE DEF DueInv, StageIsDue
<1>1. PICK stopped \in SUBSET Running :
        /\ currentProcs' = Mark(currentProcs, stopped, "completed")
        /\ runsLeft' = Cardinality({p \in Current : currentProcs[p] # "ready"})
                         - Cardinality(finished \cup stopped)
        /\ UNCHANGED <<scheduleVars, executed, iterationVars, deleted>>
  BY DEF Wait, Complete
<1>2. WaitTriggered /\ Ready = {} /\ runsLeft # 0
  BY DEF Wait, WaitTriggered
<1>3. StageNow = "wait"
  BY <1>2
<1>4. /\ Ready' = {} /\ Current' = Current /\ Issued' = Issued
      /\ Running' \subseteq Running
  BY <1>1, <1>2, TablesType, WaitCounts DEF Ready, Running, WithStatus, Mark
<1>5. runsLeft' # NoValue
  <2>1. /\ {p \in Current : currentProcs[p] # "ready"} \in SUBSET Ids
        /\ finished \cup stopped \in SUBSET Ids
    BY <1>1, TablesType DEF TypeOK
  <2>2. QED
    BY <1>1, <2>1, IdsFinite, NoValueAssumption
<1>6. runsLeft' = Cardinality(Running') /\ Running' \in SUBSET Ids
  BY <1>5 DEF RunCounts, RunsLeftCountsRunning, Running, WithStatus
<1>7. ~transformed /\ ~converged
  BY <1>2 DEF Order
<1>8. UNCHANGED <<id, Issued>>
  BY <1>1, <1>4 DEF iterationVars
<1>9. CASE Running' = {}
  <2>1. TransformTriggered'
    BY <1>1, <1>4, <1>6, <1>7, <1>9, FS_EmptySet
       DEF TransformTriggered, iterationVars
  <2>2. StageNow' = "transform"
    BY <1>1, <2>1
  <2>3. QED
    BY <1>2, <1>3, <1>4, <1>8, <1>9, <2>2 DEF Job!Next, Job!Wait, Job!Goto
<1>10. CASE Running' # {}
  <2>1. runsLeft' # 0
    BY <1>6, <1>10, IdsFinite, FS_EmptySet
  <2>2. WaitTriggered'
    BY <1>1, <1>2, <1>4, <1>5, <2>1 DEF WaitTriggered
  <2>3. StageNow' = "wait"
    BY <1>1, <2>2
  <2>4. QED
    BY <1>2, <1>3, <1>4, <1>8, <1>10, <2>3 DEF Job!Next, Job!Wait, Job!Goto
<1>11. QED
  BY <1>9, <1>10

\* So are transform, converge and destroy.
LEMMA LastStagesLive ==
  ASSUME DueInv, DueInv', ~deleted,
         \/ Transform
         \/ \E done \in BOOLEAN : Converge(done)
         \/ DestroyTriggered /\ runFinished'
            /\ UNCHANGED <<processVars, deleted>>
  PROVE  Job!Next
<1> USE DEF DueInv, StageIsDue
<1>1. CASE Transform
  <2>1. StageNow = "transform" /\ StageNow' = "converge"
    BY <1>1 DEF Transform
  <2>2. UNCHANGED <<id, Issued, Ready \cup Running>>
    BY <1>1 DEF Transform, tableVars, Ready, Running, Issued, WithStatus
  <2>3. QED
    BY <2>1, <2>2 DEF Job!Next, Job!Transform, Job!Goto
<1>2. ASSUME NEW done \in BOOLEAN, Converge(done) PROVE Job!Next
  <2>1. /\ transformed /\ ~deleted' /\ id' = id + 1 /\ converged' = done
        /\ UNCHANGED <<Issued, runFinished, bootDone>>
    BY <1>2 DEF Converge, ConvergeTriggered, Issued, nodeVars, bootVars
  <2>2. StageNow = "converge"
    BY <2>1
  <2>3. ~converged /\ ~runFinished /\ bootDone
    BY <2>1, NoValueAssumption DEF Order, Turns
  <2>4. Ready \cup Running = {}
    BY <2>1, TablesType DEF RunCounts
  <2>5. CASE done
    <3>1. StageNow' = "destroy"
      BY <2>1, <2>3, <2>5
    <3>2. Ready' \cup Running' = Ready \cup Running
      BY <1>2, <2>5 DEF Converge, Ready, Running, WithStatus
    <3>3. QED
      BY <2>1, <2>2, <3>1, <3>2 DEF Job!Next, Job!Converge, Job!Goto
  <2>6. CASE ~done
    <3>1. ~scheduleCompleted' /\ currentProcs' = [p \in Ids |-> "none"]
      BY <1>2, <2>6 DEF Converge, NextIteration, ResetSchedule
    <3>2. StageNow' = "schedule"
      BY <2>1, <2>3, <3>1
    <3>3. Ready' \cup Running' = {}
      BY <3>1 DEF Ready, Running, WithStatus
    <3>4. QED
      BY <2>1, <2>2, <2>4, <3>2, <3>3 DEF Job!Next, Job!Converge, Job!Goto
  <2>7. QED
    BY <2>5, <2>6
<1>3. CASE /\ DestroyTriggered /\ runFinished'
           /\ UNCHANGED <<processVars, deleted>>
  <2>1. StageNow = "destroy" /\ StageNow' = "idle"
    BY <1>3 DEF DestroyTriggered
  <2>2. UNCHANGED <<id, Issued, Ready \cup Running>>
    BY <1>3 DEF processVars, iterationVars, tableVars, Ready, Running, Issued,
                WithStatus
  <2>3. QED
    BY <2>1, <2>2 DEF Job!Next, Job!Destroy, Job!Goto
<1>4. QED
  BY <1>1, <1>2, <1>3

\* Hence so is every stage about processes.
LEMMA ProcessStageLives ==
  ASSUME DueInv, DueInv', Counts, TotalIsCurrent, ~deleted, ProcessStage
  PROVE  Job!Next
<1> DEFINE Goal == Job!Next
<1>1. ASSUME NEW nodes, NEW commanded, NEW procs \in 1 .. MaxProcs,
             NEW placing, StartSchedule(nodes, procs, commanded, placing)
      PROVE  Goal
  BY <1>1, ScheduleLives DEF Counts
<1>2. ASSUME NEW nodes, CompleteSchedule(nodes) PROVE Goal
  BY <1>2, ScheduleLives DEF Counts
<1>3. ASSUME NEW started, Execute(started) PROVE Goal
  <2>1. /\ ExecuteTriggered /\ started \in SUBSET Ready
        /\ currentProcs' = Mark(currentProcs, started, "running")
        /\ allProcs' = Mark(allProcs, started, "running")
        /\ runsLeft' = Cardinality(WithStatus(currentProcs', "running"))
        /\ executed'
        /\ UNCHANGED <<scheduleVars, finished, iterationVars, deleted>>
    BY <1>3 DEF Execute
  <2>2. QED
    BY <2>1, ExecuteLives
<1>4. ASSUME Wait PROVE Goal
  BY <1>4, WaitLives
<1>5. ASSUME NEW done \in BOOLEAN, Converge(done) PROVE Goal
  BY <1>5, LastStagesLive
<1>6. ASSUME NEW nodes, Destroy(nodes) PROVE Goal
  <2>1. /\ DestroyTriggered /\ runFinished'
        /\ UNCHANGED <<processVars, deleted>>
    BY <1>6 DEF Destroy, DestroyNodes
  <2>2. QED
    BY <2>1, LastStagesLive
<1>7. ASSUME Transform PROVE Goal
  BY <1>7, LastStagesLive
<1> HIDE DEF Goal
<1>8. Goal
  BY <1>1, <1>2, <1>3, <1>4, <1>5, <1>6, <1>7 DEF ProcessStage
<1>9. QED
  BY <1>8 DEF Goal

\* No turn is taken: neither the settings nor the end of the job change.
LEMMA LifeStutters ==
  ASSUME UNCHANGED settingVars, UNCHANGED <<configured, deleted>>
  PROVE  UNCHANGED <<StageNow, id, Issued, Ready \cup Running>>
<1> USE DEF settingVars, createVars, bootVars, scheduleVars, tableVars, runVars,
            iterationVars
<1>1. Ready' = Ready /\ Running' = Running /\ Current' = Current
        /\ RunningCreated' = RunningCreated /\ Issued' = Issued
  BY DEF Ready, Running, Current, WithStatus, RunningCreated, Issued
<1>2. TriggeredStages' = TriggeredStages
  BY <1>1 DEF TriggeredStages, Triggered, ConfigureTriggered, CreateTriggered,
     BootstrapTriggered, ScheduleTriggered, ExecuteTriggered, WaitTriggered,
     TransformTriggered, ConvergeTriggered, DestroyTriggered
<1>3. QED
  BY <1>1, <1>2 DEF StageNow

\* The first stage of a job is configure.
LEMMA LifeBegins ==
  ASSUME Init
  PROVE  Job!Init
<1>1. TriggeredStages = {"configure"}
  <2>1. RunningCreated = {} /\ Current = {}
    BY DEF Init, NodesInit, RunningCreated, Current
  <2>2. ~BootstrapTriggered
    BY <2>1, FS_EmptySet DEF Init, NodesInit, BootstrapTriggered
  <2>3. QED
    BY <2>1, <2>2, NoValueAssumption
       DEF Init, NodesInit, TriggeredStages, Triggered, Stage,
           ConfigureTriggered, CreateTriggered, ScheduleTriggered,
           ExecuteTriggered, WaitTriggered, TransformTriggered,
           ConvergeTriggered, DestroyTriggered
<1>2. StageNow = "configure"
  BY <1>1 DEF StageNow, Init
<1>3. Ready \cup Running = {} /\ Issued = {} /\ id = 0
  BY DEF Init, Ready, Running, Issued, WithStatus
<1>4. QED
  BY <1>2, <1>3 DEF Job!Init

(***************************************************************************)
(* The nine stages, which see nothing but the run settings, implement      *)
(* Lifecycle (LifecycleSpec): they follow each other in its order, for any *)
(* machines, processes and faults.                                         *)
(***************************************************************************)
THEOREM LifecycleImplemented == Spec => LifecycleSpec
<1>1. Init => Job!Init
  BY LifeBegins
<1>2. DueInv /\ DueInv' /\ Counts /\ TotalIsCurrent /\ [Next]_vars
        => [Job!Next]_Job!vars
  <2> SUFFICES ASSUME DueInv, DueInv', Counts, TotalIsCurrent, [Next]_vars
               PROVE  Job!Next \/ UNCHANGED <<StageNow, id, Issued,
                                              Ready \cup Running>>
    BY DEF Job!vars
  <2>1. CASE UNCHANGED settingVars /\ UNCHANGED deleted
    BY <2>1, LifeStutters DEF settingVars, createVars
  <2>2. CASE UNCHANGED settingVars /\ ~deleted /\ deleted'
    BY <2>2, EndsOnce DEF DueInv, settingVars, iterationVars, scheduleVars,
       tableVars
  <2>3. CASE UNCHANGED vars
    BY <2>1, <2>3 DEF vars, nodeVars, settingVars, processVars
  <2>4. CASE ~deleted /\ NodeStage /\ UNCHANGED <<processVars, deleted>>
    BY <2>4, NodeStageLives
  <2>5. CASE ~deleted /\ ProcessStage
    BY <2>5, ProcessStageLives
  <2>6. CASE Next /\ ~ (~deleted /\ ProcessStage)
             /\ ~ (~deleted /\ NodeStage /\ UNCHANGED <<processVars, deleted>>)
    <3>1. UNCHANGED settingVars
      BY <2>6
         DEF Next, Pass, EndOfJob, NothingTriggered, BootstrapRaises,
             ScheduleRaises, ExecuteRaises, ProcessFails, StageRaises, Delete,
             UserDelete, Killed, KilledInCreate, KilledInBootstrap,
             KilledInDestroy, KilledInSchedule, KilledInExecute, Machines,
             ScheduleMakeEnds, ProgramStops, BootstrapMakeEnds, Terminate,
             nodeVars, createVars, bootVars, processVars, settingVars
    <3>2. CASE (EndOfJob /\ ~deleted) \/ (UserDelete /\ ~deleted)
      <4>1. deleted'
        BY <3>2 DEF EndOfJob, NothingTriggered, BootstrapRaises,
           ScheduleRaises, ExecuteRaises, ProcessFails, StageRaises, Delete,
           UserDelete
      <4>2. QED
        BY <2>2, <3>1, <3>2, <4>1
    <3>3. CASE UNCHANGED deleted
      BY <2>1, <3>1, <3>3
    <3>4. QED
      BY <2>6, <3>2, <3>3 DEF Next, Pass
  <2>7. QED
    BY <2>3, <2>4, <2>5, <2>6
<1>3. TypeOK /\ Order /\ Turns => StageIsDue
  BY StageDue
<1>4. QED
  BY <1>1, <1>2, <1>3, TypeCorrect, OrderInvariant, CountsInvariant,
     TurnsInvariant, PTL DEF Spec, LifecycleSpec, Job!Spec, DueInv, Counts

=============================================================================
