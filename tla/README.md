# Chiminey in TLA+

Chiminey runs scientific computations ("smart connectors") on clouds and
clusters.  A user submits a job; a server gets machines for it, installs a
payload, spreads processes over the machines, waits for them, collects their
output, possibly iterates, and gives the machines back.  Everything the server
knows about a job is a table of *run settings* in a database, and everything it
does is done by short celery tasks that poll: this is what makes the code hard
to test and worth modelling.

This directory holds the specifications, the TLC configurations and the proofs.
Paths below are relative to the repository; `corestages/` and the like are under
`src/chiminey/`.

## 1. The system

| component | state | operations | main files |
|---|---|---|---|
| Celery tasks | queue of tasks, redis locks, row locks | `run_contexts` (beat), `progress_context`, `_process_context`, `delete`, `context_message` | `smartconnectorscheduler/tasks.py` |
| Job submission | rows `Context` being created | `make_runcontext_for_directive`, `_make_new_run_context` | `smartconnectorscheduler/jobs.py` |
| Run settings store | `ContextParameterSet`, `ContextParameter` | `get_context`, `update_run_settings`, accessors | `models.py`, `runsettings/run_settings.py` |
| Stages | none; they read and write the run settings | `is_triggered`, `process`, `output` of configure, create, bootstrap, schedule, execute, wait, transform, converge, destroy | `corestages/*.py` |
| Strategies | none | creation, bootstrap, schedule, wait and destruction for a kind of platform | `corestages/strategies/` |
| Cloud connection | the machines in the cloud | `create_vms`, `get_registered_vms`, `destroy_vms` | `cloudconnection/` |
| Reliability framework | failed nodes, retries left | `manage_failure`, `manage_failed_process` | `reliabilityframework/` |
| Payload scripts | processes of a machine | make targets | `PAYLOAD_ROOT/` |
| Parameter sweep | sub jobs | expands a map, submits one job per value | `corestages/sweep.py` |
| Messages | one message per job | `addMessage`, `context_message`, the view's own first message | `messages/message.py`, `tasks.py` |
| Platforms | platform records, keys | create, update, delete, validate | `platform/` |
| REST and web interface | sessions, forms | submission, list, deletion, presets | `smartconnectorscheduler/views.py`, `simpleui/` |
| Storage, ssh, commands | files | get, put, list, copy; run a command | `storage/`, `sshconnection/`, `compute/` |
| MyTardis | external | curation of outputs | `mytardis/` |
| Initialisation | schemas, directives, stages | loads them once | `initialisation/` |
| Examples | - | HRMC parent, transform, converge; random numbers; word count | `examples/` |

How they interact.  The web interface calls job submission, which commits a
`Context`.  Every ten seconds the beat enqueues one `progress_context` task for
every context not deleted.  A worker takes a redis lock named after the context
(without waiting; it expires), opens a transaction, takes the row of the context
(`SELECT ... FOR UPDATE NOWAIT`), reads *all* run settings, and asks the stages
of the directive one after the other whether they are triggered by these
settings.  The first that is processes (ssh, cloud API, files) and outputs new
settings, which are stored; the transaction commits; the redis lock is released.
If no stage is triggered, or the triggered one raises, the job is marked as
deleted, which is how every job ends.  Stages do not call each other: they
communicate only through settings such as `schedule/schedule_completed`.

What is hard:

- *Interleaving.*  Duplicate tasks of one job, deletion requests, submissions
  that are half done, locks that expire under a live pass or are freed by
  another worker, sweeps that commit in the middle of a pass.
- *Crashes.*  A worker dies with a lock, or between an effect on the machines
  and the commit of the settings that record it.
- *Failures.*  Machines that disappear, ssh that fails, an API error that looks
  like a machine that is gone, exceptions that are logged and swallowed.
- *Ordering.*  The stages' turn depends on some twenty settings that different
  stages set and that converge must reset between iterations.
- *Boundaries.*  Differences of list lengths that start a stage at zero, block
  sizes with a remainder.

What makes each component correct: at most one pass of a job at a time, working
on current settings, and no change after the end (tasks); settings final before
a job is executed (submission); one stage's turn at a time, tables that agree, an
iteration transformed only when every process is complete (stages); processes
only on machines that are recorded, machines all accounted for (cloud); every
process placed once and evenly (strategy); keys that open the machines they were made
for (platforms); rows that stem from one output (run settings); values that
reach the stages as they were typed (interfaces); every job ends.  `PROJECT.json`
lists, line by line, the hazards and the properties that watch them.

## 2. Modules

| module | what it is |
|---|---|
| `ContextTasks` | celery tasks, locks, submission, deletion, kills, for several jobs and workers |
| `JobRecord` | abstract: what the task layer promises about the stored record of a job |
| `CloudNodes` | the machines of a job and the stages configure, create, bootstrap, destroy |
| `Placement` | closed form of the round robin assignment |
| `SmartConnector` | EXTENDS `CloudNodes`, `Placement`; the other stages, the pass, the machines' programs |
| `ClusterConnector` | EXTENDS `SmartConnector`: the stages on a cluster, a Hadoop master or a Jenkins server, with and without a payload |
| `Lifecycle` | abstract: the order of the stages and the life of an iteration's processes |
| `Sweep` | the pass of a parameter sweep, which submits its children |
| `Platforms` | platform records, the key pairs made for them, passes that use them |
| `Presets` | named sets of values for the submission form |
| `JobMessages` | the status message of a job and its racing writers |
| `RunSettings` | the settings of a job as rows: submission, check, pass, storing |
| `RoundRobin` | the loop of `start_round_robin_schedule`, shown equal to `Placement` |
| `RandomSeeds` | random numbers taken from a file by sweeps and by HRMC |
| `Forms` | one input on its way from the user to the settings |
| `Hrmc` | the iterations of HRMC as its results drive them |
| `CloudCalls` | the loops of the cloud connection, look by look |
| `Portal` | composition of `Platforms`, `Presets`, `JobMessages`, `RunSettings` |
| `Algorithms` | composition of `RoundRobin`, `RandomSeeds`, `Forms`, `Hrmc`, `CloudCalls` |
| `MCContextTasks`, `MCSmartConnector`, `MCClusterConnector`, `MCPortal`, `MCAlgorithms` | instances for TLC |
| `..._proofs` | theorems about `ContextTasks`, `SmartConnector` (two modules, `Iteration_proofs` is the second), `ClusterConnector`, `Sweep`, `Platforms`, `Portal` with the rest of its parts, `Algorithms` with its parts |

The modules that `Portal` and `Algorithms` compose are independent of each other
in the code too: they share no variable.  Each of the two compositions has its
modules side by side.  In a behaviour one of them moves, and the others stay in
their initial state or at their end, so that the size of a run is the sum, not
the product, of its parts.  In `Portal` each module behaves as its own
specification says, in `Algorithms` four of the five have ended from the start;
the theorems are about the modules by themselves and about the compositions.

No module declares a RECURSIVE operator.  Operators commented as *mutant* are
plausible wrong versions of the definition that follows them: each property is
known to fail when one of them takes its place.

### ContextTasks

One action per atomic piece of the code as other processes see it: the two
transactions of a submission (`MakeNewRunContext`, `StoreFinalSettings`), the
beat (`RunContexts`), the user's request and the `delete` task (`RequestDelete`,
`Delete`), and for each worker the steps of `progress_context`: `AcquireRedisLock`
or `SkipLockedJob`, `LockRow` (row lock and snapshot) or `GiveUpRow`, `StoreOutput`
(a stage was triggered), `NoStageTriggered` (the job ends), `AbortPass` (an
exception leaves the transaction), `ReleaseRedisLock`; `Kill` and `ExpireRedisLock`
are the environment.  The content of the settings is abstracted to `version`, the
number of passes they include, and `base`, the version a pass started from.

- `TimeLimitEnforced`: the celery pool kills a task after `CELERY_TIMEOUT`,
  which equals `REDIS_TIMEOUT`; the task's clock starts before it takes the
  lock.  Then a lock cannot expire under a live pass.  Pools other than prefork
  do not enforce it.  The runs have it TRUE, because sweeps need it; for ordinary
  jobs the theorems cover FALSE as well.
- `ReleaseChecksOwner`: newer redis clients refuse to release a lock that
  another client took over; older ones delete the key.
- `Sweeps`: jobs whose stage submits other jobs.  `_make_new_run_context` is
  decorated with `commit_on_success`, which in this version of Django commits
  the enclosing transaction too, so the pass loses its row lock
  (`NestedCommit`).  For sweeps the properties hold only with an enforced time
  limit; this is the definition `Guarded`.

A deletion task that finds the row locked waits for it; a pass that finds the
row locked does not.  The save of `make_runcontext_for_directive` writes all
columns from an old object and may undo a deletion: `StoreFinalSettings` sets
`deleted` to FALSE.  This is why a job is a *draft* until then in `JobRecord`.
`StoreFinalSettings` also overwrites names that a pass over the draft has stored.
Since `version` counts passes, not stores, it stays as it is; that there can be such
a pass at all is what `TasksDraft` shows.

### CloudNodes and SmartConnector

One job on a cloud with asynchronous waiting.  A pass is one step: that passes do
not overlap and work on current settings is what `ContextTasks` shows
(`OnePassAtATime`, `SnapshotIsCurrent`).  Crashes in the middle of a pass are the
actions `Killed...`, which keep the effect on the machines and lose the output.

Each setting that takes part in the control is a variable named after it, lists
of nodes are sets or functions from machines, and the two tables of processes are
functions from process ids to a status.  `Triggered` gathers the nine
`is_triggered`; each stage's `process` and `output` are one action (two where the
stage behaves differently on its first and later passes: `StartBootstrap` /
`CompleteBootstrap`, `StartSchedule` / `CompleteSchedule`).  The ends of a job are
`NothingTriggered`, `StageRaises`, and the exceptions that are consequences of the
state: `BootstrapRaises`, `ScheduleRaises`, `ExecuteRaises`, `ProcessFails`.

Faults are counted and chosen by kind: `vm` (a machine is terminated by the
cloud), `ssh` (a connection fails), `api` (a call of the cloud's API fails; the
code takes that for a machine that does not exist), `error` (a stage raises
before its output), `kill` (the worker dies in a pass), `delete` (the user deletes
the job).

Decisions:

- The order of nodes in a list is not kept; `IsRoundRobin` allows every order.
- The rescheduling of failed processes is unreachable.  For a failed process
  `Wait.output` sets `schedule/scheduled_started`, which is not in the schema
  (`schedule_started` is), so `update_run_settings` raises and the job ends.
  `ProcessFails` is this end.  The loop over the stages goes on, but each stage is
  given its own copy of the settings as they were at the beginning of the pass
  (`tasks.py:240`); with these only wait is triggered (`StagesExclusive`), so that no other
  stage acts and the machines stay as they are.  Rows that the failing
  `update_run_settings` has stored before it raises are the subject of
  `RunSettings`, and nobody reads them again.
- An `error` strikes before a stage has stored anything.
- `Converge` is cut off by `MaxIds`: the job may converge at any iteration and
  must when the ids are used up, so `JobEnds` says that a job of finitely many
  iterations ends.
- `procs` is at least one.  Jobs without a payload or with the synchronous
  strategy take other paths, which are those of `ClusterConnector`.
- A connection that fails on the first machine of `StartSchedule` raises (the
  variable `ssh` is not yet assigned): `StageRaises`.  On a later one it is logged,
  and so is a command that fails, on any machine
  (`cloudschedulestrategy.py:250-254`); make is then not started there.

### ClusterConnector

On a cluster there is one machine, which nobody creates and nobody gives back.
`strategy` and `payload` choose among the ways through the stages:
`ClusterStrategy` and `HadoopStrategy` (which differ in the commands they run
only) or `JenkinsStrategy`; a connector with a payload, which is installed and whose
programs are asked for, or one without, whose program runs to its end inside of
the pass that executes it.  With Jenkins no machine is recorded, and the job ends after create.
The actions that differ from those of a cloud are
written anew, the others are taken from `SmartConnector`, and `ClusterPass` is
the pass.  The strategy of a cluster counts processes in its own way: the id
of its process is the number of the iteration plus one
(`clusterschedulestrategy.py:50`), which must fit what the stages that it shares
with the cloud expect of the tables.  `LifecycleSpec` says that it implements
the same `Lifecycle` as a cloud job, under the same mapping `Job`.

A command that fails is logged, and the process is in the tables as if it had been
started; it is then asked for ever, as on a cloud.  `CommandLost` is this
state.

### Sweep and RandomSeeds

`ContextTasks` sees of a sweep only that its pass loses the row lock.  `Sweep` is
the pass itself.  `position` is the place in the loop over the runs of the map;
`children` is what is committed for the child of a run, separately for each
`attempt` at the pass.  The creation of a child commits what was written before,
the final settings of the previous child included (`Committed`); its own final
settings are `unsaved` until the next creation or the end of the pass.  From the
save of the child's row on, that row is locked by the open transaction, so that
the child is not executed with its draft settings as long as the pass lives.
`Raise` commits (the exception is caught inside of the transaction), `Kill` rolls
back.  The runs themselves, their values files and inputs are data: a run is its
`run_counter`.

`RandomSeeds` is the loop of `generate_rands` with a file as it is read: a text
split at newlines, where a newline at the end makes one more, empty element
(`terminated`).  HRMC draws in rounds, one for each iteration.  `Raise` is the
exception at the end of the file (section 5).

### Platforms and Presets

A request for a platform is a sequence of steps, between which other requests
run: it validates what was posted, chooses the name of a key file that no file
has, makes a key pair (on the portal, and installs it on the host by ssh, or in the
cloud, which keeps the names of its key pairs), writes the file, and stores the
record.  The classes of platforms are records of what their hooks do.
An update is computed from a record that was read before, and then stored into
the record that has the name by now, which may be another one: `from` is the
identity of the first, `id` that of the second.  `GetPlatformSettings`
is a pass that reads a record and connects with its key later.  `overlap` is set
when two requests have chosen the same file name at once, which the code does not
prevent.  `KeysWork` is said without that, and without records that an update
computed from another record (`from # id`): two races in which the code does store keys
that do not work.

Every request about presets is one transaction, committed with its response and
undone when it raises (`TransactionMiddleware`, `settings_changeme.py:125`).  To
create a preset is `BeginPost`, which looks whether the name is free, and `EndPost`, which
inserts and commits, or fails at the unique name (`models.py:707`) or at a schema
that does not exist.  To change one, of the list or by its id, is `BeginPut`, which
reads the rows, `SaveParameter` row by row, each waiting for a row that another
transaction has saved, and `CommitPut`, at which others see all of them;
`SaveDeleted` is the put that finds its rows deleted by then, `Rollback` the
request that raises or is chosen to end a deadlock of row locks, `DeletePreset` the
deletion, which waits for locked rows too.  A value is represented by the request
that gave it.

### JobMessages and RunSettings

A message is its number.  A worker that takes a message from the queue locks the
rows of the job, if there are any, and changes one of them; if it finds none it
inserts one, like the view that submits the job.  Messages may overtake each
other and be lost, and the code does not mind.  What can be said is how many
rows there are.

`RunSettings` opens the box `version` of `ContextTasks`.  Settings are functions of
functions; a value is its source (`by`: 0 for the submission, or the number of the
stage) and its `form` (`int`, a text of digits, another text).  `MakeRunContext`
merges the arguments with the settings of each stage, checks them, and stores
them, or refuses the job.  It takes the two transactions of a submission as one step;
the window between them is in `ContextTasks`.  A pass (`BeginPass`, `SkipStage`,
`StoreOutput`, `FailToStore`, `NoStageTriggered`, `AbortPass`) reads the rows,
merges, and stores what the stage gives.  `Update` is `update_run_settings`, in
which an unknown schema (`models.py:534`) or name (`models.py:565`) raises after
some rows were changed; `FailedUpdates` are the states of the rows that can be left
behind, for any order of the dictionaries.  After such a failure (`FailToStore`) the
other stages say no (`StagesExclusive`), and the job ends with these rows
committed.  A row that the database refuses is only logged (`models.py:577`), but
the transaction cannot go on after it: `AbortPass`.

### Forms, Hrmc and CloudCalls

`Forms` follows a value from the form (`Clean`, or `PostDirectly` for a script)
through the validators of the REST interface (`Validate`) to the settings
(`Store`).  A value has a JSON type and, as a number, its double, so that 2.5 is
an integer of the model; what Python and Django make of a text is tabulated for
the texts that matter (blank, signs, fractions, words, paths, names of
platforms).

`Hrmc` is an iteration as three actions: `Run` and `Collect` the outputs with
their criteria, `Transform` chooses the best of them and copies them into the
inputs of the next iteration, `Converge` compares and ends or goes on.  The sort
is by whole units, which is why `CriterionIsBest` compares `Key`s.

`CloudCalls` takes apart what `CloudNodes` does in one step: machines start,
fail and end between the looks that the two waiting loops take at them.  The first
loop takes two looks at a machine (`LookIfExists`, `LookIfRunning`, each an `update()`) and
then uses the state that is cached with it; a machine that is not found at the first
look is given up, although it may only not be there yet and be found later
(`Reappears`).  The second loop removes from the list it is iterating over.  An
error of the API other than "not found" is raised.

### Abstract specifications

`JobRecord` (a record is created, made final once, advanced by whole passes, and
frozen at its end) is implemented by `ContextTasks` for all jobs but sweeps, under
the mapping `Record`.  `Lifecycle` (stages follow each other in order, an
iteration gets new processes, and is transformed when none is pending) is
implemented by `SmartConnector` and by `ClusterConnector` under the mapping `Job`;
its `stage` is computed by `StageNow` from the triggers.  `Lifecycle` lets bootstrap lead to `idle`, the end of
the job: a machine that is bootstrapped and then flagged as failed makes the
numbers that bootstrap compares differ for ever.

## 3. Runs

| run | question | properties | size |
|---|---|---|---|
| `TasksTimeLimit` | do passes exclude each other, sweep included? | `TypeOK`, `OnePassAtATime`, `SnapshotIsCurrent`, `RecordSpec` | 2 jobs, 2 workers, 1 fault; 582,000 states |
| `TasksLiveness` | does every submitted job end? | `EveryJobEnds` | 2 jobs, 1 worker, 2 faults; 173,000 states |
| `TasksDraft` | are settings final when a job is executed? | `ExecutedWithFinalSettings`: violated | 1 job |
| `ConnectorFaults` | do the stages cooperate whatever fails? | `TypeOK`, `StagesExclusive`, `TablesAgree`, `RunsLeftCountsRunning`, `TransformsCompleteIterations`, `ProcessesOnBootstrappedNodes`, `LifecycleSpec` | 3 machines, up to 6 processes, 2 faults; 132,000 states |
| `ConnectorCloud` | what holds when ssh, API and workers do not fail? | `NoVmUnaccounted`, `InputsMatchIds`, `ProgramsRunOnce` | the same; 28,000 states |
| `ConnectorLiveness` | does a job end? | `JobEnds` | 2 machines, 4 processes, 2 faults; 7,000 states |
| `ConnectorProcessFailure` | does one lost process end the job? | `FailedProcessesDoNotEndJob`: violated | 2 machines, 1 fault |
| `Cluster` | do the same stages work on a cluster, and does a job there end? | `ClusterTablesAgree`, `LifecycleSpec`, `ClusterJobEnds` | 1 machine, 2 processes, 5 ids, 2 faults; 1,600 states |
| `SweepFaults` | what is committed of a sweep whatever interrupts it, and does it end? | `TypeOK`, `OnlyLastIsDraft`, `DraftsAreFromKills`, `DoneIsComplete`, `JobsPerRun`, `SweepEnds` | 4 runs, 2 kills; 1,600 states |
| `Portal` | what do users, workers and passes make of the stored rows between them? | `PortalTypeOK`, `KeysWork`, `ValuesWereRequested`, `RowsAtMostWriters`, `RowsAreFromOneStage`, `ExecutedAsChecked` | see below; 1,338,000 states |
| `Algorithms` | do the loops, selections and conversions compute what their callers rely on? | `AlgorithmsTypeOK`, `LoopIsPlacement`, `IterationsDoNotOverlap`, `NumericReadable`, `NumbersKept`, `CriterionIsBest`, `NoRunningVmForgotten`, `DestroyWaits`, `CallsReturn` | see below; 553,000 states |
| `HrmcKeepsComparing` | does HRMC stop when it has converged? | `StopsWhenConverged`: violated | as `Algorithms` |

Bounds.  Two workers are enough for two to meet at a job, with a second job to
keep one of them busy; one pending task of a job (`MaxQueue`) beside a running one
are duplicates;
`MaxPass` allows two passes, so that a stale snapshot differs from a current one.
Three machines with `MaxVms` 2 leave one that never belongs to the job; three
processes per iteration on two machines give an uneven assignment, and `MaxIds` 6
gives two full or up to six small iterations.  Two faults allow a fault during
the handling of another.  Two kills of a sweep give three attempts, so that
children of two interrupted ones are there when one completes.

Of `Portal`: two names of platforms, so that a platform is renamed to another one's
name; a kind with generated keys, one with keys of the cloud and one without keys;
four requests, which are a record, its update, its deletion and its
replacement; key files with a counter of at most one and three key pairs; one job
with a pass.  Presets have one name, four requests and two parameters: two puts
that meet at two rows, after a creation, a deletion and another creation have
taken two, or with a deletion between them.  Two
workers and the view write four messages.  Run settings have three stages, two
schemas with three parameters, an undeclared parameter of one of them and one of a
schema that does not exist, and all sets of arguments.
Names and requests are symmetric.

Of `Algorithms`: up to five machines and nine processes, in a first and a later
iteration, meet every remainder.  A file of five lines is shorter than what MCSA
and three iterations draw, and wraps.  `Forms` takes all kinds of parameters and
all tabulated texts, with one platform whose name looks like a number.  Hrmc has
four criteria, two of which are one whole unit, thresholds of one and two
numbers, fanouts of one and two, three iterations.  The calls have three
machines, of which at least one is reserved, and meet the timeout after one
round: a list of three is the shortest in which the skipping loop skips a machine
that is not the last.  Each machine may be missing for a while once.

Symmetry is used in runs that check safety only.

Deadlock is not checked for jobs, sweeps, requests and algorithms
(`CHECK_DEADLOCK FALSE`): they end.  It is checked for the tasks, where the beat
always goes on.

Fairness.  `ContextTasks`: the beat ticks for ever
(`settings_changeme.py`, `CELERYBEAT_SCHEDULE`), a worker goes on with a task it
has taken, redis locks expire, and the queue is first in first out, so that a
job whose task can again and again be taken gets it taken (strong fairness per
job).  Nothing makes users delete jobs or submit them.  `SmartConnector`: passes
go on (what `EveryJobEnds` of the other module relies on) and make and programs
come to their end.  `ClusterConnector`: the same of its own pass and machine.
`Sweep`: as for `SmartConnector`,
passes go on, and kills are finitely many.  `CloudCalls`: the code goes on, a
machine leaves the state pending (one that was missing for a while, too), and a
termination that the cloud has accepted happens; nothing makes a missing
machine come back.  `Hrmc`: the job goes on.  `JobEnds` is checked without the
faults `vm`, `ssh` and `api`: if make was never
started on a machine, or the machine is lost while make runs, the code asks for
ever whether it is done, and the job never ends.  `ClusterJobEnds` excludes the
command that was lost for the same reason.  `CallsReturn` excludes a machine that
the cloud terminates before the first loop has seen it running: that loop waits
for it for ever, and with it the pass, until the time limit.  Within
`CloudNodes` this is a kill.

## 4. Proofs

`ContextTasks_proofs`, for any jobs, workers, sweeps, bounds and switches:

- `TypeCorrect`: `Spec => []TypeOK`.
- `MutualExclusion`: `Spec => []OnePassAtATime`.  By itself it is not inductive.
  The invariant adds who holds which lock: a worker processing an ordinary job
  holds its row (`RowLockOfPass`); a worker that is busy with a job holds its
  redis lock if the time limit is enforced (`RedisLockOfTask`).  Two passes over
  a job would hold one lock.
- `NoLostUpdate`: `Spec => []SnapshotIsCurrent`, from mutual exclusion: only the
  pass itself could have changed the version since it read it.
- `RecordImplemented`: `Spec => RecordSpec`, step by step under the mapping.

`SmartConnector_proofs`, for any machines, bounds and faults:

- `TypeCorrect`: `Spec => []TypeOK`; the variables of the machines and those of the
  processes are treated in separate lemmas.
- `OneStageAtATime`: `Spec => []StagesExclusive`.  The invariant `Order`
  (`OrderInvariant`) says how far the settings of a later stage can be when those of an earlier one are not yet
  set (nothing scheduled before bootstrap is done, nothing left to schedule
  once it is completed, nothing to wait for unless executed, and so on); it
  implies that any two triggers exclude each other (`OrderExcludes`).  TLC checked
  `Order` before it was proved.
- `ProcessesAreReachable`: `Spec => []ProcessesOnBootstrappedNodes`, and
  `MachinesAreAccounted`: `Spec => []NoVmUnaccounted`.  The invariant `Recorded`
  adds that machines are bootstrapped only when create has recorded them and that
  destroy comes after create; `NoVmUnaccounted` is conditional on the kinds of
  faults that break it (`ssh`, `api`, `kill`).

`Iteration_proofs`, on top of `SmartConnector_proofs`:

- `TablesAlwaysAgree`: `Spec => []TablesAgree`.
- `RunsLeftIsExact`: `Spec => []RunsLeftCountsRunning`; `runs_left` is therefore
  never negative, although `wait.py` computes it as a difference of the lengths of
  two lists that other stages fill.
- `NoPrematureTransform`: `Spec => []TransformsCompleteIterations`.

  None of the three is inductive.  The invariant `Counts` adds why execute's and
  wait's countings meet: execute has no processes left to start once one is
  completed, `finished_nodes` is the list of the completed processes for as long
  as `runs_left` is not zero, and a completed process has stopped on its machine.
  That a stage acts in its turn is taken from `Order`.
- `InputsMeetProcesses`: `Spec => []InputsMatchIds`.  The invariant `Numbering`
  says that the number of the first input is one more than the last id before an
  iteration is scheduled, and again after it was executed.
- `NoProgramRunsTwice`: `Spec => ProgramsRunOnce`, an action property.  Its invariant
  `IdleUntilStarted` says that the program of a process that is not yet executed
  has not run, where workers are not killed.
- `LifecycleImplemented`: `Spec => LifecycleSpec`, the refinement.  Every action of
  `SmartConnector` is a step of `Lifecycle` under the mapping `Job`, or a
  stutter.  The mapping computes the stage from the triggers; what one stage's
  output does to the triggers of all others needs the invariant `Turns`
  besides `Order` and `Counts`, and the lemma `StageDue` that the stage of the
  mapping is the one whose turn it is.

`Sweep_proofs`, for any number of runs and kills: `TypeCorrect`, `SubmittedInOrder`
(`OnlyLastIsDraft`), `DoneSubmittedAll` (`DoneIsComplete`), `DraftsBounded`
(`DraftsAreFromKills`) and `JobsBounded` (`JobsPerRun`: a sweep that is interrupted
submits its runs again, since the pass does not look for the children it already
has (`sweep.py:311`), but only once for each dead worker).  The inductive invariant has two parts: `Loop` says that
in a pass the children before `position` are final as soon as the open
transaction is committed and that those after it do not exist; `Attempt` that
there is one attempt for each dead worker, and one more, and that an attempt
that came to its end by itself has no draft.  The two bounds follow by
counting attempts.

`Platforms_proofs`, for any names, requests, jobs and bounds:

- `TypeCorrect`: `Spec => []TypeOK`, and `KeysAlwaysWork`: `Spec => []KeysWork`, with
  the two exceptions that `KeysWork` makes: file names chosen twice at once, and
  records computed from another record of the same name.
  `KeysWork` looks at stored records and passes only; the invariant `KeyInv`
  follows a key through a request.  Without overlap, the file whose name a request
  has chosen does not exist and no other request has chosen it (`NamesChosen`);
  the key that a request is about to store is in its file and accepted
  (`KeysMade`); a file of a cloud's key has its name taken at the cloud, so that
  it is not made again (`CloudFilesRegistered`); a record of a schema without the
  parameter has no path (`PathsHaveParameter`); an update is of the type that the
  record it started from is stored under (`OriginsAgree`).

`ClusterConnector_proofs`, on top of `Iteration_proofs`, for any strategy, with and
without a payload, and any faults: `ClusterTablesAlwaysAgree`
(`ClusterSpec => []ClusterTablesAgree`), `ClusterOneStageAtATime`,
`ClusterNoPrematureTransform`, and the refinement `ClusterLifecycleImplemented`
(`ClusterSpec => LifecycleSpec`).  A stage that a cluster shares with a cloud is
the same action, so what the other two modules prove of it is used again, lemma by
lemma; new are the steps that the cluster replaces.  The invariant of a cloud job
says that the ids of processes are those up to an index; on a cluster without a
payload there is one process, numbered after its iteration, and `IterationIds` takes
the place of that: the ids given out are those up to `id`, and one more between
the schedule and the next converge.

`Portal_proofs`, for any workers, requests, names, schemas and stages:

- `PortalTypeCorrect`: `PortalSpec => []PortalTypeOK`.  `PortalCorrect` only carries
  the other invariants of the run over from the parts to the composition.
- Messages: `MessagesTypeCorrect`, and `RowsBounded` (`RowsAtMostWriters`), which is
  not inductive, since an insertion that is pending becomes a row.  The
  invariant `RowsCounted` counts rows and pending insertions together: as soon as
  there is a row no insertion is begun, and before that each writer has one
  at most.
- Presets: `ValuesAlwaysRequested` (`ValuesWereRequested`).  With the types the
  property is inductive.  A request writes only its own state (`OnlyItsState`), and a
  preset that a step leaves alone keeps it (`PresetKept`); a creation starts a new
  stamp, so that no earlier request counts as successful for it (`ValuesOfPost`); a
  put changes the values of all its keys in one step, so that every other request
  loses all the names they share (`ValuesOfPut`).
- Run settings: `SettingsTypeCorrect`, `RowsFromOneStage` (`RowsAreFromOneStage`) and
  `AlwaysExecutedAsChecked` (`ExecutedAsChecked`).  The second is not inductive.
  `update_run_settings` leaves rows of schemas alone that its settings do not have,
  so that the rows are those of one stage only because a stage's settings have every
  schema of the rows: a pass starts from all of them, and merging and setting names
  drops none (`OutputsKeepSchemas`, `UpdateReplaces`).  The invariant `RowsKnown` says this,
  and that a pass sees the committed rows unless a stage of it has failed, after
  which no stage stores.  For the third,
  `SubmissionInv` adds that the settings that were checked are those of the
  arguments of the submission; then the check of stage i, a merge that goes on
  from stage to stage and in which the submission and earlier stages win, is
  compared with what a pass merges for stage i alone, in which the stage wins.
  Where they agree, in which names and with which values, is the theorem; where
  they do not, it says whose values are in conflict.
  The merge over the stages is a recursive function; that it is defined for each
  stage (`TestDefined`), which pairs it has (`TestPairs`), and that its values are from
  a source (`TestSource`), are inductions over the stages.

`Algorithms_proofs`, for any values of the constants: `AlgorithmsTypeCorrect`
(`AlgorithmsSpec => []AlgorithmsTypeOK`) and `AlgorithmsCorrect`, the safety
properties of the run, of the composition; and of each algorithm:

- `PlacementOfLoop` (`LoopIsPlacement`): the loop that hands out shares of
  processes computes what `Placement` says in closed form, which `SmartConnector`
  uses.  The invariant `PlaceOfLoop` says where the loop is after each machine:
  how much of the remainder is left and how many processes are placed.  That a
  process between two such places is on the machine that the quotient names is
  the lemma `BlockOfMachine`.
- `SeedsTypeCorrect`, and `IterationsApart` (`IterationsDoNotOverlap`), about the scheme
  MC; the second iteration of MCSA meets lines of the first, which draws 4N lines
  and goes on N lines further.  The invariant `DrawnInOrder`: the lines of a round
  are consecutive from where it begins, with one turn around the end of the file, and those of the rounds before it are the
  lines before that place.
- `NumbersAlwaysReadable` (`NumericReadable`) and `NumbersAlwaysKept` (`NumbersKept`), with
  an invariant each on what a value may be between the stages of its way
  (`ReadableSoFar`, `KeptSoFar`).
- `CriterionAlwaysBest` (`CriterionIsBest`).  The invariant `FirstAreKept`: whatever
  transform did not keep is, in whole units, not better than anything it kept.
  The number of outputs is a sum over the criteria, taken as the cardinality of
  `Copies`; that it is a number is an induction on the set of criteria.
- `NoneForgotten` (`NoRunningVmForgotten`) and `AllGone` (`DestroyWaits`), about the
  loops of the cloud connection.  The invariant `ListInv`: lists have no duplicates;
  what is left of a pass is still in the list (`PassIsListed`); a reserved machine
  that came to run is in the list or among the running ones, unless it was not found
  for a while (`StartedIsListed`); those among the running ones did run, so that there
  is always an answer about them (`RunningRan`); an accepted machine that is not gone
  is in the list (`AcceptedIsListed`).  That removing at the iterator's place loses no machine but that one is a lemma
  about `RemoveAt`.  `CallsBounded` bounds the place in the list: a list without
  duplicates is no longer than there are machines.

The texts of `Forms` are the tabulated ones: its two theorems are for any
platforms, and for these texts.

Most theorems about a part of `Portal` or of `Algorithms` have the assumption of
their module (such as `PlatformsAssumption`) as a hypothesis; the compositions
assume them (`PartsAreSound`, `AlgorithmsAreSound`), and TLC checks that the
instances fulfil them.

Other assumptions are the ASSUMEs of the modules: bounds are natural numbers, `Vms` is
finite, sentinels differ from values.

Model-checked only: liveness (`EveryJobEnds`, `JobEnds`, `ClusterJobEnds`,
`SweepEnds`, `CallsReturn`), which is out of the prover's reach.  Every invariant
that a passing run checks, every action property and every refinement are
proved.  Inductions over natural numbers are done by a least counterexample (`LeastNat`,
from `NatLessThanWellFounded`), since the library's induction theorem takes an
operator, which the provers here cannot instantiate.

`NoVmUnaccounted`, `InputsMatchIds` and
`ProgramsRunOnce` hold for some kinds of faults only and say so; `ConnectorCloud`
checks them with these, where they are not vacuous.

## 5. What the runs found

- `TasksDraft`.  The job is committed before its final settings are, and the beat
  may run a pass on it in between (`jobs.py:285-297`).
- `ConnectorProcessFailure`.  A misspelt key makes the handling of failed processes
  end the job (`wait.py:392`).
- `HrmcKeepsComparing`.  The criterion of the previous iteration is read from
  `converge/criterion` (`examples/hrmc/converge.py:137`), but stored under
  `stages/converge/criterion` (`corestages/converge.py:247`): HRMC never stops by
  convergence.

Found while modelling, without a run of their own:

- Machines that were reserved but did not answer to ssh are forgotten and keep
  running (`cloudconnection/manage.py:47-51`).  `NoVmUnaccounted` is about the
  others.
- A machine that the cloud does not find at the first look after its reservation
  is taken off the list (`botoconnector.py:135-137`).  If it appears later, it
  runs and nobody knows of it: the exception in `NoRunningVmForgotten`.
- A seed that `Sweep.input_valid` accepts makes the sweep fail when
  the drawing meets the end of `randomnums.txt`: the text behind the last newline
  is taken for a number (`jobs.py:390`; `Raise` in `RandomSeeds`).
- `check_addition` reads its first argument into both summands
  (`simpleui/validators.py:299`); `Forms` has no sums.

## 6. Not modelled, and what is left

Not modelled:

- Storage, ssh and commands (`storage/`, `sshconnection/`, `compute/`): input and
  output.  Their effects on machines and their failures are in the models of
  those who call them.
- MyTardis, an external service; errors of it are exceptions of a stage.  The
  scientific programs.
- Pages, wizards, accounts, templates, and migrations.
- The commands that load schemas, directives and stages.  They run once; what
  they load is the state the models start in.
- Code that is never reached: `progress_context_broken`, the rescheduling
  (`start_round_robin_reschedule` and what follows a failed process, see
  `ConnectorProcessFailure`) with the retry counters of `FTManager`, and
  `platform/unix.py`, which is in no table of classes.
- `new_directive` and the posts of single directives, older forms of the
  submission that is modelled.
- In a sweep, the values files and inputs of a child: data that no decision
  of the modelled code depends on, apart from the number of runs.
- Lists of values (`STRLIST`) in run settings, and user settings.

Left, in the order of what it would add: the expansion of a map into runs and
the merge of values from form, file and run; the composition of
`CloudCalls` with `CloudNodes` as a refinement; the rescheduling, once a
corrected `wait.py` reaches it.
