---------------------------- MODULE RunSettings ----------------------------
(***************************************************************************)
(* The run settings of one job: how they are put together from the         *)
(* arguments of a submission (smartconnectorscheduler/jobs.py), checked    *)
(* against the settings of each stage, stored row by row (models.py),      *)
(* read by a pass, merged with the settings of a stage (tasks.py), changed *)
(* by it (runsettings/run_settings.py) and stored again.                   *)
(*                                                                         *)
(* Settings are a dictionary of dictionaries: a function of schemas whose  *)
(* values are functions of names.                                          *)
(***************************************************************************)
EXTENDS Naturals, FiniteSets

CONSTANTS
  Declared,  \* the pairs <<schema, name>> that the database declares
  Numeric,   \* those whose type is NUMERIC; the others are texts
  Unknown,   \* other pairs: their schema does not have the name, or is unknown
  Stages,    \* the stages of the job's directive, in their order: 1 .. n
  Own,       \* the settings that are stored with each stage
  Arguments  \* the settings that a submission may give

VARIABLES
  job,       \* "none", "live", "refused" or "over"
  given,     \* the arguments of the submission
  checked,   \* the settings with which each stage was found valid
  committed, \* the stored rows, as other transactions see them
  stored,    \* the stored rows, as the pass at work sees them
  pass,      \* what the pass is doing
  last       \* the settings that were last stored without an error

settingVars == <<job, given, checked, committed, stored, pass, last>>

-----------------------------------------------------------------------------
Pairs == Declared \cup Unknown
Schemas == {p[1] : p \in Pairs}
DeclaredSchemas == {p[1] : p \in Declared}
None == [s \in {} |-> {}]
Has(settings, p) ==
  p[1] \in DOMAIN settings /\ p[2] \in DOMAIN settings[p[1]]
PairsOf(settings) == {p \in Pairs : Has(settings, p)}

\* A value: who wrote it (0: the submission, else the stage), and whether it
\* is a number, the text of a number or another text.
Forms == {"int", "digits", "word"}
SettingValues == [by : {0} \cup Stages, form : Forms]

SettingsWithin(settings) ==
  /\ DOMAIN settings \subseteq Schemas
  /\ \A s \in DOMAIN settings : \A k \in DOMAIN settings[s] :
       <<s, k>> \in Pairs /\ settings[s][k] \in SettingValues

RunSettingsAssumption ==
  /\ Numeric \subseteq Declared
  /\ \A p \in Pairs : p = <<p[1], p[2]>>
  /\ IsFiniteSet(Stages) /\ Stages = 1 .. Cardinality(Stages)
  /\ \A i \in Stages : SettingsWithin(Own[i])
  /\ \A settings \in Arguments : SettingsWithin(settings)

\* A dictionary with the entries of new, and those of old for other keys.
Over(new, old) ==
  [x \in DOMAIN new \cup DOMAIN old |->
     IF x \in DOMAIN new THEN new[x] ELSE old[x]]

\* setvals and setval, by one writer in one form: a schema that is missing is
\* created.
SetVals(settings, ps, v) ==
  [s \in DOMAIN settings \cup {p[1] : p \in ps} |->
     Over([k \in {p[2] : p \in {q \in ps : q[1] = s}} |-> v],
          IF s \in DOMAIN settings THEN settings[s] ELSE None)]

\* delkey, of a name that is there
DelKey(settings, p) ==
  [settings EXCEPT ![p[1]] =
     [k \in DOMAIN settings[p[1]] \ {p[2]} |-> settings[p[1]][k]]]

\* A bug: a schema of the new settings replaces the old one as a whole.
TransferSchemas(old, new) == Over(new, old)

\* transfer: name by name, the new settings win.  (An empty dictionary in new
\* adds nothing.)
Transfer(old, new) ==
  [s \in DOMAIN old \cup {t \in DOMAIN new : DOMAIN new[t] # {}} |->
     IF s \in DOMAIN new /\ s \in DOMAIN old THEN Over(new[s], old[s])
     ELSE IF s \in DOMAIN old THEN old[s] ELSE new[s]]

\* A row holds the text of its value.
Text(v) == IF v.form = "int" THEN [v EXCEPT !.form = "digits"] ELSE v

\* ParameterName.get_value; int fails for other texts.
Readable(rows) == \A p \in PairsOf(rows) \cap Numeric :
                    rows[p[1]][p[2]].form = "digits"

\* get_context: what the rows say, in the types of their names.
GetContext(rows) ==
  [s \in DOMAIN rows |-> [k \in DOMAIN rows[s] |->
     IF <<s, k>> \in Numeric THEN [rows[s][k] EXCEPT !.form = "int"]
     ELSE rows[s][k]]]

\* What is stored of one schema.
RowsOf(settings, s) == [k \in DOMAIN settings[s] |-> Text(settings[s][k])]

\* A bug: names that were dropped keep their rows.
UpdateWithoutDelete(rows, settings) ==
  Over([s \in DOMAIN settings |->
          Over(RowsOf(settings, s),
               IF s \in DOMAIN rows THEN rows[s] ELSE None)],
       rows)

\* update_run_settings: the rows of each schema are replaced; rows of other
\* schemas stay.
Update(rows, settings) ==
  [s \in DOMAIN settings \cup DOMAIN rows |->
     IF s \in DOMAIN settings THEN RowsOf(settings, s) ELSE rows[s]]

KnownNames(settings, s) == {k \in DOMAIN settings[s] : <<s, k>> \in Declared}
KnownSchemas(settings) ==
  {s \in DOMAIN settings : KnownNames(settings, s) = DOMAIN settings[s]}

\* The rows of schema s are those of the names in set, and those from before
\* that the settings have.
PartlyUpdated(rows, settings, s, set) ==
  LET kept == {k \in DOMAIN settings[s] : Has(rows, <<s, k>>)}
  IN  Over([t \in {s} |-> [k \in set \cup kept |->
              IF k \in set THEN Text(settings[s][k]) ELSE rows[s][k]]],
           rows)

(***************************************************************************)
(* update_run_settings fails at the first schema or name that is unknown.  *)
(* The order of the schemas and of the names is that of the dictionaries:  *)
(* any set of schemas may be done, and any of the declared names of the    *)
(* schema in which it fails, whose dropped names have been deleted by      *)
(* then; an unknown schema has no rows.                                    *)
(***************************************************************************)
FailedIn(rows, settings, s) ==
  {Update(IF s \in DeclaredSchemas THEN PartlyUpdated(rows, settings, s, set)
          ELSE rows,
          [t \in done |-> settings[t]]) :
     set \in SUBSET KnownNames(settings, s),
     done \in SUBSET KnownSchemas(settings)}
FailedUpdates(rows, settings) ==
  UNION {FailedIn(rows, settings, p[1]) : p \in PairsOf(settings) \ Declared}

-----------------------------------------------------------------------------
(***************************************************************************)
(* check_settings_valid: each stage in turn is given the settings together *)
(* with its own and those of the stages before it.                         *)
(***************************************************************************)
SettingsToTest(settings) ==
  LET test[i \in {0} \cup Stages] ==
        IF i = 0 THEN settings ELSE Transfer(Own[i], test[i - 1])
  IN  test

\* What a stage of a pass works with: its own settings win.
TaskRunSettings(rows, i) == Transfer(GetContext(rows), Own[i])

NoPass == [at |-> "idle", settings |-> None, todo |-> {}]

SettingsInit ==
  /\ job = "none"
  /\ given = None
  /\ checked = None
  /\ committed = None
  /\ stored = None
  /\ pass = NoPass
  /\ last = None

(***************************************************************************)
(* make_runcontext_for_directive: the arguments, numbers where they look   *)
(* like one (_get_command_actual_args), each schema as a whole             *)
(* (_make_run_settings_for_command); the stages are asked whether they are *)
(* valid; and they are stored.  A name that is unknown undoes the job.     *)
(* The code does so in two transactions, of which the second adds          *)
(* contextid and the settings of the user; the window between them is in   *)
(* ContextTasks, so that here both are one step.                           *)
(***************************************************************************)
MakeRunContext ==
  /\ job = "none"
  /\ given' \in Arguments
  /\ \/ /\ PairsOf(given') \subseteq Declared
        /\ job' = "live"
        /\ checked' = SettingsToTest(given')
        /\ committed' = Update(None, given')
        /\ last' = given'
     \/ /\ job' = "refused"
        /\ UNCHANGED <<checked, committed, last>>
  /\ stored' = committed'
  /\ UNCHANGED pass

\* A stage without children is asked itself, otherwise its children are.
StageSet == IF Stages = {1} THEN {1} ELSE Stages \ {1}

\* _process_context: rows that cannot be read end the pass, not the job.
BeginPass ==
  /\ job = "live" /\ pass.at = "idle"
  /\ Readable(committed)
  /\ pass' = [at |-> "asking", settings |-> GetContext(committed),
              todo |-> StageSet]
  /\ UNCHANGED <<job, given, checked, committed, stored, last>>

\* The settings of the pass are merged with those of the stage in a copy.
Task(i) == Transfer(pass.settings, Own[i])

\* is_triggered says no, or the stage raises.
SkipStage(i) ==
  /\ pass.at = "asking" /\ i \in pass.todo
  /\ pass' = [pass EXCEPT !.todo = @ \ {i}]
  /\ UNCHANGED <<job, given, checked, committed, stored, last>>

\* What a stage may leave in its settings: names set, or one deleted.
Outputs(i) ==
  {SetVals(Task(i), ps, [by |-> i, form |-> f]) :
     ps \in {qs \in SUBSET Pairs : Cardinality(qs) <= 2}, f \in Forms}
  \cup {DelKey(Task(i), p) : p \in PairsOf(Task(i))}

\* A bug: names are stored without looking for their declaration.
StoreUnchecked(i) ==
  /\ pass.at = "asking" /\ i \in pass.todo
  /\ \E settings \in Outputs(i) :
       stored' = Update(stored, settings) /\ last' = settings
  /\ committed' = stored'
  /\ pass' = NoPass
  /\ UNCHANGED <<job, given, checked>>

\* The output of the triggered stage is stored, and the pass commits.
StoreOutput(i) ==
  /\ pass.at = "asking" /\ i \in pass.todo
  /\ \E settings \in Outputs(i) :
       /\ PairsOf(settings) \subseteq Declared
       /\ stored' = Update(stored, settings)
       /\ last' = settings
  /\ committed' = stored'
  /\ pass' = NoPass
  /\ UNCHANGED <<job, given, checked>>

\* A bug: the same settings trigger another stage, too.
FailAndGoOn(i) ==
  /\ pass.at = "asking" /\ i \in pass.todo
  /\ \E settings \in Outputs(i) :
       stored' \in FailedUpdates(stored, settings)
  /\ pass' = [pass EXCEPT !.todo = @ \ {i}]
  /\ UNCHANGED <<job, given, checked, committed, last>>

\* The output has an unknown name: the error is caught inside the transaction,
\* with the rows that were stored before it.  The other stages are asked, and
\* say no: one stage is triggered by any settings (StagesExclusive).
FailToStore(i) ==
  /\ pass.at = "asking" /\ i \in pass.todo
  /\ \E settings \in Outputs(i) :
       stored' \in FailedUpdates(stored, settings)
  /\ pass' = [pass EXCEPT !.at = "failed", !.todo = {}]
  /\ UNCHANGED <<job, given, checked, committed, last>>

\* No stage was triggered, or its output could not be stored: the job ends,
\* and what was stored of it is committed.
NoStageTriggered ==
  /\ pass.at \in {"asking", "failed"} /\ pass.todo = {}
  /\ job' = "over"
  /\ committed' = stored
  /\ pass' = NoPass
  /\ UNCHANGED <<given, checked, stored, last>>

\* A bug: the transaction is committed as far as it has come.
CommitAborted ==
  /\ pass.at \in {"asking", "failed"}
  /\ committed' = stored
  /\ pass' = NoPass
  /\ UNCHANGED <<job, given, checked, stored, last>>

\* The time limit, the end of the worker, or a row that the database refuses
\* (with which the transaction cannot go on): the transaction is undone.
AbortPass ==
  /\ pass.at \in {"asking", "failed"}
  /\ stored' = committed
  /\ pass' = NoPass
  /\ UNCHANGED <<job, given, checked, committed, last>>

SettingsNext ==
  \/ MakeRunContext
  \/ BeginPass
  \/ \E i \in StageSet : SkipStage(i) \/ StoreOutput(i) \/ FailToStore(i)
  \/ NoStageTriggered
  \/ AbortPass

SettingsSpec == SettingsInit /\ [][SettingsNext]_settingVars

-----------------------------------------------------------------------------
SettingsTypeOK ==
  /\ job \in {"none", "live", "refused", "over"}
  /\ SettingsWithin(given)
  /\ \A i \in DOMAIN checked : i \in {0} \cup Stages
                                 /\ SettingsWithin(checked[i])
  /\ \A rows \in {committed, stored} :
       SettingsWithin(rows) /\ PairsOf(rows) \subseteq Declared
  /\ pass.at \in {"idle", "asking", "failed"}
  /\ SettingsWithin(pass.settings)
  /\ pass.todo \subseteq Stages
  /\ SettingsWithin(last)

(***************************************************************************)
(* The rows of a job that goes on are exactly the last settings that a     *)
(* stage, or the submission, stored without an error, in every schema: no  *)
(* part of an output that failed halfway, of a pass that was undone or of  *)
(* earlier settings is mixed in, a deleted name is gone, and no schema is  *)
(* left over (models.py:525-588, tasks.py:225-289).                        *)
(***************************************************************************)
RowsAreFromOneStage ==
  job = "live" => committed = [s \in DOMAIN last |-> RowsOf(last, s)]

\* Those that give the pair a value for stage i, and the text they give.
Sources(p, i) ==
  {j \in 1 .. i : Has(Own[j], p)} \cup (IF Has(given, p) THEN {0} ELSE {})
TextBy(j, p) ==
  LET settings == IF j = 0 THEN given ELSE Own[j]
  IN  Text(settings[p[1]][p[2]])

(***************************************************************************)
(* What a stage is first executed with was checked: it has no name that    *)
(* its check did not see, and lacks one that the check saw only if no one  *)
(* but an earlier stage gives it.  It has another value than the checked   *)
(* one only for a name of its own to which the submission or an earlier    *)
(* stage gives another value: there the check sees theirs, the pass its    *)
(* own (jobs.py:186-227, tasks.py:224-231).                                *)
(***************************************************************************)
ExecutedAsChecked ==
  job = "live" /\ last = given /\ Readable(committed) =>
    \A i \in StageSet, p \in Pairs :
      LET task == TaskRunSettings(committed, i)
      IN  /\ Has(checked[i], p) <=> Sources(p, i) # {}
          /\ Has(task, p) <=> Sources(p, i) \cap {0, i} # {}
          /\ Has(task, p) /\ Text(task[p[1]][p[2]])
                               # Text(checked[i][p[1]][p[2]]) =>
               /\ i \in Sources(p, i)
               /\ \E j \in Sources(p, i) : TextBy(j, p) # TextBy(i, p)

=============================================================================
