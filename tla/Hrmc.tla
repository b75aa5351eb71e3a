-------------------------------- MODULE Hrmc --------------------------------
(***************************************************************************)
(* The iterations of a HRMC job as its results drive them (examples/hrmc): *)
(* HRMCParent decides how many processes run, HRMCTransform keeps the best *)
(* of their outputs as the inputs of the next iteration and HRMCConverge   *)
(* decides whether there is one.  SmartConnector models how the stages     *)
(* take turns; here an iteration is run, transform and converge.           *)
(***************************************************************************)
EXTENDS Integers, Sequences, FiniteSets, Functions

CONSTANTS
  Criteria,       \* criteria an output may have, in units of 1 / Scale
  Scale,
  Exponent,       \* the criteria whose text has an exponent, as 5e-05
  Thresholds,     \* values of the parameter threshold
  Fanouts,        \* values of fanout_per_kept_result
  MaxIteration,   \* the parameter max_iteration
  ErrorThreshold, \* the parameter error_threshold, in units of 1 / Scale
  Unset           \* no such setting

HrmcAssumption ==
  /\ Criteria \subseteq Nat /\ Criteria # {} /\ IsFiniteSet(Criteria)
  /\ Exponent \subseteq Criteria /\ Unset \notin Criteria
  /\ Scale \in Nat \ {0} /\ ErrorThreshold \in Nat /\ MaxIteration \in Nat
  /\ Fanouts # {} /\ Fanouts \subseteq Nat \ {0}
  /\ Thresholds # {} /\ Thresholds \subseteq Seq(Nat) \ {<< >>}

VARIABLES
  scheme,     \* optimisation_scheme
  threshold,
  fanout,
  stage,      \* the next stage, or how the job has ended
  id,         \* system/id
  inputs,     \* number of directories in input_<id>
  left,       \* processes that have not ended
  outputs,    \* number of directories in output_<id> with each criterion
  broken,     \* one of them has no psd.dat
  kept,       \* the same for the directories made in input_<id + 1>
  settings    \* the criterion stored under each name

form == <<scheme, threshold, fanout>>
hrmcVars == <<form, stage, id, inputs, left, outputs, broken, kept, settings>>

\* The name that Converge.output writes and the one HRMCConverge reads.
WrittenName == "stages/converge/criterion"
ReadName == "converge/criterion"

Nothing == [c \in Criteria |-> 0]
Copies(bag) == UNION {{c} \X (1 .. bag[c]) : c \in Criteria}
Count(bag) == Cardinality(Copies(bag))

HrmcTypeOK ==
  /\ scheme \in {"MC", "MCSA"} /\ threshold \in Thresholds /\ fanout \in Fanouts
  /\ stage \in {"run", "transform", "converge", "done", "failed"}
  /\ {id, inputs, left} \subseteq Nat
  /\ broken \in BOOLEAN
  /\ outputs \in [Criteria -> Nat] /\ kept \in [Criteria -> Nat]
  /\ \A c \in Criteria : kept[c] <= outputs[c]
  /\ settings \in [{WrittenName, ReadName} -> Criteria \cup {Unset}]

-----------------------------------------------------------------------------
(***************************************************************************)
(* get_internal_sweep_map and get_total_procs_per_iteration: every input   *)
(* directory is run with every variation.                                  *)
(***************************************************************************)
Variations(i) ==
  CASE scheme = "MC" -> fanout
    [] scheme = "MCSA" /\ i = 0 -> 4 * threshold[1]
    [] scheme = "MCSA" /\ i > 0 -> 4

TotalProcs(i, dirs) == Variations(i) * dirs

HrmcInit ==
  /\ scheme \in {"MC", "MCSA"}
  /\ threshold \in Thresholds
  /\ fanout \in Fanouts
  /\ stage = "run"
  /\ id = 0
  /\ inputs = 1
  /\ left = TotalProcs(0, 1)
  /\ outputs = Nothing
  /\ broken = FALSE
  /\ kept = Nothing
  /\ settings = [n \in {WrittenName, ReadName} |-> Unset]

End(how) ==
  /\ stage' = how
  /\ UNCHANGED <<form, id, inputs, left, outputs, broken, kept, settings>>

(* A process leaves an output with a criterion, or one without its values  *)
(* file, which process_outputs passes over, or without psd.dat.            *)
Run ==
  /\ stage = "run" /\ left > 0
  /\ left' = left - 1
  /\ \/ /\ \E c \in Criteria : outputs' = [outputs EXCEPT ![c] = @ + 1]
        /\ UNCHANGED broken
     \/ UNCHANGED <<outputs, broken>>
     \/ broken' = TRUE /\ UNCHANGED outputs
  /\ UNCHANGED <<form, stage, id, inputs, kept, settings>>

Collect ==
  /\ stage = "run" /\ left = 0
  /\ End("transform")

-----------------------------------------------------------------------------
(***************************************************************************)
(* HRMCTransform.process_outputs.  total_picks takes the values of         *)
(* threshold for its indices when it has more than one.                    *)
(***************************************************************************)
IndexError ==
  /\ Len(threshold) > 1
  /\ \E i \in DOMAIN threshold : threshold[i] >= Len(threshold)

TotalPicks ==
  IF Len(threshold) > 1
  THEN FoldFunction(LAMBDA i, t : threshold[i + 1] * t, 1, threshold)
  ELSE threshold[1]

EnoughOutputs == ~IndexError /\ TotalPicks <= Count(outputs)

\* self.outputs.sort(key=lambda x: int(x.criterion)); the directories come in
\* any order, and those with the same key keep it.
Key(c) == c \div Scale

\* Mutant: the largest criteria come first.
LastPicks(picks) ==
  {k \in [Criteria -> 0 .. picks] :
     /\ Count(k) = picks
     /\ \A c \in Criteria : k[c] <= outputs[c]
     /\ \A c, d \in Criteria :
          k[c] > 0 /\ k[d] < outputs[d] => Key(c) >= Key(d)}

FirstPicks(picks) ==
  {k \in [Criteria -> 0 .. picks] :
     /\ Count(k) = picks
     /\ \A c \in Criteria : k[c] <= outputs[c]
     /\ \A c, d \in Criteria :
          k[c] > 0 /\ k[d] < outputs[d] => Key(c) <= Key(d)}

(* compute_psd_criterion is outside the try.  Too few outputs raise in the *)
(* middle of the loop; without any, nothing is kept.                       *)
TransformRaises ==
  /\ stage = "transform"
  /\ broken \/ (outputs # Nothing /\ ~EnoughOutputs)
  /\ End("failed")

NoOutputFound ==
  /\ stage = "transform"
  /\ ~broken /\ outputs = Nothing
  /\ End("converge")

Transform ==
  /\ stage = "transform"
  /\ ~broken /\ outputs # Nothing /\ EnoughOutputs
  /\ kept' \in FirstPicks(TotalPicks)
  /\ stage' = "converge"
  /\ UNCHANGED <<form, id, inputs, left, outputs, broken, settings>>

-----------------------------------------------------------------------------
(***************************************************************************)
(* HRMCConverge.process_outputs reads the criteria from the audit files of *)
(* the new inputs.  Its regular expression knows no exponent.              *)
(***************************************************************************)
Audited == {c \in Criteria : kept[c] > 0}
MinCrit == CHOOSE c \in Audited : \A d \in Audited : c <= d

ConvergeRaises ==
  /\ stage = "converge"
  /\ Audited = {} \/ Audited \cap Exponent # {}
  /\ End("failed")

(* Without a previous criterion the difference is the largest float.       *)
Previous == settings[ReadName]
Converged ==
  /\ Previous # Unset
  /\ MinCrit <= Previous
  /\ Previous - MinCrit <= ErrorThreshold

LastIteration == id >= MaxIteration - 1

\* Converge.output, and Parent for the next iteration.
Converge ==
  /\ stage = "converge"
  /\ Audited # {} /\ Audited \cap Exponent = {}
  /\ settings' = [settings EXCEPT ![WrittenName] = MinCrit]
  /\ id' = id + 1
  /\ \/ /\ LastIteration \/ Converged
        /\ stage' = "done"
        /\ UNCHANGED <<inputs, left, outputs, kept>>
     \/ /\ ~LastIteration /\ ~Converged
        /\ stage' = "run"
        /\ inputs' = Count(kept)
        /\ left' = TotalProcs(id', inputs')
        /\ outputs' = Nothing
        /\ kept' = Nothing
  /\ UNCHANGED <<form, broken>>

HrmcNext ==
  \/ Run \/ Collect
  \/ TransformRaises \/ NoOutputFound \/ Transform
  \/ ConvergeRaises \/ Converge

HrmcSpec == HrmcInit /\ [][HrmcNext]_hrmcVars

-----------------------------------------------------------------------------
(***************************************************************************)
(* The criterion that a job reports in the end is that of the best of the  *)
(* outputs of its last iteration, up to the whole units that the outputs   *)
(* are sorted by: choosing, copying, auditing and reading lose none.       *)
(***************************************************************************)
CriterionIsBest ==
  stage = "done" =>
    \A c \in Criteria :
      outputs[c] > 0 => Key(settings[WrittenName]) <= Key(c)

(***************************************************************************)
(* "the new criterion value is then compared a previous iterations' value  *)
(* and if the difference is less than a threshold, then the smart          *)
(* connector execution is stopped" (docs/hrmc.rst:306).                    *)
(***************************************************************************)
StopStep ==
  LET before == settings[WrittenName]
      new == settings'[WrittenName]
  IN  Converge /\ before # Unset /\ new <= before
        /\ before - new < ErrorThreshold => stage' = "done"

=============================================================================
