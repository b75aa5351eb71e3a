---------------------------- MODULE RandomSeeds ----------------------------
(***************************************************************************)
(* Random numbers are taken from consecutive lines of a file, from a       *)
(* random seed on (generate_rands, jobs.py): once by a sweep, one for each *)
(* of its runs, and by HRMC in each iteration (hrmcparent.py), which keeps *)
(* the place it has come to in stages/run/rand_index.                      *)
(***************************************************************************)
EXTENDS Integers, Sequences, FiniteSets, SequencesExt

CONSTANTS
  Lines,       \* number of lines of the file
  NumberSeeds, \* NUMBER_SEEDS: valid seeds are 0 .. NumberSeeds - 1
  MaxN,        \* bound: runs of a sweep, or N of HRMC
  MaxSeedInt,  \* max_seed_int
  Denominator, \* the numbers in the file are the fractions k / Denominator
  MaxRounds    \* bound: iterations of HRMC

SeedsAssumption ==
  /\ Lines \in Nat \ {0} /\ NumberSeeds \in Nat \ {0} /\ MaxN \in Nat \ {0}
  /\ MaxSeedInt \in Nat \ {0} /\ Denominator \in Nat \ {0} /\ MaxRounds \in Nat

VARIABLES
  who,        \* who draws: "sweep", or the optimisation scheme of HRMC
  terminated, \* the last line of the file ends with a newline
  runs,       \* runs of the sweep, or N
  randIndex,  \* rand_index: the line to begin with in this round
  counter,    \* random_counter: the next line
  drawn,      \* the lines drawn in this round
  seeds,      \* rand_nums, in no order
  earlier,    \* the lines drawn in earlier rounds
  round,
  failed      \* an exception has left generate_rands

seedInputs == <<who, terminated, runs>>
seedVars ==
  <<seedInputs, randIndex, counter, drawn, seeds, earlier, round, failed>>

(* A newline at the end of the file makes an empty number after the last.  *)
Numbers == IF terminated THEN Lines + 1 ELSE Lines

SeedsTypeOK ==
  /\ who \in {"sweep", "MC", "MCSA"}
  /\ terminated \in BOOLEAN
  /\ runs \in 1 .. MaxN
  /\ randIndex \in Nat
  /\ counter \in Nat
  /\ drawn \in Seq(0 .. Lines - 1)
  /\ seeds \subseteq Nat
  /\ earlier \subseteq 0 .. Lines - 1
  /\ round \in 0 .. MaxRounds
  /\ failed \in BOOLEAN

SeedsInit ==
  /\ who \in {"sweep", "MC", "MCSA"}
  /\ terminated \in BOOLEAN
  /\ runs \in 1 .. MaxN
  /\ randIndex \in 0 .. NumberSeeds - 1
  /\ counter = randIndex
  /\ drawn = << >>
  /\ seeds = {}
  /\ earlier = {}
  /\ round = 0
  /\ failed = FALSE

(***************************************************************************)
(* The arguments num_required and end_range of the calls.                  *)
(***************************************************************************)
Required == IF who = "MCSA" THEN IF round = 0 THEN 4 * runs ELSE 1 ELSE runs

EndRange == IF who = "sweep" THEN Numbers ELSE MaxSeedInt

Drawing == ~failed /\ Len(drawn) < Required

Scaled(raw) == (raw * EndRange) \div Denominator

NextLine == IF counter + 1 >= Numbers THEN 0 ELSE counter + 1

IsNumber == counter < Lines

(***************************************************************************)
(* One turn of the loop: the line is there, and is a number.               *)
(***************************************************************************)
Draw ==
  /\ Drawing
  /\ IsNumber
  /\ drawn' = Append(drawn, counter)
  /\ \E raw \in 0 .. Denominator - 1 : seeds' = seeds \cup {Scaled(raw)}
  /\ counter' = NextLine
  /\ UNCHANGED <<seedInputs, randIndex, earlier, round, failed>>

(***************************************************************************)
(* float('') raises a ValueError, a line beyond the end an IndexError.     *)
(***************************************************************************)
Raise ==
  /\ Drawing
  /\ ~IsNumber
  /\ failed' = TRUE
  /\ UNCHANGED <<seedInputs, randIndex, counter, drawn, seeds, earlier, round>>

(* Mutant: the place is counted by iterations.                             *)
AdvanceByOne == 1

Advance == runs

(***************************************************************************)
(* The next iteration of HRMC goes on where the last one is said to have   *)
(* ended.                                                                  *)
(***************************************************************************)
NextRound ==
  /\ who # "sweep"
  /\ ~failed /\ ~Drawing
  /\ round < MaxRounds
  /\ round' = round + 1
  /\ randIndex' = randIndex + Advance
  /\ counter' = randIndex'
  /\ earlier' = earlier \cup ToSet(drawn)
  /\ drawn' = << >>
  /\ seeds' = {}
  /\ UNCHANGED <<seedInputs, failed>>

SeedsNext == Draw \/ Raise \/ NextRound

SeedsSpec == SeedsInit /\ [][SeedsNext]_seedVars

-----------------------------------------------------------------------------
(***************************************************************************)
(* An iteration of the scheme MC never meets a line of an earlier one as   *)
(* long as the file has enough.  (MCSA does: its first iteration draws 4N  *)
(* lines and goes on N lines further.)                                     *)
(***************************************************************************)
IterationsDoNotOverlap ==
  who = "MC" /\ Len(drawn) + Cardinality(earlier) <= Lines =>
    ToSet(drawn) \cap earlier = {}

=============================================================================
