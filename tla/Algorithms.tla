----------------------------- MODULE Algorithms -----------------------------
(***************************************************************************)
(* The algorithms inside the stages and the interfaces: the round robin    *)
(* assignment, the random numbers, the way of an input, the iterations of  *)
(* HRMC and the loops of the cloud connection.  They share no state, so    *)
(* one of them moves in each behaviour, and the others have ended.         *)
(***************************************************************************)
EXTENDS RoundRobin, RandomSeeds, Forms, Hrmc, CloudCalls

algorithmVars == <<robinVars, seedVars, formVars, hrmcVars, vars>>

AlgorithmsAssumption ==
  /\ BoundsAssumption /\ SeedsAssumption /\ HrmcAssumption
  /\ CloudCallsAssumption

ASSUME AlgorithmsAreSound == AlgorithmsAssumption

-----------------------------------------------------------------------------
RobinEnded ==
  /\ nodes = 1 /\ procs = 1 /\ first = 0
  /\ cur = 2 /\ remaining = 0 /\ index = 1 /\ node = <<1>>

SeedsEnded ==
  /\ who = "sweep" /\ terminated = FALSE /\ runs = 1 /\ randIndex = 0
  /\ counter = 1 /\ drawn = <<0>> /\ seeds = {0}
  /\ earlier = {} /\ round = 0 /\ failed = FALSE

FormEnded ==
  /\ kind = "string" /\ channel = "rest" /\ storage = "" /\ at = "refused"
  /\ entry = Refused /\ value = Refused

HrmcEnded ==
  /\ scheme = "MC" /\ threshold = CHOOSE t \in Thresholds : TRUE
  /\ fanout = CHOOSE f \in Fanouts : TRUE
  /\ stage = "failed" /\ id = 0 /\ inputs = 1 /\ left = 0 /\ broken = FALSE
  /\ outputs = Nothing /\ kept = Nothing
  /\ settings = [n \in {WrittenName, ReadName} |-> Unset]

CallsEnded ==
  /\ call = "over" /\ cloud = [v \in Machines |-> "none"]
  /\ listed = <<>> /\ turn = <<>> /\ place = 1 /\ retries = 0
  /\ returned = {} /\ seen = "none"
  /\ running = {} /\ ready = {} /\ accepted = {}

AlgorithmsInit ==
  \/ RobinInit /\ SeedsEnded /\ FormEnded /\ HrmcEnded /\ CallsEnded
  \/ SeedsInit /\ RobinEnded /\ FormEnded /\ HrmcEnded /\ CallsEnded
  \/ FormsInit /\ RobinEnded /\ SeedsEnded /\ HrmcEnded /\ CallsEnded
  \/ HrmcInit /\ RobinEnded /\ SeedsEnded /\ FormEnded /\ CallsEnded
  \/ Init /\ RobinEnded /\ SeedsEnded /\ FormEnded /\ HrmcEnded

AlgorithmsNext ==
  \/ RobinNext /\ UNCHANGED <<seedVars, formVars, hrmcVars, vars>>
  \/ SeedsNext /\ UNCHANGED <<robinVars, formVars, hrmcVars, vars>>
  \/ FormsNext /\ UNCHANGED <<robinVars, seedVars, hrmcVars, vars>>
  \/ HrmcNext /\ UNCHANGED <<robinVars, seedVars, formVars, vars>>
  \/ Next /\ UNCHANGED <<robinVars, seedVars, formVars, hrmcVars>>

\* Only the calls and HRMC have properties that need fairness.
AlgorithmsSpec ==
  AlgorithmsInit /\ [][AlgorithmsNext]_algorithmVars
    /\ WF_hrmcVars(HrmcNext) /\ Fairness

-----------------------------------------------------------------------------
(* The variables of each module have their types.                          *)
AlgorithmsTypeOK ==
  /\ RobinTypeOK
  /\ SeedsTypeOK
  /\ FormsTypeOK
  /\ HrmcTypeOK
  /\ TypeOK

(* A job that converges stops (it does not): Hrmc.tla.                     *)
StopsWhenConverged == [][StopStep]_hrmcVars

=============================================================================
