\* Up to four runs; two workers die, stages raise, the user deletes.
SPECIFICATION FairSpec
CONSTANTS
  MaxRuns = 4
  MaxKills = 2
  Faults = {"error", "delete"}
INVARIANTS TypeOK OnlyLastIsDraft DraftsAreFromKills DoneIsComplete JobsPerRun
PROPERTY SweepEnds
CHECK_DEADLOCK FALSE
