\* Every submitted job ends, under the fairness of the beat and the workers.
SPECIFICATION FairSpec
CONSTANTS
  c1 = c1
  s1 = s1
  w1 = w1
  w2 = w2
  NoWorker = NoWorker
  Contexts <- MCContexts
  Sweeps <- MCSweeps
  Workers <- OneWorker
  TimeLimitEnforced = TRUE
  ReleaseChecksOwner = TRUE
  MaxQueue = 1
  MaxPass = 2
  MaxFaults = 2
PROPERTY EveryJobEnds
