\* The beat meets a job that is still being submitted.
SPECIFICATION Spec
CONSTANTS
  c1 = c1
  s1 = s1
  w1 = w1
  w2 = w2
  NoWorker = NoWorker
  Contexts <- OneJob
  Sweeps <- NoSweep
  Workers <- MCWorkers
  TimeLimitEnforced = TRUE
  ReleaseChecksOwner = TRUE
  MaxQueue = 1
  MaxPass = 1
  MaxFaults = 0
INVARIANT ExecutedWithFinalSettings
