\* The pool enforces the time limit; a job and a sweep.
SPECIFICATION Spec
CONSTANTS
  c1 = c1
  s1 = s1
  w1 = w1
  w2 = w2
  NoWorker = NoWorker
  Contexts <- MCContexts
  Sweeps <- MCSweeps
  Workers <- MCWorkers
  TimeLimitEnforced = TRUE
  ReleaseChecksOwner = FALSE
  MaxQueue = 1
  MaxPass = 2
  MaxFaults = 1
INVARIANTS TypeOK OnePassAtATime SnapshotIsCurrent
PROPERTY RecordSpec
SYMMETRY MCSymmetry
