\* Every job ends, in spite of exceptions and killed workers.
SPECIFICATION FairSpec
CONSTANTS
  v1 = v1
  v2 = v2
  v3 = v3
  NoVm = NoVm
  NoValue = NoValue
  Vms <- TwoVms
  MinVms = 1
  MaxVms = 2
  FaultKinds <- WorkerFaults
  MaxFaults = 2
  MaxProcs = 2
  MaxIds = 4
  InputExists = TRUE
PROPERTY JobEnds
CHECK_DEADLOCK FALSE
