\* Both kinds of connector on a cluster, every kind of fault, two of them.
SPECIFICATION ClusterSpec
CONSTANTS
  v1 = v1
  NoVm = NoVm
  NoValue = NoValue
  Vms <- OneMachine
  MinVms = 1
  MaxVms = 1
  FaultKinds <- ClusterFaults
  MaxFaults = 2
  MaxProcs = 2
  MaxIds = 5
  InputExists = TRUE
INVARIANT ClusterTablesAgree
PROPERTIES LifecycleSpec ClusterJobEnds
CHECK_DEADLOCK FALSE
