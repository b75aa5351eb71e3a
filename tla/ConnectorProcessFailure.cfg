\* A machine is lost while a process runs on it.
SPECIFICATION Spec
CONSTANTS
  v1 = v1
  v2 = v2
  v3 = v3
  NoVm = NoVm
  NoValue = NoValue
  Vms <- TwoVms
  MinVms = 1
  MaxVms = 2
  FaultKinds <- VmFaults
  MaxFaults = 1
  MaxProcs = 2
  MaxIds = 2
  InputExists = FALSE
INVARIANT FailedProcessesDoNotEndJob
CHECK_DEADLOCK FALSE
