\* Machines are lost, stages raise, the user deletes the job.
SPECIFICATION Spec
CONSTANTS
  v1 = v1
  v2 = v2
  v3 = v3
  NoVm = NoVm
  NoValue = NoValue
  Vms <- ThreeVms
  MinVms = 1
  MaxVms = 2
  FaultKinds <- CloudFaults
  MaxFaults = 2
  MaxProcs = 3
  MaxIds = 6
  InputExists = TRUE
INVARIANTS NoVmUnaccounted InputsMatchIds
PROPERTY ProgramsRunOnce
SYMMETRY VmSymmetry
CHECK_DEADLOCK FALSE
