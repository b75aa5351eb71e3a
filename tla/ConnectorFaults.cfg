\* Every kind of fault, two of them, in two iterations on three machines.
SPECIFICATION Spec
CONSTANTS
  v1 = v1
  v2 = v2
  v3 = v3
  NoVm = NoVm
  NoValue = NoValue
  Vms <- ThreeVms
  MinVms = 1
  MaxVms = 2
  FaultKinds <- AllFaults
  MaxFaults = 2
  MaxProcs = 3
  MaxIds = 6
  InputExists = TRUE
INVARIANTS TypeOK StagesExclusive TablesAgree RunsLeftCountsRunning
  TransformsCompleteIterations ProcessesOnBootstrappedNodes
PROPERTY LifecycleSpec
SYMMETRY VmSymmetry
CHECK_DEADLOCK FALSE
