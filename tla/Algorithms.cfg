SPECIFICATION AlgorithmsSpec
CONSTANTS
  MaxNodes = 5
  MaxProcs = 9
  MaxFirst = 2
  Lines = 5
  NumberSeeds = 5
  MaxN = 3
  MaxSeedInt = 3
  Denominator = 4
  MaxRounds = 2
  Platforms = {"store", "007"}
  None = None
  Criteria = {0, 2, 3, 5}
  Scale = 2
  Exponent = {0}
  Thresholds <- OneOrTwoNumbers
  Fanouts = {1, 2}
  MaxIteration = 3
  ErrorThreshold = 2
  Unset = Unset
  Machines = {"a", "b", "c"}
  MinCount = 1
  MaxRetries = 1
INVARIANTS AlgorithmsTypeOK LoopIsPlacement IterationsDoNotOverlap
  NumericReadable NumbersKept CriterionIsBest NoRunningVmForgotten DestroyWaits
PROPERTY CallsReturn
CHECK_DEADLOCK FALSE
