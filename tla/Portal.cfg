\* Four requests for two platforms of three kinds, four requests for a preset,
\* four messages and two workers, three stages and four parameters.
SPECIFICATION PortalSpec
CONSTANTS
  p1 = p1
  p2 = p2
  r1 = r1
  r2 = r2
  r3 = r3
  r4 = r4
  Names <- PlatformNames
  Kinds <- PlatformKinds
  Requests <- FourRequests
  Jobs = {"j1"}
  MaxCounter = 1
  MaxKeys = 3
  NoRow = NoRow
  NoKey = NoKey
  PresetNames = {"preset"}
  PresetRequests <- FourRequests
  Parameters = {"k", "m"}
  Undeclared = Undeclared
  NoSchema = NoSchema
  Absent = Absent
  Unset = Unset
  Workers = {"a", "b"}
  MaxMessages = 4
  NoMessage = NoMessage
  Declared <- DeclaredPairs
  Numeric <- NumericPairs
  Unknown <- UnknownPairs
  Stages <- ThreeStages
  Own <- OwnOfStages
  Arguments <- SubmittedSettings
INVARIANTS PortalTypeOK KeysWork ValuesWereRequested RowsAtMostWriters
  RowsAreFromOneStage ExecutedAsChecked
SYMMETRY Symmetry
CHECK_DEADLOCK FALSE
