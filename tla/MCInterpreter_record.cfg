\* Model values and names of the instance
CONSTANTS
  None = None
  Preamble = Preamble
  StdLib = StdLib
  Names <- MCNames
  Types <- MCTypes
  Values <- MCValues
  Paths <- NoPaths
  Libs <- MCLibs
  FoundIn <- Nowhere
  Inputs <- RecordInputs
  Preambles = 1
  InitialVersions = {23}
  InitOutcomes = {TRUE, FALSE}
  StdLibOutcomes = {TRUE}
  MaxHistory = 3
  MaxPtus = 5
  MaxUndo = 2
SPECIFICATION Spec
INVARIANTS
  TypeOK
  EngineBehindHistory
  CopiesAgree
  RecordedIsInHistory
  TableFollowsHistory
  HistoryIsBacked
