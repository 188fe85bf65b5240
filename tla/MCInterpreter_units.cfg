\* Model values and names of the instance
CONSTANTS
  None = None
  Preamble = Preamble
  StdLib = StdLib
  Names <- MCNames
  Types <- MCTypes
  Values <- MCValues
  Paths <- MCPaths
  Libs <- MCLibs
  FoundIn <- InDir
  Inputs <- UnitInputs
  Preambles = 1
  InitialVersions = {23}
  InitOutcomes = {TRUE}
  StdLibOutcomes = {TRUE}
  MaxHistory = 4
  MaxPtus = 7
  MaxUndo = 2
SPECIFICATION Spec
INVARIANTS
  NoNameLeftBehind
PROPERTIES
  ReplayKeepsEntries
