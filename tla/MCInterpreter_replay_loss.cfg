\* Model values and names of the instance
CONSTANTS
  None = None
  Preamble = Preamble
  StdLib = StdLib
  Names <- MCNames
  Types <- MCTypes
  Values <- MCValues
  Paths <- MCPaths
  Libs <- MCLibs
  FoundIn <- MCFoundIn
  Inputs <- Char8Inputs
  Preambles = 1
  InitialVersions = {17}
  InitOutcomes = {TRUE}
  StdLibOutcomes = {TRUE}
  MaxHistory = 2
  MaxPtus = 6
  MaxUndo = 1
SPECIFICATION Spec
PROPERTIES
  ReplayKeepsEntries
