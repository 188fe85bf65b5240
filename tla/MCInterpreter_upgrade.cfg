\* Model values and names of the instance
CONSTANTS
  None = None
  Preamble = Preamble
  StdLib = StdLib
  Names <- OneName
  Types <- MCTypes
  Values <- MCValues
  Paths <- MCPaths
  Libs <- MCLibs
  FoundIn <- InDir
  Inputs <- UpgradeInputs
  Preambles = 1
  InitialVersions = {17}
  InitOutcomes = {TRUE, FALSE}
  StdLibOutcomes = {TRUE, FALSE}
  MaxHistory = 2
  MaxPtus = 4
  MaxUndo = 1
SPECIFICATION Spec
INVARIANTS
  HistoryFitsVersion
  RequestedAreLoaded
PROPERTIES
  CommandsReturn
  ImplementsNotebook
\* A lost engine that is used ends the program
CHECK_DEADLOCK FALSE
