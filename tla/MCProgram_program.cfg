\* Command lines of up to five arguments and a session of any length
CONSTANTS
  Lines <- MCLines
  Numerals <- MCNumerals
  Commands <- MCCommands
  Missing <- MCMissing
  MaxInt = 3
  MaxDone = 2
  MaxOutside = 1
  MaxBuffer = 5
SPECIFICATION Spec
INVARIANTS
  Types
  StartsAsAsked
  PromptCoversHistory
  EvaluatedWhenFinished
  NeverDeclaredTwice
PROPERTIES
  NumberComesDown
  ComesBack
CHECK_DEADLOCK FALSE
