\* The piped line of the README, any number of times, and the end of the input
CONSTANTS
  Lines <- Piped
  Numerals <- NoNumerals
  Commands <- PipedCommands
  Missing <- NoFiles
  MaxInt = 3
  MaxDone = 2
  MaxOutside = 0
  MaxBuffer = 1
SPECIFICATION Spec
INVARIANT PipedIsEvaluated
CHECK_DEADLOCK FALSE
