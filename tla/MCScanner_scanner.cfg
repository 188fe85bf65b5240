\* Every text of up to 6 tokens
CONSTANTS
  Alphabets <- MCAlphabets
  MaxLength = 6
SPECIFICATION Spec
INVARIANTS
  KeepsBuffering
  SendsFinished
  StripIsExact
  VersionFromCode
  HeadsWait
CHECK_DEADLOCK FALSE
