CONSTANTS
  NUL = "@"
  Inputs <- MCInputs
  IntSize = 256
SPECIFICATION MCSpec
INVARIANTS RoundTrip NoHoles NothingPassedOver BracketsMatch
PROPERTIES EveryTextParsed
CHECK_DEADLOCK FALSE
