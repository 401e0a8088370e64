CONSTANTS
  NUL = "@"
  Inputs <- MCInputs
  MaxPast = 3
  Alphabet <- MCAlphabet
  MaxLength = 4
SPECIFICATION Spec
PROPERTIES LongestMatch EndReached
CHECK_DEADLOCK FALSE
