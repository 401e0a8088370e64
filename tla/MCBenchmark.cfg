CONSTANTS
  ByteSize = 256
  IntSize = 256
  StringHash <- MCStringHash
  StackSize = 20
  GlobalsSize = 8
  MaxFrames = 6
  Names = {"a", "b", "c", "f", "g", "h", "n", "x", "fibonacci", "missing", "len", "first", "last", "rest", "push", "puts"}
  KeyText <- MCKeyText
  NUL = "@"
  Inputs <- MCInputs
  MaxCalls = 6
SPECIFICATION Spec
INVARIANTS EnginesAgree
PROPERTIES ErrorsKept BothEnd
CHECK_DEADLOCK FALSE
