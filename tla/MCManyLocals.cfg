CONSTANTS
  ByteSize = 256
  IntSize = 256
  StringHash <- MCStringHash
  StackSize = 4
  GlobalsSize = 1
  MaxFrames = 6
  Names = {"a", "b", "c", "f", "g", "n", "missing", "len", "first", "last", "rest", "push", "puts"}
  KeyText <- MCKeyText
  Programs <- ManyLocals
  MaxLines = 1
SPECIFICATION Spec
INVARIANT StackPointerInStack
CHECK_DEADLOCK FALSE
