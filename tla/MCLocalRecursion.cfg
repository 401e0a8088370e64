CONSTANTS
  ByteSize = 256
  IntSize = 256
  StringHash <- MCStringHash
  StackSize = 8
  GlobalsSize = 2
  MaxFrames = 6
  Names = {"a", "b", "c", "f", "g", "n", "missing", "len", "first", "last", "rest", "push", "puts"}
  KeyText <- MCKeyText
  Programs <- LocalRecursion
  MaxLines = 1
SPECIFICATION Spec
INVARIANT CapturesBound
CHECK_DEADLOCK FALSE
