CONSTANTS
  ByteSize = 256
  IntSize = 256
  StringHash <- MCStringHash
  Names = {"a", "b", "c", "missing", "len", "first", "last", "rest", "push", "puts"}
  KeyText <- MCKeyText
  Programs <- ValuelessIf
SPECIFICATION Spec
INVARIANT StackBalanced
CHECK_DEADLOCK FALSE
