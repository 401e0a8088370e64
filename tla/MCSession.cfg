CONSTANTS
  ByteSize = 256
  IntSize = 256
  StringHash <- MCStringHash
  StackSize = 8
  GlobalsSize = 8
  MaxFrames = 6
  Names = {"a", "b", "c", "f", "g", "n", "missing", "len", "first", "last", "rest", "push", "puts"}
  KeyText <- MCKeyText
  Programs <- SessionPrograms
  MaxLines = 4
SPECIFICATION SessionSpec
INVARIANTS ClosuresServed DefinedMeansSet
PROPERTIES GlobalsWrittenOnce
CHECK_DEADLOCK FALSE
