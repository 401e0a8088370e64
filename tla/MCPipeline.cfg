CONSTANTS
  ByteSize = 256
  IntSize = 256
  StringHash <- MCStringHash
  StackSize = 14
  GlobalsSize = 3
  MaxFrames = 6
  Names = {"a", "b", "c", "f", "g", "n", "missing", "len", "first", "last", "rest", "push", "puts"}
  KeyText <- MCKeyText
  Programs <- PipelinePrograms
  MaxLines = 1
SPECIFICATION Spec
INVARIANTS TypeOK FramesNested DepthAsCompiled
PROPERTIES CallerIsolation EveryLineAnswered PanicsExplained
CHECK_DEADLOCK FALSE
