CONSTANTS
  Names = {"a", "len"}
  BuiltinNames <- MCBuiltinNames
  MaxDepth = 4
  MaxDefinitions = 2
SPECIFICATION Spec
INVARIANTS TypeOK StoredLoadable CapturesLoadable NoSharedSlot
PROPERTY ResolvesLexically
