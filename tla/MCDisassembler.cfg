CONSTANTS
  ByteSize = 256
  Emitted <- MCEmitted
  MaxLength = 3
SPECIFICATION Spec
INVARIANT ListsWhatWasEmitted
PROPERTY ListsEverything
CHECK_DEADLOCK FALSE
