SPECIFICATION Spec
CONSTANTS
  Files <- MCFiles
  RawSize = 9
  BufferSize = 27
  Lengths = {1, 4}
  InputFails = TRUE
  MemoryFails = TRUE
INVARIANTS ReaderSound
PROPERTIES ReadingEnds
CHECK_DEADLOCK FALSE
