SPECIFICATION LoaderSpec
CONSTANTS
  Tokens <- MCTokens
  MaxTokens = 6
  MemoryFails = TRUE
  None = None
INVARIANTS StacksSound StringsHeldOnce DocumentSound
PROPERTIES EventsAreAStream LoadingEnds
CHECK_DEADLOCK FALSE
