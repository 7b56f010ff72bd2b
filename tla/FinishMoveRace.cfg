SPECIFICATION Spec
CONSTANTS
  Threads <- MCThreads
  NameOf <- MCNameOf
  FinishActs = {"same-move-time"}
  Base = 1
  Blocks = 1
  IoErrors = FALSE
  NoThread = NoThread
CHECK_DEADLOCK FALSE
INVARIANTS SourceBeforeMarker
