SPECIFICATION Spec
CONSTANTS
  Threads <- MCThreads
  NameOf <- MCNameOf
  FinishActs = {"same-move", "diff-move", "same-move-time", "diff-move-time", "delete", "keep"}
  Base = 2
  Blocks = 2
  IoErrors = TRUE
  NoThread = NoThread
CHECK_DEADLOCK FALSE
INVARIANTS MoveSound AloneIsMoved
