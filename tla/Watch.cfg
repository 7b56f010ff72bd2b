SPECIFICATION FairSpec
CONSTANTS
  Dirs = {root, d1, d2}
  Root = root
  DirNames = {a, b}
  NewNames = {a}
  FileNames = {f}
  MaxFiles = 2
  MaxChanges = 1
  MaxDepth = 2
  MaxWd = 4
  NoPath = NoPath
CHECK_DEADLOCK FALSE
INVARIANTS EveryFileQueued EveryDirWatched
PROPERTIES BecomesQuiet
