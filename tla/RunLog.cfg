SPECIFICATION FairSpec
CONSTANTS
  Threads = {t1, t2}
  Logs = {running, upload}
  RunningLog = running
  OpenFails = TRUE
  MonthEnds = FALSE
  MaxDay = 1
  MaxSignals = 1
  NoThread = NoThread
  NoDay = NoDay
CHECK_DEADLOCK FALSE
INVARIANTS LineInItsFile LockMeansInside
PROPERTIES CallReturns
