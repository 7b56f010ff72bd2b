SPECIFICATION StartSpec
CONSTANTS
  Servers <- MCServers
  NoServer = NoServer
  NoValue = NoValue
  Cases <- MCCases
CHECK_DEADLOCK FALSE
INVARIANTS PrimariesExact RegularBackups ReleasedOnce CrashesOnlyWhere
PROPERTIES StopEnds
