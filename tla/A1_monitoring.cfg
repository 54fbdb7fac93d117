SPECIFICATION USpec
CONSTANTS
  Procs = {1, 2}
  Uid <- RootAndUser
  NSyscalls = 2
  ExitGroup = 2
  Overlap = FALSE
  MaxExits = 2
INVARIANTS CountsMatch ModeMatches NoStalePid UnloadRestores
PROPERTIES ImplementsMonitoring
CHECK_DEADLOCK FALSE
