SPECIFICATION USpec
CONSTANTS
  Procs = {1, 2}
  Uid <- RootAndUser
  NSyscalls = 2
  ExitGroup = 2
  Overlap = TRUE
  MaxExits = 1
INVARIANTS CallsReset
CHECK_DEADLOCK FALSE
