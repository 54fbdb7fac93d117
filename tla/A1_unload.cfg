SPECIFICATION USpec
CONSTANTS
  Procs = {1, 2}
  Uid <- RootAndUser
  NSyscalls = 2
  ExitGroup = 2
  Overlap = FALSE
  MaxExits = 1
INVARIANTS ExitGroupRestored
CHECK_DEADLOCK FALSE
