SPECIFICATION FairSpec
CONSTANTS
  Procs = {1, 2}
  Uid <- RootAndUser
  NSyscalls = 1
  ExitGroup = 1
  Overlap = TRUE
  MaxExits = 2
INVARIANTS OriginalKept HookMatches OnlyInterceptedMonitored
 
