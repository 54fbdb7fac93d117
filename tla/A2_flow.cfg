SPECIFICATION FairSpec
CONSTANTS
  MaxCars = 3
  Capacity = 2
  Turns <- MixedTurns
  MaxSpurious = 1
  NoThread = NoThread
INVARIANTS
  NoUseAfterFree
  NoLostWakeup
  NoDeadlock
  CountsAgree
PROPERTIES
  LaneDataGuarded
  ImplementsCarFlow
  Termination
