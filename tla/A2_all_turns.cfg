SPECIFICATION Spec
CONSTANTS
  MaxCars = 2
  Capacity = 1
  Turns <- AllTurns
  MaxSpurious = 0
  NoThread = NoThread
INVARIANTS
  TypeOK
  PathExclusive
  OutListExclusive
  LockOrder
