SPECIFICATION Spec
CONSTANTS
  MaxCars = 2
  Capacity = 1
  Turns <- BusyTurns
  MaxSpurious = 0
  NoThread = NoThread
INVARIANT
  ProducerNotBlockedByCrossing
