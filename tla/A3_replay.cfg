SPECIFICATION Spec
CONSTANTS
  Pages = {p1, p2, p3, p4}
  NoPage = NoPage
  memsize = 3
  swapsize = 2
  IOErrors = TRUE
  MaxRefs = 8
  Algorithms = {"rand", "clock", "fifo", "lru"}
SYMMETRY PagesSymmetry
INVARIANTS TablesInverse SlotsUnique CleanSaved CountsAddUp LruAsserts EvictReturns AddressKept
PROPERTIES ImplementsMemory ImplementsPolicy
\* The trace has an end.
CHECK_DEADLOCK FALSE
