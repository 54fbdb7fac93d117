SPECIFICATION Spec
CONSTANTS
  Pages = {p1, p2}
  NoPage = NoPage
  memsize = 1
  swapsize = 2
  IOErrors = FALSE
  MaxRefs = 4
  Algorithms = {"rand", "clock", "fifo", "lru"}
INVARIANTS EvictReturns
CHECK_DEADLOCK FALSE
