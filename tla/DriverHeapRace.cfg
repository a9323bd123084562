SPECIFICATION HeapSpec
CONSTANTS
  Threads = {t1, t2}
  Blocks = {b1, b2, b3}
  Overlapping = {}
  Null = null
  Locked = FALSE
  MaxAllocs = 3
CHECK_DEADLOCK FALSE
INVARIANT
  AllBlocksListed
