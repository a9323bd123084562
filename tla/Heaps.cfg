SPECIFICATION HeapPartsSpec
CONSTANTS
  Threads = {t1, t2}
  Blocks = {b1, b2, b3, b4}
  Overlapping = {{b1, b2}}
  Null = null
  Locked = TRUE
  MaxAllocs = 3
  MemBlocks = {m1, m2, m3}
  BufBlocks = {p1, p2}
  MaxCounted = 4
  NullPtr = nullPtr
  Size = 20
  Contents <- MCContents
INVARIANTS
  LinkedBothWays
  AlarmNeedsAllocation
  LeakCheckTrue
  StatusArrayOwned
  HelpersCorrect
PROPERTIES
  ListImplemented
