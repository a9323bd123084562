SPECIFICATION BufSpec
CONSTANTS
  Lines = 14
  WordBits = 6
  Sizes <- SmallSizes
INVARIANT
  BlocksInHeap
