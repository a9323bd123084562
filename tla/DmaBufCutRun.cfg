SPECIFICATION BufSpec
CONSTANTS
  Lines = 18
  WordBits = 6
  Sizes <- SmallSizes
INVARIANT
  AllocComplete
