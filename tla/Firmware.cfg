SPECIFICATION FirmwareSpec
CONSTANTS
  Shortages = {TRUE, FALSE}
  WrongHandle <- MCWrongHandle
  Lines = 18
  WordBits = 6
  Sizes <- SmallSizes
INVARIANTS
  ActiveMeansReady
  StoppedMeansClean
  HaltDropsRequest
  LostForAReason
  NoOverlap
  BlocksInHeap
  UncutRunsFound
  LoopsAgree
PROPERTIES
  RestartSucceeds
  FreeMakesRoom
