SPECIFICATION HostSpec
CONSTANTS
  QueueSize = 2
  MaxTransfers = 3
  CardChunks = 1
  MaxFaults = 0
  XferMode = "direct"
INVARIANT
  CompletionNamesItsBuffer
