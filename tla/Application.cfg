SPECIFICATION ApplicationSpec
CONSTANTS
  QueueSize = 2
  MaxTransfers = 3
  CardChunks = 1
  MaxFaults = 2
  XferMode = "direct"
  Devices = {"card", "boot", "board"}
  NameOf <- MCNames
  AltSettings <- MCAltSettings
  Sizes = {6, 9}
  YData <- MCYData
  Reach = 12
INVARIANTS
  GoodDataOnSuccess
  OldestFirst
  EveryReadFinished
  ListsOfDevice
  EndpointsAsPicked
  WithinLimits
PROPERTIES
  BufferWrittenOnce
  CallReturns
  CallsEnd
