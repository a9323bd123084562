SPECIFICATION CardPartsSpec
CONSTANTS
  Listed = {0, 8, 12}
  Transfers = {1, 256}
  MaxActs = 3
  CountProbes = {1, 2, 4, 8, 16, 32, 64, 128}
  ButtonProbes = {1, 2, 4, 8}
  BurstBytes = 256
  BurstWords = 2
  Counts = {0, 1, 2}
  TxMod = 2
  MaxRequests = 3
  MaxWait = 2
INVARIANTS
  GraphsShowSelection
  CheckIsSilent
  CountersAgree
  WholeWaitPrinted
  LastRequestInForce
PROPERTIES
  WordsJoin
