SPECIFICATION MasterSpec
CONSTANTS
  BurstWords = 2
  CtrMod = 16
  Header = 7
  ChDisabled = 8
  MaxRead = 2
  Words <- MCWords
INVARIANTS
  TypeOK
  BusTurnaround
  AddressMatchesBurst
  CountBeforeDecision
PROPERTIES
  CountStable
