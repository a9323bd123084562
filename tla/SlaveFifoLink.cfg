SPECIFICATION LinkSpec
CONSTANTS
  BurstWords = 2
  CtrMod = 64
  Header = 9
  ChDisabled = 8
  MaxRead = 12
  Words <- MCWords
  OutWords = 7
  InBufs = 4
  FlagdWords = 4
  Counts <- MCCounts
  Configs <- MCConfigs
  Floating = 9
  Backlog = 5
INVARIANTS
  WholeRequests
  NoWordLost
  ReplyFollowsRequest
PROPERTIES
  CardImplemented
