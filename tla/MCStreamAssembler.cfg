SPECIFICATION FairSpec
CONSTANTS
  Want = 3
  QueueMax = 2
  ChunkSizes = {2, 4}
  Gaps <- AllGaps
  ReportsDrops = TRUE
  MaxPos = 9
  MaxRetunes = 1
INVARIANTS
  AccountsHold
  InOrder
PROPERTIES
  ReadsEnd
CHECK_DEADLOCK FALSE
