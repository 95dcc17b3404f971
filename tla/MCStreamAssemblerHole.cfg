SPECIFICATION Spec
CONSTANTS
  Want = 3
  QueueMax = 2
  ChunkSizes = {2}
  Gaps <- NoGaps
  ReportsDrops = TRUE
  MaxPos = 10
  MaxRetunes = 0
INVARIANTS
  CompleteIsContiguous
CHECK_DEADLOCK FALSE
