SPECIFICATION FairSpec
CONSTANTS
  MaxChunks = 2
  MaxTunes = 1
INVARIANTS
  EndsCleanly
  EndIsTold
PROPERTIES
  NothingHangs
CHECK_DEADLOCK FALSE
