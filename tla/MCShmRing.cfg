SPECIFICATION FairSpec
CONSTANTS
  SlotCount = 2
  MaxSeq = 6
INVARIANTS
  RingInv
  TornOnlyByOverlap
PROPERTIES
  CatchesUp
  ImplementsLossyFifo
CHECK_DEADLOCK FALSE
