SPECIFICATION Spec
CONSTANTS
  ChunkSamples = 2
  MaxPacket = 3
  MaxClock = 8
  MaxTunes = 2
  InFlight = 2
  AsmMax = 2
  MaxRetunes = 2
INVARIANTS
  RetuneCleansUp
  HandleIsTheSources
  ChunksTrue
PROPERTIES
  LossEndsWindows
CHECK_DEADLOCK FALSE
