SPECIFICATION LinkSpec
CONSTANTS
    Streams <- MCStreams
    Packets = {2, 3}
    Jitter = {0, 1}
    MinBursts = 3
    MinFrames = 2
    MinChannels = 2
    MaxBuffer = 8
    MaxBursts = 4
    MaxWindows = 2
INVARIANTS
  MessagesReportedOnce
  ConfirmedByJitterOnly
CHECK_DEADLOCK FALSE
