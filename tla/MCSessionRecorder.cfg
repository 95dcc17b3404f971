SPECIFICATION FairSpec
CONSTANTS
  Kinds <- AllKinds
  BytesPerSample = 2
  MaxBytes = 6
  MaxWindows = 4
  MaxFaults = 2
INVARIANTS
  ListedFilesVerify
  EvidenceIsListed
  DoneIsRecorded
  FinalIsFinal
PROPERTIES
  FinalisedEitherWay
CHECK_DEADLOCK FALSE
