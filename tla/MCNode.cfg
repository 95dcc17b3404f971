SPECIFICATION Spec
CONSTANTS
  Serials = {s1, unknown}
  BusCap = 2
  Retention = 1
  DedupGap = 2
  HeartbeatEvery = 2
  Epoch = 2
  MaxTime = 4
  MaxLag = 1
  MaxStops = 1
SYMMETRY SerialSymmetry
INVARIANTS
  EvidenceReadable
  VerifiedHasEvidence
PROPERTIES
  RetentionKept
CHECK_DEADLOCK FALSE
