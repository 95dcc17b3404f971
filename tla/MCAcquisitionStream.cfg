SPECIFICATION Spec
CONSTANTS
  f1 = f1
  f2 = f2
  SlotCount = 2
  Held = 1
  Centres = {f1, f2}
  Gaps = {0, 1}
  MaxIndex = 4
  MaxEpoch = 2
SYMMETRY Symmetry
INVARIANTS
  LossBounded
  LabelsTrue
PROPERTIES
  RetuneReachesWindows
CHECK_DEADLOCK FALSE
