SPECIFICATION Spec
CONSTANTS
    Mirror <- MCMirror
    Rars = {"arc"}
    Timelines <- MCTimelines
    Day = 4
    Guard = 0
    SessionStart = 3
    TestLabels <- MCTestLabels
    Position <- MCPosition
    Limits = {1, 9}
    WindowSteps = 2
    MaxRuns = 2
    MaxCuts = 1
    MaxTimelines = 2
    MaxTrainings = 2
INVARIANTS
  RowsTrue
  HeldOutStaysHeldOut
  TrainFailsOnlyAfterCut
CHECK_DEADLOCK FALSE
