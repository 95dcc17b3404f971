SPECIFICATION OfflineSpec
CONSTANTS
    Words <- MCWords
    Payloads <- MCPayloads
    Flips <- MCFlips
    Codes <- MCCodes
    Blocks <- MCBlocks
    Hits <- MCHits
    Frames <- MCFrames
    Envelopes <- MCEnvelopes
    Spectra <- MCSpectra
    Windows <- MCWindows
    Seeds <- MCSeeds
    Schedules <- MCSchedules
    Boards <- MCBoards
    Files <- MCFiles
    Bands <- MCBands
    Scans <- MCScans
    Grids <- MCGrids
    Scenes <- MCScenes
    Looks <- MCLooks
    Sessions <- MCSessions
    Loadings <- MCLoadings
    Corpora <- MCCorpora
    Probes <- MCProbes
    Budgets <- MCBudgets
    Trainings <- MCTrainings
INVARIANTS
  BurstTrue
  FramesTrue
  BurstsTried
  HopsTrue
  ScanTrue
  SignalsTrue
  ModelTrue
  VerdictsTrue
