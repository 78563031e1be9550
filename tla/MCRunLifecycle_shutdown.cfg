CONSTANTS
  r1 = r1
  w1 = w1
  w2 = w2
  Runs = {r1}
  Workers = {w1, w2}
  NoRun = NoRun
  ArtifactOnlyRuns = {}
  MaxStages = 2
  MaxRepair = 1
  MaxReplan = 1
  MaxStageAttempts = 1
  MaxCandidates = 1
  MaxCrashes = 0
  MaxShutdowns = 1
  MaxCancels = 0
  MaxIntegrates = 0
  DiskPressure = FALSE
  SourceMoves = FALSE
SPECIFICATION Spec
SYMMETRY Symmetry
INVARIANT OnlyClientsCancel
CHECK_DEADLOCK FALSE
