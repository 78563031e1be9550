CONSTANTS
  r1 = r1
  w1 = w1
  w2 = w2
  Runs = {r1}
  Workers = {w1}
  NoRun = NoRun
  ArtifactOnlyRuns = {}
  MaxStages = 1
  MaxRepair = 1
  MaxReplan = 1
  MaxStageAttempts = 2
  MaxCandidates = 2
  MaxCrashes = 1
  MaxShutdowns = 0
  MaxCancels = 1
  MaxIntegrates = 0
  DiskPressure = FALSE
  SourceMoves = FALSE
SPECIFICATION FairSpec
 
PROPERTY CancelConverges
CHECK_DEADLOCK FALSE
