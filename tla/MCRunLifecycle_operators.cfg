CONSTANTS
  r1 = r1
  w1 = w1
  w2 = w2
  Runs = {r1}
  Workers = {w1, w2}
  NoRun = NoRun
  ArtifactOnlyRuns = {}
  MaxStages = 1
  MaxRepair = 1
  MaxReplan = 1
  MaxStageAttempts = 1
  MaxCandidates = 1
  MaxCrashes = 1
  MaxShutdowns = 1
  MaxCancels = 1
  MaxIntegrates = 1
  DiskPressure = TRUE
  SourceMoves = TRUE
SPECIFICATION Spec
SYMMETRY Symmetry
INVARIANT OneExecution
 
 
PROPERTY HistoryAppendOnly
CHECK_DEADLOCK FALSE
