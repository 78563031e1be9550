CONSTANTS
  r1 = r1
  w1 = w1
  w2 = w2
  Runs = {r1}
  Workers = {w1, w2}
  NoRun = NoRun
  ArtifactOnlyRuns = {}
  MaxStages = 5
  MaxRepair = 1
  MaxReplan = 1
  MaxStageAttempts = 2
  MaxCandidates = 1
  MaxCrashes = 1
  MaxShutdowns = 0
  MaxCancels = 0
  MaxIntegrates = 0
  DiskPressure = FALSE
  SourceMoves = FALSE
SPECIFICATION Spec
SYMMETRY Symmetry
INVARIANT TypeOK
INVARIANT OneOpenAttempt
INVARIANT BudgetRespected
INVARIANT HardGate
INVARIANT NoTornResume
CHECK_DEADLOCK FALSE
