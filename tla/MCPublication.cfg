CONSTANTS
  ra = ra
  rb = rb
  Runs = {ra, rb}
  NoRun = NoRun
  NFiles = 2
  UserInterferes = FALSE
  MaxEdits = 1
  MaxCancels = 1
  MaxCrashes = 2
  Metas <- MCMetas
  Missing <- MCMissing
  StartMetas <- MCStart
  AgentMetas <- MCAgent
  UserMetas <- MCUser
SPECIFICATION Spec
SYMMETRY Symmetry
INVARIANT TypeOK
PROPERTY NoSilentOverwrite
PROPERTY CompleteIsPublished
 
CHECK_DEADLOCK FALSE
