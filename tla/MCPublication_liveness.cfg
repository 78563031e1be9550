CONSTANTS
  ra = ra
  rb = rb
  Runs = {ra, rb}
  NoRun = NoRun
  NFiles = 1
  UserInterferes = FALSE
  MaxEdits = 1
  MaxCancels = 1
  MaxCrashes = 1
  Metas <- MCMetas
  Missing <- MCMissing
  StartMetas <- MCStart
  AgentMetas <- MCAgent
  UserMetas <- MCUser
SPECIFICATION FairSpec
PROPERTY EventuallyDecided
CHECK_DEADLOCK FALSE
