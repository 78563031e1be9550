CONSTANTS
  ra = ra
  rb = rb
  Runs = {ra}
  NoRun = NoRun
  NFiles = 2
  UserInterferes = FALSE
  MaxEdits = 0
  MaxCancels = 1
  MaxCrashes = 1
  Metas <- MCMetas
  Missing <- MCMissing
  StartMetas <- MCStart
  AgentMetas <- MCAgent
  UserMetas <- MCUser
SPECIFICATION Spec
PROPERTY NoPartialForgotten
CHECK_DEADLOCK FALSE
