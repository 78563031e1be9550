CONSTANTS
  Sockets = {s1, s2}
  NoSocket = NoSocket
  Cap = 1
  ReplayLimit = 1
  PastEvents = 1
  MaxEvents = 2
  MaxDrops = 1
  MaxFails = 0
SPECIFICATION EsSpec
PROPERTY ViewCatchesUp
CHECK_DEADLOCK FALSE
