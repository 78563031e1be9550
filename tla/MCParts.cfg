CONSTANTS
  Requests = {q1, q2, q3}
  MaxStoreErrors = 1
  MaxServerDeaths = 2
  OwnedRuns = {ra, rb}
  NAttempts = 2
  NoCheckpoint = NoCheckpoint
  MaxUnread = 0
  MaxOutages = 2
  Keys = {k1, k2}
  None = None
  Limit = 1
  Codes <- MCCodes
  MaxRequests = 3
  MaxChanges = 3
SPECIFICATION MCSpec
INVARIANTS  OnlyAllowedExecutes
INVARIANTS RcTypeOK  ReclaimedIsGone
INVARIANTS MdTypeOK PageShowsItsText EveryPromiseHasItsAnswer DeltasFit
PROPERTIES FirstResolutionStands   CatchesUp
CHECK_DEADLOCK FALSE
