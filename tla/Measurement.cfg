CONSTANTS
  None = None
  MaxAttempts = 3
  Floor = 2
  Logs <- FourLogs
  Partial <- OneLog
SPECIFICATION Spec
INVARIANT LoadIsItsOwn
INVARIANT MarkerCountsItsOwn
INVARIANT WindowsAgree
CHECK_DEADLOCK FALSE
