SPECIFICATION Spec
CONSTANTS
  t1 = t1
  t2 = t2
  None = None
  Worker = {w1}
  Trial = {t1}
  Kind <- AllTuned
  MaxAttempts <- Twice
  FailureLimit = 1
CHECK_DEADLOCK FALSE
INVARIANTS MeasuredAsRequested
