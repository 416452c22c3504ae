SPECIFICATION Spec
CONSTANTS
  t1 = t1
  t2 = t2
  None = None
  Worker = {w1}
  Trial = {t1, t2}
  Kind <- TunedAndSaturation
  MaxAttempts <- Once
  FailureLimit = 2
CHECK_DEADLOCK FALSE
INVARIANTS MeasuredAsRequested FinishedLeavesDefault
