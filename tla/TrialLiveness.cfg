SPECIFICATION FairSpec
CONSTANTS
  t1 = t1
  t2 = t2
  None = None
  Worker = {w1}
  Trial = {t1, t2}
  Kind <- AllHealth
  MaxAttempts <- Twice
  FailureLimit = 2
CHECK_DEADLOCK FALSE
PROPERTIES EventuallySettled
