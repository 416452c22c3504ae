SPECIFICATION Spec
CONSTANTS
  t1 = t1
  t2 = t2
  None = None
  Worker = {w1, w2}
  Trial = {t1, t2}
  Kind <- AllHealth
  MaxAttempts <- OnceOrTwice
  FailureLimit = 2
CHECK_DEADLOCK FALSE
SYMMETRY SymmetricWorkers
INVARIANTS IInv FailureAccounting
PROPERTIES ClosedIsFinal ImplementsDurableTrial
