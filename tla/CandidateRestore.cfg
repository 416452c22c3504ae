SPECIFICATION Spec
CONSTANTS
  None = None
  Caller = {c1, c2}
  Mechanism <- BothMechanisms
  MaxAttempts = 3
  MaxFaults = 3
CHECK_DEADLOCK FALSE
SYMMETRY SymmetricCallers
INVARIANTS TypeOK LedgerConsistent ReturnedIsPassed RestoreCanRetry
PROPERTIES OnlyTheLatestMoves
