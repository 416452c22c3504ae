CONSTANTS
  c1 = c1
  c2 = c2
  Caller = {c1, c2}
  Slots = 2
  MinTraining = 1
  Kind <- Kinds
  TrialId <- AttemptIds
  MaxTries <- OneTry
  FailureLimit <- Limit
  MayOverlap <- OverlapKinds
  Controls <- First
  Adaptive <- Second
SPECIFICATION Spec
SYMMETRY CallerSymmetry
INVARIANT TypeOK
INVARIANT LedgerAgrees
INVARIANT InOrder
INVARIANT CompleteIsMeasured
INVARIANT CausalInputs
INVARIANT NeverWedged
PROPERTY OutcomesAreFinal
