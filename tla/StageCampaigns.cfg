CONSTANTS
  c1 = c1
  c2 = c2
  Caller = {c1, c2}
  Slots = 3
  Repetitions = 3
  First <- Initial
  Kind <- Kinds
  TrialId <- RunTrials
  MaxTries <- Tries
  FailureLimit <- Limit
  MayOverlap <- OverlapKinds
SPECIFICATION Spec
SYMMETRY CallerSymmetry
INVARIANT TypeOK
INVARIANT VerdictIsEarned
INVARIANT FailureStops
INVARIANT TargetFollowsLadder
INVARIANT StageCanGoOn
CHECK_DEADLOCK FALSE
