SPECIFICATION Spec
CONSTANTS
  None = None
  Caller = {c1, c2}
  Application = {a1}
  Knob <- TwoKnobs
  Static <- OneStatic
  Value = {"old", "new"}
  Boot <- Old
  Shown <- AsWritten
  Requested <- Both
SYMMETRY Callers
INVARIANTS RecoveryInv LastKnownGoodSurvives SnapshotIsOriginal
