SPECIFICATION FairSpec
CONSTANTS
  None = None
  Caller = {c1}
  Application = {a1}
  Knob <- TwoKnobs
  Static <- OneStatic
  Value = {"old", "new"}
  Boot <- Old
  Shown <- AsWritten
  Requested <- Both
INVARIANTS RolledBackIsDurable
PROPERTIES ActivatesWhole RollbackConverges ApplyConverges
