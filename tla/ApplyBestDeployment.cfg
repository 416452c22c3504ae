SPECIFICATION FairSpecDeployment
CONSTANTS
  None = None
  Recovery = Recovery
  Activation = Activation
  Caller = {c1}
  Application = {Recovery, Activation}
  Knob <- TwoKnobs
  Static <- OneStatic
  Value = {"old", "new"}
  Boot <- Old
  Shown <- AsWritten
  Requested <- Champion
CHECK_DEADLOCK FALSE
INVARIANTS DeploymentTypeOK TestLeavesNoTrace
PROPERTIES ActivationCanBeUndone
