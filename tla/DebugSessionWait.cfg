CONSTANTS
  NumCores = 2
  AttachEvents = 2
  MaxRaised = 3
  MaxBlocks = 2
SPECIFICATION Spec
INVARIANT
  WaitNeverFails
CHECK_DEADLOCK FALSE
