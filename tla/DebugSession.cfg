CONSTANTS
  NumCores = 2
  AttachEvents = 2
  MaxRaised = 3
  MaxBlocks = 2
SPECIFICATION FairSpec
INVARIANTS
  StoppedIsAttended
  AbortsAreExplained
PROPERTIES
  StopCountsDown
  ResumedEventually
  JoinReturns
CHECK_DEADLOCK FALSE
