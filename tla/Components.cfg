CONSTANTS
  Session = {s1, s2}
  MaxPid = 3
  Boot = 1
  Kept = {1}
SPECIFICATION Spec
INVARIANTS
  CrashIsExplained
  NameIsExplained
PROPERTIES
  ClosedCountsDown
  ClosedDisappears
CHECK_DEADLOCK FALSE
