SPECIFICATION Spec
CONSTANTS
  Client = {c1, c2}
  SocketCap = 2
  MaxCopies = 2
  MaxEvents = 3
INVARIANTS
  HeldIsExplained
  LastCopyWins
CHECK_DEADLOCK FALSE
