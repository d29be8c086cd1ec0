CONSTANTS
  SocketCap = 3
  BufferCap = 3
  InboxCap = 2
  AlivePeriod = 2
  Timeout = 4
SPECIFICATION LinkFairSpec
INVARIANTS
  MisreadIsExplained
PROPERTIES
  DropNeedsPauseOrBacklog
  DroppedWhileAlive
  Reconnects
  MovesAreSent
CHECK_DEADLOCK FALSE
