SPECIFICATION FairSpec
CONSTANTS
  Client = {c1, c2}
  SocketCap = 1
  BufferCap = 1
  InboxCap = 1
INVARIANTS
  HelloIsKept
  StandstillIsExplained
PROPERTIES
  AnswerCountsDown
  HelloAnswered
CHECK_DEADLOCK FALSE
