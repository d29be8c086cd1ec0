CONSTANTS
  Client = {c1, c2, c3}
  BufferCap = 2
  SocketCap = 1
  Timeout = 0
  SeqMod = 3
SYMMETRY Symmetry
SPECIFICATION Spec
INVARIANTS
  StreamIntact
PROPERTIES
  OnlyTheLastIsTorn
  ErasesTheVisited
CHECK_DEADLOCK FALSE
