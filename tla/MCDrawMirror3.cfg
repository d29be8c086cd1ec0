SPECIFICATION Spec
CONSTANTS
  Client = {c1, c2, c3}
  VtxBuffer = {v}
  IdxBuffer = {x}
  CmdBuffer = {m}
  MaxLists = 1
  SocketCap = 1
  MaxChanges = 1
  MaxInputs = 1
  MaxErased = 1
SYMMETRY Symmetry
INVARIANTS
  GapNeedsRace
CHECK_DEADLOCK FALSE
