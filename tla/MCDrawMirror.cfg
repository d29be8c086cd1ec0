SPECIFICATION Spec
CONSTANTS
  Client = {c1, c2}
  VtxBuffer = {v1, v2}
  IdxBuffer = {x}
  CmdBuffer = {m1, m2}
  MaxLists = 2
  SocketCap = 1
  MaxChanges = 2
  MaxInputs = 0
  MaxErased = 1
SYMMETRY Symmetry
INVARIANTS
  NeverStale
  BlankIsExplained
  FontNeedsWindow
  SkipsOnlyExchanges
CHECK_DEADLOCK FALSE
