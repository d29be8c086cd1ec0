SPECIFICATION Spec
CONSTANTS
  Body = {x, y}
  NumLists = 2
  Size = {3, 5}
  DefaultSize = 3
  PosBound = 7
  Nothing = Nothing
  FontTexture = FontTexture
  SocketCap = 2
  MaxChanges = 1
  MaxResizes = 2
  MaxLost = 1
INVARIANTS
  SettledIsExact
  StaleIsExplained
  TextureIsExplained
CHECK_DEADLOCK FALSE
