CONSTANTS
  HeaderSize = 2
  BufferCap = 6
  FixedTypes <- MCFixedTypes
  FixedSize <- MCFixedSize
  ClipSizes <- MCClipSizes
  ClipMax = 4
  SocketCap = 6
  MaxPackets = 4
SPECIFICATION FairSpec
INVARIANTS
  NoSpuriousDisconnect
  BacklogBounded
PROPERTIES
  FramingIsAChannel
  LaterTrafficFlushes
CHECK_DEADLOCK FALSE
