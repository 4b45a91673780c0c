CONSTANTS
  Addr <- MCAddr
  Frames <- MCFrames
  Raw <- MCRaw
  Options <- MCOptions
  CodecIds <- MCIds
  ChannelCounts <- MCCounts
  MaxHandles = 2
  MaxClock = 2
SPECIFICATION Spec
INVARIANTS TypeOK HeapExact PlcFollowsOwnPackets
PROPERTY WrongKindHarmless
CHECK_DEADLOCK FALSE
