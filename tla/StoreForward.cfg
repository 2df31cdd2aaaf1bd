CONSTANTS
  Data = {a, b}
  Depth = 4
  PendingMax = 3
  MaxFrame = 4
  NoBeat = NoBeat
SPECIFICATION FairSpec
INVARIANT TypeOK
PROPERTIES
  NoUnderrun
  ReadyAgain
  FramesLeave
  KeepsFrames
