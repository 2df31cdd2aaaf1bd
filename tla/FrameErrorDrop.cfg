CONSTANTS
  Data = {a, b}
  Depth = 2
  Slots = 2
  NoBeat = NoBeat
SPECIFICATION FairSpec
INVARIANTS
  TypeOK
  SlotsInOrder
  ReadyInsideFrame
PROPERTIES
  HoldsOffer
  SlotFreed
  KeepsFrames
