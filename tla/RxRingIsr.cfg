CONSTANTS
  Buf = {b1, b2, b3}
  NoBuf = NoBuf
  N = 3
  MaxInflight = 2
  MaxStack = 1
  Apps = {}
  CoopApps = {}
  MaxFaults = 1
SPECIFICATION Spec
SYMMETRY BufSymmetry
INVARIANTS
  TypeOK
  RingWindow
  OwnerAccounting
  CompletionNoticed
  WindowOwnedUnlessReopened
