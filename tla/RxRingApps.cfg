CONSTANTS
  Buf = {b1, b2, b3}
  NoBuf = NoBuf
  N = 3
  MaxInflight = 2
  MaxStack = 1
  Apps = {app}
  CoopApps = {}
  MaxFaults = 1
SPECIFICATION Spec
SYMMETRY BufSymmetry
CONSTRAINT BeforeReopening
INVARIANTS
  OwnedOnce
  RingRefilled
  PublishedWhenIdle
