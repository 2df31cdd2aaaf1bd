CONSTANTS
  Buf = {b1, b2, b3}
  NoBuf = NoBuf
  N = 3
  MaxInflight = 2
  MaxStack = 1
  Apps = {}
  CoopApps = {}
  MaxFaults = 0
SPECIFICATION Spec
SYMMETRY BufSymmetry
INVARIANT EngineWindowOwned
