CONSTANTS
  Buf = {b1, b2, b3, b4}
  NoBuf = NoBuf
  Apps = {"app"}
  MaxInflight = 3
  DropAfterDma = TRUE
  TxCount = 3
  MaxFaults = 1
SPECIFICATION Spec
SYMMETRY Symmetry
INVARIANTS
  TypeOK
  SingleOwner
  CompletionsAttributed
  NeverDead
  TxWindow
CHECK_DEADLOCK FALSE
