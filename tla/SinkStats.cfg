CONSTANTS
  Threads = {"sink"}
  None = None
  W = 2
  SeqMod = 6
  Lens = {1}
  Retries = 2
  MaxDuring = 2
  MaxReboots = 2
SPECIFICATION Spec
INVARIANTS
  TypeOK
  CountsAgree
PROPERTY ReadIsWhole
