CONSTANTS
  N = 3
  Frame = {f1, f2}
  Junk = Junk
  Burst = {2, 3}
  MaxWait = 1
  MaxFaults = 1
SPECIFICATION FairSpec
INVARIANTS
  TypeOK
  TxWindow
  EngineHasAll
PROPERTIES
  CallReturns
  KeepsPromise
