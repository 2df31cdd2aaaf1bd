CONSTANTS
  Buf = {b1, b2}
  NoBuf = NoBuf
  N = 2
  MaxInflight = 1
  MaxStack = 1
  Apps = {app}
  CoopApps = {app}
  MaxFaults = 1
SPECIFICATION FairSpec
PROPERTIES
  RecoveryRestarts
  RingComesBack
