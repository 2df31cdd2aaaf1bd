CONSTANTS
  Wrap = 429
  Requests = {0, 300}
  DefaultDuration = 50
  MaxDuration = 300
  Delays = {0, 7, 20}
  MaxDelay = 10
  BurstCount = 32
  MaxTime = 900
SPECIFICATION Spec
INVARIANT BelowWrap
CHECK_DEADLOCK FALSE
