SPECIFICATION FairSessionSpec
CONSTANTS
  Instances = {m1, m2}
  BadRelay = FALSE
  MaxKeys = 1
  MaxFaults = 3
INVARIANT NoBlindWindow
PROPERTY SessionReturns
CHECK_DEADLOCK FALSE
