SPECIFICATION FairSpec
CONSTANTS
  Owners = {"trade"}
  MaxFaults = 1
  MaxLookups = 0
  MaxUnsent = 1
  MaxReady = 1
  MaxSpins = 2
  MaxResolving = 2
  Wrap = 16
CHECK_DEADLOCK FALSE
PROPERTIES TradeConnectionReturns
