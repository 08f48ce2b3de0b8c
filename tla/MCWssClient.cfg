SPECIFICATION FairSpec
CONSTANTS
  Owners = {"logs", "trade"}
  MaxFaults = 2
  MaxLookups = 1
  MaxUnsent = 1
  MaxReady = 2
  MaxSpins = 1
  MaxResolving = 2
  Wrap = 16
CHECK_DEADLOCK FALSE
INVARIANTS TypeOK OpenIsRead OnCloseMeansIdle NeverStranded
PROPERTIES Settles ImplementsConnection
