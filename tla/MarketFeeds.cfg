\* Two pairs, one or two of them a connection.
SPECIFICATION FairSpec
CONSTANTS
  Exchanges = {"kucoin", "toobit", "phemex", "aster", "edgex", "hyperliquid"}
  NumPairs = 2
  Limits = {1, 2}
  Times = {1, 2}
  MaxTicks = 2
  MaxWatching = 2
  MaxEvents = 2
CHECK_DEADLOCK FALSE
INVARIANTS TypeOK MemorySafe BooksCurrent
 
