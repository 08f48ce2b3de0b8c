\* One order of two units on each exchange.
SPECIFICATION FairSpec
CONSTANTS
  Times = {1}
  Exchanges = {"aster", "toobit", "phemex", "edgex", "hyperliquid"}
  Qty = 2
  MaxCalls = 3
  MaxFaults = 1
CHECK_DEADLOCK FALSE
INVARIANTS TypeOK RequestsAccountedFor SubscribedIsFed SettledAgrees
PROPERTIES CallersHear
