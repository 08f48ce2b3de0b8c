SPECIFICATION Spec
CONSTANTS
  Times = {1}
  AccountModes = {"CLASSIC"}
  Qty = 2
  Prices = {1, 2}
  MaxRequests = 2
  MaxQueries = 0
  MaxDrops = 0
  MaxSubscribes = 1
  MaxRefreshes = 0
  MaxEvents = 2
CHECK_DEADLOCK FALSE
INVARIANTS CumIsTraded
