SPECIFICATION FairSpec
CONSTANTS
  Times = {1, 2}
  AccountModes = {"CLASSIC", "UNIFIED"}
  Qty = 2
  Prices = {1, 2}
  MaxRequests = 2
  MaxQueries = 1
  MaxDrops = 1
  MaxSubscribes = 1
  MaxRefreshes = 2
  MaxEvents = 2
CHECK_DEADLOCK FALSE
INVARIANTS TypeOK NeverAhead FillsTile RequestsAccountedFor TradesArrive FillsHaveTradePrice QuoteIsTurnover
PROPERTIES RequestsAnswered
