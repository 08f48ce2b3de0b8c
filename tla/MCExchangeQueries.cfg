SPECIFICATION Spec
CONSTANTS
  Exchanges = {"kucoin", "toobit", "phemex", "aster", "edgex", "hyperliquid"}
  Pairs = {p1, p2}
  NoPair = NoPair
  MaxCalls = 2
  MaxChanges = 2
SYMMETRY Symmetry
CHECK_DEADLOCK FALSE
INVARIANTS AnsweredOnce OkShowsAccount
