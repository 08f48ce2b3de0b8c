------------------------- MODULE HyperliquidQueries -------------------------
(* exchanges/hyperliquid/hyperliquid_account.cpp, the queries of              *)
(* hyperliquid_market_data.cpp and their parsers.                             *)
EXTENDS RestQueries

HyperliquidGetBalance(q) == ex = "hyperliquid" /\ q.op = "balance" /\ Send(q)
HyperliquidGetPosition(q) == ex = "hyperliquid" /\ q.op = "position" /\ Send(q)
HyperliquidGetMarginRatio(q) == ex = "hyperliquid" /\ q.op = "margin" /\ Send(q)
HyperliquidFetchPairsInfo(q) == ex = "hyperliquid" /\ q.op = "pairs" /\ Send(q)

\* The request needs the number of the pair.
HyperliquidSetLeverage(q) ==
  /\ ex = "hyperliquid" /\ q.op = "leverage"
  /\ IF q.pair \in known THEN Send(q) ELSE Ignore(q)

HyperliquidFetchFundingFee(q) ==
  /\ ex = "hyperliquid" /\ q.op = "funding"
  /\ IF q.pair = NoPair THEN Refuse(q) ELSE Send(q)

\* The currency that was asked for is not looked at.
HyperliquidBalance == {"settle"}

\* Nor is the pair.
HyperliquidPositions(a) == Entries(a.held)

\* parse_funding_fee: a pair that is not in the answer gives a null pointer.
HyperliquidFundingFee(a) == IF a.q.pair \in a.listed THEN {"fee"} ELSE {}

HyperliquidReceive(a) ==
  /\ ex = "hyperliquid"
  /\ \/ a.q.op = "pairs" /\ HearsPairs(a)
     \/ a.q.op = "position" /\ Hears(a, HyperliquidPositions(a))
     \/ a.q.op = "balance" /\ Hears(a, HyperliquidBalance)
     \/ a.q.op = "funding" /\ Hears(a, HyperliquidFundingFee(a))
     \/ a.q.op \in {"leverage", "margin"} /\ Hears(a, {})

HyperliquidNext ==
  \/ \E q \in Query :
       \/ HyperliquidGetBalance(q) \/ HyperliquidGetPosition(q) \/ HyperliquidSetLeverage(q)
       \/ HyperliquidGetMarginRatio(q) \/ HyperliquidFetchPairsInfo(q)
       \/ HyperliquidFetchFundingFee(q)
  \/ \E a \in answers : HyperliquidReceive(a)
=============================================================================
