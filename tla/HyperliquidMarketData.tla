------------------------ MODULE HyperliquidMarketData ------------------------
(* exchanges/hyperliquid/hyperliquid_market_data.cpp.  One entry of           *)
(* stream_params_ is one pair of the table; a second call adds to it and      *)
(* opens clients for all of it.                                               *)
EXTENDS MarketData

HyperliquidSubscribe(n) ==
  /\ ex = "hyperliquid"
  /\ LET all == params \o Singles(Min({Asked(n), known}))
     IN  Subscribe(n, all, FlatClients(Len(all)))

HyperliquidUnsubscribe == ex = "hyperliquid" /\ Unsubscribe(<<>>)

HyperliquidConnected(c) == ex = "hyperliquid" /\ ConnectedSends(c, Flat(conns[c].idx))

HyperliquidReceive(c) ==
  /\ ex = "hyperliquid"
  /\ TakePush(c)
  /\ LET push == Head(conns[c].inbox)
     IN  ApplyOrderbookDelta(push, Milli(push.p, push.k), TRUE, TRUE)
  /\ UNCHANGED <<clock, stepped>>

HyperliquidNext ==
  \/ \E n \in Requests : HyperliquidSubscribe(n)
  \/ HyperliquidUnsubscribe
  \/ \E c \in DOMAIN conns : HyperliquidConnected(c) \/ HyperliquidReceive(c)
=============================================================================
