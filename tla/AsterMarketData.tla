--------------------------- MODULE AsterMarketData ---------------------------
(* exchanges/aster/aster_market_data.cpp.  unsubscribe_orderbook leaves       *)
(* stream_params_ as it is, and the next call subscribes the old groups too.  *)
EXTENDS MarketData

AsterSubscribe(n) ==
  /\ ex = "aster"
  /\ LET all == params \o Groups(Asked(n)) IN Subscribe(n, all, Len(all))

AsterUnsubscribe == ex = "aster" /\ Unsubscribe(params)

AsterConnected(c) == ex = "aster" /\ ConnectedSends(c, params[conns[c].idx + 1])

\* on_message_bookticker and on_message_partial_depth
AsterReceive(c) == ex = "aster" /\ ReceiveBook(c, TRUE)

AsterNext ==
  \/ \E n \in Requests : AsterSubscribe(n)
  \/ AsterUnsubscribe
  \/ \E c \in DOMAIN conns : AsterConnected(c) \/ AsterReceive(c)
=============================================================================
