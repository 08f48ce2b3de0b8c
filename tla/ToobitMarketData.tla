-------------------------- MODULE ToobitMarketData --------------------------
(* exchanges/toobit/toobit_market_data.cpp.  One message subscribes a group; *)
(* a second call replaces the groups but keeps the clients of the first.     *)
EXTENDS MarketData

ToobitSubscribe(n) ==
  /\ ex = "toobit"
  /\ Subscribe(n, Groups(Asked(n)), Len(Groups(Asked(n))))

ToobitUnsubscribe == ex = "toobit" /\ Unsubscribe(<<>>)

\* The number is compared with the clients, not with the groups.
ToobitConnected(c) ==
  /\ ex = "toobit"
  /\ IF conns[c].idx < Len(params)
     THEN ConnectedSends(c, params[conns[c].idx + 1])
     ELSE CanConnect(c) /\ Harmed("index")

ToobitReceive(c) == ex = "toobit" /\ ReceiveBook(c, TRUE)

ToobitNext ==
  \/ \E n \in Requests : ToobitSubscribe(n)
  \/ ToobitUnsubscribe
  \/ \E c \in DOMAIN conns : ToobitConnected(c) \/ ToobitReceive(c)
=============================================================================
