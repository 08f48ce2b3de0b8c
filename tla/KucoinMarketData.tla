-------------------------- MODULE KucoinMarketData --------------------------
(* exchanges/kucoin/kucoin_market_data.cpp.  One entry of stream_params_ is  *)
(* one pair; subscriptions wait for a timer, which looks at the size.        *)
EXTENDS MarketData

KucoinSubscribe(n) ==
  /\ ex = "kucoin"
  /\ Subscribe(n, Singles(Asked(n)), FlatClients(Asked(n)))

KucoinUnsubscribe == ex = "kucoin" /\ Unsubscribe(<<>>)

KucoinConnected(c) == ex = "kucoin" /\ ConnectedDelays(c)

\* Faulty: the vectors are indexed without a look at their sizes.
KucoinTimerUnchecked(i) == ex = "kucoin" /\ TimerSendsGroup(i)

KucoinTimer(i) == ex = "kucoin" /\ TimerSends(i, Flat(i))

KucoinReceive(c) == ex = "kucoin" /\ ReceiveBook(c, TRUE)

KucoinNext ==
  \/ \E n \in Requests : KucoinSubscribe(n)
  \/ KucoinUnsubscribe
  \/ \E i \in DOMAIN timers : KucoinTimer(i)
  \/ \E c \in DOMAIN conns : KucoinConnected(c) \/ KucoinReceive(c)
=============================================================================
