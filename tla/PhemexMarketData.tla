-------------------------- MODULE PhemexMarketData --------------------------
(* exchanges/phemex/phemex_market_data.cpp.  A second call opens clients for *)
(* the old groups again; the timer looks at no size; a push may have one     *)
(* side of the book only.                                                    *)
EXTENDS MarketData

PhemexSubscribe(n) ==
  /\ ex = "phemex"
  /\ LET all == params \o Groups(Asked(n)) IN Subscribe(n, all, Len(all))

PhemexUnsubscribe == ex = "phemex" /\ Unsubscribe(<<>>)

PhemexConnected(c) == ex = "phemex" /\ ConnectedDelays(c)

PhemexTimer(i) == ex = "phemex" /\ TimerSendsGroup(i)

\* A side without a change comes empty and is stored as price 0.
PhemexReceive(c) == ex = "phemex" /\ \E whole \in BOOLEAN : ReceiveBook(c, whole)

PhemexNext ==
  \/ \E n \in Requests : PhemexSubscribe(n)
  \/ PhemexUnsubscribe
  \/ \E i \in DOMAIN timers : PhemexTimer(i)
  \/ \E c \in DOMAIN conns : PhemexConnected(c) \/ PhemexReceive(c)
=============================================================================
