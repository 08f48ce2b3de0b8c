--------------------------- MODULE EdgexMarketData ---------------------------
(* exchanges/edgex/edgex_market_data.cpp.  Pairs are subscribed by contract;  *)
(* books are dated by the local clock.                                        *)
EXTENDS MarketData

\* An unknown pair is skipped before the test whether its group ends, so the
\* group it would have ended is lost, and so are those behind it.
EdgexGroups(n) ==
  SubSeq(Groups(n), 1, IF n <= known THEN Len(Groups(n)) ELSE known \div limit)

EdgexSubscribe(n) ==
  /\ ex = "edgex"
  /\ LET all == params \o EdgexGroups(Asked(n)) IN Subscribe(n, all, Len(all))

EdgexUnsubscribe == ex = "edgex" /\ Unsubscribe(<<>>)

EdgexConnected(c) == ex = "edgex" /\ ConnectedDelays(c)

EdgexTimer(i) == ex = "edgex" /\ TimerSendsGroup(i)

\* A push of an unknown contract is dropped.
EdgexReceive(c, now) ==
  /\ ex = "edgex"
  /\ TakePush(c)
  /\ LET push == Head(conns[c].inbox)
     IN  IF push.p <= known
         THEN /\ ApplyOrderbookDelta(push, now, TRUE, TRUE)
              /\ clock' = now /\ stepped' = (stepped \/ now < clock)
         ELSE UNCHANGED <<books, got, clock, stepped>>

EdgexNext ==
  \/ \E n \in Requests : EdgexSubscribe(n)
  \/ EdgexUnsubscribe
  \/ \E i \in DOMAIN timers : EdgexTimer(i)
  \/ \E c \in DOMAIN conns : EdgexConnected(c) \/ \E now \in Times : EdgexReceive(c, now)
=============================================================================
