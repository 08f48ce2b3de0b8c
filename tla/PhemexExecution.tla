--------------------------- MODULE PhemexExecution ---------------------------
(* exchanges/phemex/phemex_execution.cpp.  The feed is subscribed by a      *)
(* message; only a push tells the order's market_oid.                       *)
EXTENDS Execution

\* parse_rtn_order
PhemexStatus(b, n) == ToOrderStatus(b, n)
PhemexView(b, n, t) == View(PhemexStatus(b, n), n, "oid", t)

PhemexPlaceUnknownPair == ex = "phemex" /\ PairUnknown
PhemexPlaceOrder == ex = "phemex" /\ PlaceOverRest
PhemexCancelOrder == ex = "phemex" /\ OverRest("cancel")
PhemexQueryOrder == ex = "phemex" /\ OverRest("query")

\* order_handler_ is replaced whether or not the subscription can be sent;
\* it returns whether it was.
PhemexSubscribeOrder ==
  /\ ex = "phemex" /\ MoreCalls
  /\ subscribes' = subscribes + 1
  /\ handler' = TRUE /\ wants' = (conn = "up") /\ broken' = "no"
  /\ feeds' = (conn = "up")
  /\ UNCHANGED <<missed, conn, stopping, pushes, drops>>
  /\ UNCHANGED <<marketVars, tableVars, orderVars, requestVars, keyVars>>

\* Also shutdown(): the connection is never closed.
PhemexUnsubscribeOrder ==
  /\ ex = "phemex" /\ handler
  /\ handler' = FALSE /\ wants' = FALSE
  /\ feeds' = FALSE
  /\ UNCHANGED <<broken, missed, subscribes, conn, stopping, pushes, drops>>
  /\ UNCHANGED <<marketVars, tableVars, orderVars, requestVars, keyVars>>

PhemexReceivePush(t) ==
  /\ ex = "phemex" /\ NextPush
  /\ Dispatch(PhemexView(Head(pushes).event, Head(pushes).n, t))
  /\ UNCHANGED keyVars

PhemexAbsorbed(a, t) ==
  CASE a.op = "place" -> [order EXCEPT !.status = "New"]
    [] a.op = "cancel" -> [order EXCEPT !.status = "Canceling"]
    [] OTHER -> Updated(order, PhemexView(a.b, a.n, t))

PhemexAnswered(a, t) ==
  /\ ex = "phemex" /\ a.ok
  /\ Absorb(a, [PhemexAbsorbed(a, t) EXCEPT !.milli = t])

\* Faulty: a query that finds no rows is dropped.
PhemexOrderIgnored(a, t) ==
  /\ ex = "phemex" /\ a.ok /\ a.op = "query"
  /\ waiting' = waiting \ {a.uid} /\ answers' = answers \ {a}
  /\ UNCHANGED <<uid, calls, sent, lost>>
  /\ UNCHANGED <<marketVars, tableVars, orderVars, feedVars, subVars, keyVars>>

\* A query that finds no rows fails the order.
PhemexOrderNotFound(a, t) ==
  /\ ex = "phemex" /\ a.ok /\ a.op = "query"
  /\ FailRequest(a.uid, t)

PhemexNext ==
  \/ PhemexPlaceUnknownPair \/ PhemexPlaceOrder \/ PhemexCancelOrder \/ PhemexQueryOrder
  \/ PhemexSubscribeOrder \/ PhemexUnsubscribeOrder
  \/ \E t \in Times : \/ PhemexReceivePush(t)
                      \/ \E a \in answers : PhemexAnswered(a, t) \/ PhemexOrderNotFound(a, t)
=============================================================================
