--------------------------- MODULE EdgexExecution ---------------------------
(* exchanges/edgex/edgex_execution.cpp.  The connection, signed in its      *)
(* header, is the feed; orders name a contract the tables must know.        *)
EXTENDS Execution

\* parse_rtn_order: a partially filled order is still OPEN, and market_oid
\* stays empty.
EdgexStatus(b, n) == IF b = "open" THEN "New" ELSE ToOrderStatus(b, n)
EdgexView(b, n, t) == View(EdgexStatus(b, n), n, "", t)

EdgexPlaceUnknownPair == ex = "edgex" /\ PairUnknown

\* Missing stark info and an unsupported type are answered InvalidParams and
\* change nothing; a market order waits for get_maker_price first.
EdgexPlaceOrder == ex = "edgex" /\ PlaceOverRest
EdgexCancelOrder == ex = "edgex" /\ OverRest("cancel")
EdgexQueryOrder == ex = "edgex" /\ OverRest("query")

EdgexSubscribeOrder ==
  /\ ex = "edgex" /\ MoreCalls
  /\ subscribes' = subscribes + 1
  /\ handler' = TRUE /\ wants' = TRUE
  /\ ResolveConnect(0)
  /\ UNCHANGED <<missed, key, live, expiries, fetches>>
  /\ UNCHANGED <<marketVars, tableVars, orderVars, requestVars>>

EdgexUnsubscribeOrder ==
  /\ ex = "edgex"
  /\ handler' = FALSE /\ wants' = FALSE
  /\ CloseStream
  /\ UNCHANGED <<broken, missed, subscribes>>
  /\ UNCHANGED <<marketVars, tableVars, orderVars, requestVars, keyVars>>

EdgexShutdown ==
  /\ ex = "edgex"
  /\ wants' = FALSE
  /\ CloseStream
  /\ UNCHANGED <<handler, broken, missed, subscribes>>
  /\ UNCHANGED <<marketVars, tableVars, orderVars, requestVars, keyVars>>

\* parse_rtn_order returns nullptr for a contract that is not in the table;
\* the strategy's handler and update follow the pointer.
NullOrder ==
  /\ crashed' = TRUE
  /\ UNCHANGED <<order, placed, failed, reopened>>

EdgexReceivePush(t) ==
  /\ ex = "edgex" /\ NextPush
  /\ IF pairs \/ ~handler
     THEN Dispatch(EdgexView(Head(pushes).event, Head(pushes).n, t))
     ELSE NullOrder /\ UNCHANGED subVars
  /\ UNCHANGED keyVars

EdgexAbsorbed(a, t) ==
  CASE a.op = "place" -> [order EXCEPT !.oid = "oid", !.status = "New"]
    [] a.op = "cancel" -> [order EXCEPT !.status = "Canceling"]
    [] OTHER -> Updated(order, EdgexView(a.b, a.n, t))

EdgexAnswered(a, t) ==
  /\ ex = "edgex" /\ a.ok /\ (pairs \/ a.op # "query")
  /\ Absorb(a, [EdgexAbsorbed(a, t) EXCEPT !.milli = t])

EdgexAnsweredNull(a) ==
  /\ ex = "edgex" /\ a.ok /\ ~pairs /\ a.op = "query"
  /\ NullOrder
  /\ UNCHANGED <<marketVars, tableVars, requestVars, feedVars, subVars, keyVars>>

EdgexNext ==
  \/ EdgexPlaceUnknownPair \/ EdgexPlaceOrder \/ EdgexCancelOrder \/ EdgexQueryOrder
  \/ EdgexSubscribeOrder \/ EdgexUnsubscribeOrder \/ EdgexShutdown
  \/ \E t \in Times : EdgexReceivePush(t) \/ \E a \in answers : EdgexAnswered(a, t)
  \/ \E a \in answers : EdgexAnsweredNull(a)
=============================================================================
