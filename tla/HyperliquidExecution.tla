------------------------ MODULE HyperliquidExecution ------------------------
(* exchanges/hyperliquid/hyperliquid_execution.cpp.  Orders are placed and  *)
(* cancelled over wss_stream_, the connection that also carries the feed.   *)
EXTENDS Execution

\* parse_rtn_order: a status it does not know is New, and amounts are not
\* read.
HyperliquidStatus(b) ==
  CASE b = "filled" -> "Filled" [] b = "canceled" -> "Canceled" [] OTHER -> "New"
HyperliquidView(b, t) == View(HyperliquidStatus(b), 0, "oid", t)

HyperliquidPlaceUnknownPair == ex = "hyperliquid" /\ PairUnknown

\* send_ws_request only warns when it cannot send, and the request is cached
\* all the same.
HyperliquidSend(op) ==
  /\ ex = "hyperliquid" /\ pairs /\ MoreCalls
  /\ uid' = uid + 1
  /\ waiting' = waiting \cup {uid + 1}
  /\ sent' = IF conn = "up" THEN sent \cup {[uid |-> uid + 1, op |-> op]} ELSE sent
  /\ lost' = IF conn = "up" THEN lost ELSE lost \cup {uid + 1}
  /\ UNCHANGED <<calls, answers>>

HyperliquidPlaceOrder ==
  /\ ~placed /\ placed' = TRUE
  /\ HyperliquidSend("place")
  /\ UNCHANGED <<order, failed, reopened, crashed>>
  /\ UNCHANGED <<marketVars, tableVars, feedVars, subVars, keyVars>>

\* Without a market_oid the action is no JSON, and hashing it throws out of
\* cancel_order.
HyperliquidCancelOrder ==
  /\ order.oid # ""
  /\ HyperliquidSend("cancel")
  /\ UNCHANGED <<marketVars, tableVars, orderVars, feedVars, subVars, keyVars>>

HyperliquidQueryOrder == ex = "hyperliquid" /\ OverRest("query")

\* true, also when the subscription could not be sent.
HyperliquidSubscribeOrder ==
  /\ ex = "hyperliquid" /\ MoreCalls
  /\ subscribes' = subscribes + 1
  /\ handler' = TRUE /\ wants' = TRUE
  /\ broken' = IF conn = "up" THEN "no" ELSE "unsent"
  /\ feeds' = (conn = "up")
  /\ UNCHANGED <<missed, conn, stopping, pushes, drops>>
  /\ UNCHANGED <<marketVars, tableVars, orderVars, requestVars, keyVars>>

HyperliquidUnsubscribeOrder ==
  /\ ex = "hyperliquid" /\ handler
  /\ handler' = FALSE /\ wants' = FALSE
  /\ feeds' = FALSE
  /\ UNCHANGED <<broken, missed, subscribes, conn, stopping, pushes, drops>>
  /\ UNCHANGED <<marketVars, tableVars, orderVars, requestVars, keyVars>>

HyperliquidShutdown ==
  /\ ex = "hyperliquid"
  /\ wants' = FALSE
  /\ CloseStream
  /\ UNCHANGED <<handler, broken, missed, subscribes>>
  /\ UNCHANGED <<marketVars, tableVars, orderVars, requestVars, keyVars>>

HyperliquidReceivePush(t) ==
  /\ ex = "hyperliquid" /\ NextPush
  /\ Dispatch(HyperliquidView(Head(pushes).event, t))
  /\ UNCHANGED keyVars

\* on_message: what traded at once comes with the answer to place, as
\* PartiallyFilled even when it is all; else the order rests.
HyperliquidPlaced(a) ==
  IF a.n > 0
  THEN [order EXCEPT !.oid = "oid", !.status = "PartiallyFilled", !.cum = a.n, !.quote = a.n]
  ELSE [order EXCEPT !.oid = "oid", !.status = "New"]

HyperliquidAbsorbed(a, t) ==
  CASE a.op = "place" -> HyperliquidPlaced(a)
    [] a.op = "cancel" -> [order EXCEPT !.status = "Canceling"]
    [] OTHER -> Updated(order, HyperliquidView(a.b, t))

HyperliquidAnswered(a, t) ==
  /\ ex = "hyperliquid" /\ a.ok
  /\ Absorb(a, [HyperliquidAbsorbed(a, t) EXCEPT !.milli = t])

\* A cancel that is refused in "statuses" passes for a success: only the answer
\* to place is looked into.
HyperliquidCancelRefused(a, t) ==
  /\ ex = "hyperliquid" /\ ~a.ok /\ a.op = "cancel"
  /\ Absorb(a, [order EXCEPT !.status = "Canceling", !.milli = t])

\* The handling of an answer throws and on_message catches it: the request stays
\* cached and its callback is never called.  What the answer to place says has
\* been written so far as it was read.
HyperliquidUnread(a) ==
  /\ ex = "hyperliquid" /\ OverWs(a.op)
  /\ answers' = answers \ {a} /\ lost' = lost \cup {a.uid}
  /\ \/ UNCHANGED <<order, reopened>>
     \/ /\ a.ok /\ a.op = "place" /\ a.n > 0
        /\ \E n \in {order.cum, a.n} :
             order' = [order EXCEPT !.oid = "oid", !.status = "PartiallyFilled", !.cum = n]
        /\ reopened' = (reopened \/ order.status \in Finished)
  /\ UNCHANGED <<placed, failed, crashed, uid, waiting, calls, sent>>
  /\ UNCHANGED <<marketVars, tableVars, feedVars, subVars, keyVars>>

HyperliquidNext ==
  \/ HyperliquidPlaceUnknownPair \/ HyperliquidPlaceOrder
  \/ HyperliquidCancelOrder \/ HyperliquidQueryOrder
  \/ HyperliquidSubscribeOrder \/ HyperliquidUnsubscribeOrder \/ HyperliquidShutdown
  \/ \E t \in Times : \/ HyperliquidReceivePush(t)
                      \/ \E a \in answers : \/ HyperliquidAnswered(a, t)
                                              \/ HyperliquidCancelRefused(a, t)
  \/ \E a \in answers : HyperliquidUnread(a)
=============================================================================
