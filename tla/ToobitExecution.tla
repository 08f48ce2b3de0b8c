--------------------------- MODULE ToobitExecution ---------------------------
(* exchanges/toobit/toobit_execution.cpp.  The feed belongs to a listen     *)
(* key; the exchange counts contracts, whose size is in the pairs table.    *)
EXTENDS Execution

\* get_denomination_value is 0 for a pair that is not in the table.
ToobitAmount(n) == IF pairs THEN n ELSE 0

ToobitStatus(b, n) == IF b = "expired" THEN "Canceled" ELSE ToOrderStatus(b, n)
ToobitView(b, n, t) == View(ToobitStatus(b, n), ToobitAmount(n), "oid", t)

ToobitPlaceUnknownPair == ex = "toobit" /\ PairUnknown
ToobitPlaceOrder == ex = "toobit" /\ PlaceOverRest

\* Less than one contract: the callback says so, and only ec is written.
ToobitPlaceTooSmall ==
  /\ ex = "toobit" /\ ~placed /\ pairs
  /\ order' = [order EXCEPT !.ec = "Error"]
  /\ UNCHANGED <<placed, failed, reopened, crashed>>
  /\ UNCHANGED <<marketVars, tableVars, requestVars, feedVars, subVars, keyVars>>

ToobitCancelOrder == ex = "toobit" /\ OverRest("cancel")
ToobitQueryOrder == ex = "toobit" /\ OverRest("query")

\* Without a key it waits for get_listen_key_sync, and returns false if that
\* fails.
ToobitSubscribeFails ==
  /\ ex = "toobit" /\ MoreCalls
  /\ key = 0
  /\ subscribes' = subscribes + 1
  /\ wants' = FALSE
  /\ UNCHANGED <<handler, broken, missed>>
  /\ UNCHANGED <<marketVars, tableVars, orderVars, requestVars, feedVars, keyVars>>

ToobitSubscribeOrder ==
  /\ ex = "toobit" /\ MoreCalls
  /\ IF key = 0 THEN GrantKey ELSE UNCHANGED <<key, live, expiries>>
  /\ subscribes' = subscribes + 1
  /\ handler' = TRUE /\ wants' = TRUE
  /\ ResolveConnect(key')
  /\ UNCHANGED <<missed, fetches>>
  /\ UNCHANGED <<marketVars, tableVars, orderVars, requestVars>>

ToobitUnsubscribeOrder ==
  /\ ex = "toobit"
  /\ CloseStream
  /\ key' = 0
  /\ handler' = FALSE /\ wants' = FALSE
  /\ UNCHANGED <<broken, missed, subscribes, path, live, expiries, fetches>>
  /\ UNCHANGED <<marketVars, tableVars, orderVars, requestVars>>

\* get_listen_key of initialize, answered.
ToobitKeyArrives ==
  /\ ex = "toobit" /\ fetches.plain > 0
  /\ fetches' = [fetches EXCEPT !.plain = @ - 1]
  /\ \/ GrantKey
     \/ UNCHANGED <<key, live, expiries>>
  /\ UNCHANGED path
  /\ UNCHANGED <<marketVars, tableVars, orderVars, requestVars, feedVars, subVars>>

ToobitReceivePush(t) ==
  /\ ex = "toobit" /\ NextPush
  /\ Dispatch(ToobitView(Head(pushes).event, Head(pushes).n, t))
  /\ UNCHANGED keyVars

\* send_http_request: New after place and Canceling after cancel, whatever
\* the order has become since; a query goes through update.
ToobitAbsorbed(a, t) ==
  CASE a.op = "place" -> [order EXCEPT !.oid = "oid", !.status = "New"]
    [] a.op = "cancel" -> [order EXCEPT !.status = "Canceling"]
    [] OTHER -> Updated(order, ToobitView(a.b, a.n, t))

ToobitAnswered(a, t) ==
  /\ ex = "toobit" /\ a.ok
  /\ Absorb(a, [ToobitAbsorbed(a, t) EXCEPT !.milli = t])

ToobitNext ==
  \/ ToobitPlaceUnknownPair \/ ToobitPlaceTooSmall \/ ToobitPlaceOrder
  \/ ToobitCancelOrder \/ ToobitQueryOrder
  \/ ToobitSubscribeFails \/ ToobitSubscribeOrder \/ ToobitUnsubscribeOrder
  \/ ToobitKeyArrives
  \/ \E t \in Times : ToobitReceivePush(t) \/ \E a \in answers : ToobitAnswered(a, t)
=============================================================================
