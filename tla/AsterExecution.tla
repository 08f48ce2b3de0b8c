--------------------------- MODULE AsterExecution ---------------------------
(* exchanges/aster/aster_execution.cpp.  The feed belongs to a listen key,  *)
(* fetched over rest_; every request is answered with the whole order.      *)
EXTENDS Execution

\* parse_rtn_order: an expired order is Canceled.
AsterStatus(b, n) == IF b = "expired" THEN "Canceled" ELSE ToOrderStatus(b, n)
AsterView(b, n, t) == View(AsterStatus(b, n), n, "oid", t)

\* An unknown pair is answered InvalidParams and changes nothing.
AsterPlaceOrder == ex = "aster" /\ PlaceOverRest

AsterCancelOrder == ex = "aster" /\ OverRest("cancel")
AsterQueryOrder == ex = "aster" /\ OverRest("query")

\* Without a key it asks for one and returns false.
AsterSubscribeWithoutKey ==
  /\ ex = "aster" /\ MoreCalls
  /\ key = 0
  /\ subscribes' = subscribes + 1
  /\ wants' = FALSE
  /\ fetches' = [fetches EXCEPT !.plain = @ + 1]
  /\ UNCHANGED <<handler, broken, missed, key, path, live, expiries>>
  /\ UNCHANGED <<marketVars, tableVars, orderVars, requestVars, feedVars>>

\* Faulty: connects without asking whether there is a key.
AsterSubscribeAnyKey ==
  /\ ex = "aster" /\ MoreCalls
  /\ subscribes' = subscribes + 1
  /\ handler' = TRUE /\ wants' = TRUE
  /\ ResolveConnect(key)
  /\ UNCHANGED <<missed, key, live, expiries, fetches>>
  /\ UNCHANGED <<marketVars, tableVars, orderVars, requestVars>>

AsterSubscribeOrder ==
  /\ ex = "aster" /\ MoreCalls
  /\ key # 0
  /\ subscribes' = subscribes + 1
  /\ handler' = TRUE /\ wants' = TRUE
  /\ ResolveConnect(key)
  /\ UNCHANGED <<missed, key, live, expiries, fetches>>
  /\ UNCHANGED <<marketVars, tableVars, orderVars, requestVars>>

\* unsubscribe_order: only an open connection is closed, so one that is
\* being opened comes up.
AsterUnsubscribe ==
  /\ key' = 0
  /\ handler' = FALSE
  /\ IF conn = "up" THEN CloseStream ELSE UNCHANGED feedVars

AsterUnsubscribeOrder ==
  /\ ex = "aster" /\ (handler \/ key # 0)
  /\ AsterUnsubscribe
  /\ wants' = FALSE
  /\ UNCHANGED <<broken, missed, subscribes, path, live, expiries, fetches>>
  /\ UNCHANGED <<marketVars, tableVars, orderVars, requestVars>>

\* get_listen_key(), answered.
AsterKeyArrives ==
  /\ ex = "aster" /\ fetches.plain > 0
  /\ fetches' = [fetches EXCEPT !.plain = @ - 1]
  /\ \/ GrantKey
     \/ UNCHANGED <<key, live, expiries>>
  /\ UNCHANGED path
  /\ UNCHANGED <<marketVars, tableVars, orderVars, requestVars, feedVars, subVars>>

\* get_listen_key(true), answered; a failure asks again.  unsubscribe_order
\* throws away the key that has just come and the handler, before
\* subscribe_order is called with that handler: it finds no key, asks for
\* another and returns false.
AsterKeyRenewed ==
  /\ ex = "aster" /\ fetches.renew > 0
  /\ fetches' = [plain |-> fetches.plain + 1, renew |-> fetches.renew - 1]
  /\ live' = TRUE
  /\ AsterUnsubscribe
  /\ UNCHANGED <<wants, broken, missed, subscribes, path, expiries>>
  /\ UNCHANGED <<marketVars, tableVars, orderVars, requestVars>>

\* on_message: listenKeyExpired asks for another key, an order is dispatched.
AsterKeyExpired ==
  /\ ex = "aster" /\ NextPush /\ Head(pushes).event = "key"
  /\ fetches' = [fetches EXCEPT !.renew = @ + 1]
  /\ UNCHANGED <<key, path, live, expiries, orderVars, subVars>>

AsterReceivePush(t) ==
  /\ ex = "aster" /\ NextPush /\ Head(pushes).event # "key"
  /\ Dispatch(AsterView(Head(pushes).event, Head(pushes).n, t))
  /\ UNCHANGED keyVars

\* Faulty: the answer overwrites the status, as the other clients' do.
AsterAnsweredOverwrites(a, t) ==
  /\ ex = "aster" /\ a.ok
  /\ Absorb(a, [order EXCEPT !.status = AsterStatus(a.b, a.n), !.oid = "oid", !.milli = t])

\* send_http_request: any success is an order and goes through update.
AsterAnswered(a, t) ==
  /\ ex = "aster" /\ a.ok
  /\ Absorb(a, [Updated(order, AsterView(a.b, a.n, t)) EXCEPT !.milli = t])

AsterNext ==
  \/ AsterPlaceOrder \/ AsterCancelOrder \/ AsterQueryOrder
  \/ AsterSubscribeWithoutKey \/ AsterSubscribeOrder \/ AsterUnsubscribeOrder
  \/ AsterKeyArrives \/ AsterKeyRenewed \/ AsterKeyExpired
  \/ \E t \in Times : AsterReceivePush(t) \/ \E a \in answers : AsterAnswered(a, t)
=============================================================================
