------------------------ MODULE ExchangeExecutions ------------------------
(* The five execution modules that share Execution, and what their callers  *)
(* can rely on.                                                             *)
EXTENDS AsterExecution, ToobitExecution, PhemexExecution, EdgexExecution,
        HyperliquidExecution

\* Nothing runs after a null order was used.
Next ==
  /\ ~crashed
  /\ \/ CommonNext
     \/ AsterNext \/ ToobitNext \/ PhemexNext \/ EdgexNext \/ HyperliquidNext

Spec == Init /\ [][Next]_vars

Answered ==
  /\ ~crashed
  /\ \E a \in answers, t \in Times :
       \/ AsterAnswered(a, t) \/ ToobitAnswered(a, t) \/ PhemexAnswered(a, t)
       \/ EdgexAnswered(a, t) \/ EdgexAnsweredNull(a)
       \/ HyperliquidAnswered(a, t) \/ HyperliquidCancelRefused(a, t) \/ HyperliquidUnread(a)
       \/ AnswerRefuses(a, t)

\* The exchange answers requests and the handlers of answers run.
Fairness == WF_vars(~crashed /\ RequestsAtExchange) /\ WF_vars(Answered)

FairSpec == Spec /\ Fairness

-----------------------------------------------------------------------------
Ops == {"place", "cancel", "query"}
Keys == 0 .. MaxFaults + 1

TypeOK ==
  /\ ex \in Exchanges /\ book \in BookStates /\ traded \in 0 .. Qty
  /\ pairs \in BOOLEAN /\ tableLost \in BOOLEAN /\ refreshes \in 0 .. MaxFaults
  /\ order \in Order /\ {placed, failed, reopened, crashed} \subseteq BOOLEAN
  /\ uid \in 0 .. MaxCalls
  /\ waiting \subseteq 1 .. uid /\ lost \subseteq 1 .. uid
  /\ calls \in [1 .. MaxCalls -> {0, 1}]
  /\ sent \subseteq [uid : 1 .. MaxCalls, op : Ops]
  /\ answers \subseteq [uid : 1 .. MaxCalls, op : Ops, ok : BOOLEAN,
                        b : BookStates, n : 0 .. Qty]
  /\ conn \in {"down", "opening", "connecting", "up", "closing", "dead"}
  /\ {stopping, feeds, handler, wants, missed, live} \subseteq BOOLEAN
  /\ pushes \in Seq([event : Ended \cup {"open", "key"}, n : 0 .. Qty])
  /\ drops \in 0 .. MaxFaults /\ broken \in {"no", "drop", "unsent", "unbound"}
  /\ subscribes \in 0 .. MaxCalls /\ expiries \in 0 .. MaxFaults
  /\ key \in Keys /\ path \in Keys
  /\ fetches \in [plain : Nat, renew : Nat]

\* Every request is answered to its caller exactly once, by the one handler
\* of its answer or its failure; until then the answer is on its way, except
\* for what hyperliquid did not send, lost with the connection or threw up on
\* when the answer came, and keeps in ws_request_cache_ for ever
\* (hyperliquid_execution.cpp:111, 254).  An order that
\* was placed has its pair in the tables, so edgex's parser hands out a null
\* order (edgex_utils.cpp:299) only after a refresh has emptied them.
RequestsAccountedFor ==
  /\ \A u \in 1 .. MaxCalls :
       /\ calls[u] = (IF u <= uid /\ u \notin waiting THEN 1 ELSE 0)
       /\ u \in waiting => u \in lost \/ \E r \in sent \cup answers : r.uid = u
  /\ lost # {} => ex = "hyperliquid"
  /\ crashed => ex = "edgex" /\ placed /\ refreshes > 0

\* What can silence a subscription that was accepted: an expired listen key;
\* an earlier close(), after which nothing reconnects; a lookup or a bind that
\* failed, which nothing tries again (websocket.h:233, 388); on phemex and
\* hyperliquid a connection that broke, since on_connect does not subscribe
\* again; on hyperliquid a connection that was not up yet.
Silenced ==
  \/ expiries > 0 \/ stopping \/ conn = "dead" \/ broken = "unbound"
  \/ ex = "phemex" /\ broken = "drop"
  \/ ex = "hyperliquid" /\ broken # "no"

\* subscribe_order returned true ("@return 订阅成功返回true", interface.h:211):
\* the handler is set and the exchange pushes to the connection, or the
\* connection is on its way; only the causes above stop the pushes.
SubscribedIsFed ==
  wants /\ ~Silenced =>
    handler /\ (conn \in {"opening", "connecting"} \/ (conn = "up" /\ feeds))

\* The status each client ends with.
EndStatus ==
  CASE ex = "aster" -> AsterStatus(book, traded)
    [] ex = "toobit" -> ToobitStatus(book, traded)
    [] OTHER -> ToOrderStatus(book, traded)

\* Once the order has ended and nothing is on its way any more, the caller's
\* order has ended alike and shows what was traded, unless a push went
\* astray, a failure was written to it, or the late answer of a REST request
\* put it back to New or Canceling.  aster's answers cannot do that to a
\* filled order.  On hyperliquid an order the exchange ended for a reason its
\* parser does not know never finishes.  toobit needs the pairs table for amounts, hyperliquid's
\* pushes have none.
SettledAgrees ==
  /\ book \in Ended /\ sent = {} /\ answers = {} /\ pushes = <<>>
  /\ ~(missed \/ failed \/ crashed)
  =>
  /\ \/ order.status = EndStatus
     \/ reopened /\ ~(ex = "aster" /\ book = "filled")
     \/ ex = "hyperliquid" /\ book = "expired" /\ order.status \notin Finished
  /\ order.cum = traded \/ ex = "hyperliquid" \/ (ex = "toobit" /\ tableLost)

\* When the strategy asks no more, every caller hears of its request in the
\* end, unless hyperliquid lost it or could not read the answer to it.
CallersHear == <>[](waiting \subseteq lost \/ crashed)
=============================================================================
