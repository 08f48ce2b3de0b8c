--------------------------- MODULE KucoinExecution ---------------------------
(***************************************************************************)
(* The life of one order in exchanges/kucoin/kucoin_execution.cpp.         *)
(*                                                                         *)
(* Three channels carry views of the order, and nothing orders them with   *)
(* respect to each other:                                                  *)
(*   - wss_trade_: place and cancel requests and the answers to them;      *)
(*     ws_request_cache_ holds the order and its callback per request id;  *)
(*   - wss_stream_: pushes, parsed into a fresh Order and dispatched;      *)
(*   - rest_: queries, each answered by a snapshot of the order.           *)
(* The answers change the caller's order object, which the strategy shares *)
(* with the client, and the strategy applies the pushes to the same object *)
(* with Order::update, as the client itself does with a query's answer.    *)
(* The client is single-threaded: a handler runs to its end.               *)
(*                                                                         *)
(* The exchange is outside the repository.  It is modelled from what the   *)
(* parsers read: it answers each request once, pushes every change of the  *)
(* order to a subscribed connection in the order of the changes, and loses *)
(* what is in flight when a connection drops.                              *)
(***************************************************************************)
EXTENDS Orders, FiniteSets

CONSTANTS
  AccountModes,  \* the account modes the client is built for
  Qty,           \* contracts of the order
  Prices,        \* prices at which one contract can trade
  MaxRequests,   \* bound on place and cancel requests
  MaxQueries,    \* bound on queries
  MaxDrops,      \* bound on lost connections and messages that cannot be read
  MaxSubscribes, \* bound on calls of subscribe_order
  MaxRefreshes,  \* bound on refreshes that add or remove the pair
  MaxEvents      \* bound on queries, drops and refreshes together

ASSUME ModeAssumption == AccountModes \subseteq {"CLASSIC", "UNIFIED"}
ASSUME QtyAssumption == Qty \in Nat \ {0}
ASSUME PricesAssumption == Prices \subseteq Nat \ {0}
ASSUME BoundsAssumption ==
  /\ MaxRequests \in Nat /\ MaxQueries \in Nat /\ MaxDrops \in Nat
  /\ MaxSubscribes \in Nat /\ MaxRefreshes \in Nat /\ MaxEvents \in Nat

VARIABLES
  mode,       \* g_account_mode: "CLASSIC" or "UNIFIED"; nothing changes it
  book,       \* the order at the exchange
  turnover,   \* turnover[n]: what the first n traded contracts cost together
  order,      \* the caller's order object
  fills,      \* its fills
  reqid,      \* req_id_
  cache,      \* ws_request_cache_: the requests waiting for an answer
  calls,      \* how often the callback of each request was called
  lost,       \* requests that were not sent, that went down with wss_trade_ or
              \* whose answer could not be read
  trade,      \* whether wss_trade_ is connected and logged in
  sent,       \* requests on their way to the exchange
  answers,    \* answers on their way back
  stream,     \* whether wss_stream_ is connected
  handler,    \* whether order_handler_ is set
  subscribed, \* whether the exchange pushes to wss_stream_
  pushes,     \* pushes on their way
  queries,    \* queries on their way to the exchange
  snapshots,  \* answers to queries on their way back
  asked,      \* how many queries were sent
  failed,     \* a failure was written to the order
  missed,     \* a push did not reach the strategy
  known,      \* whether the order's pair is in g_pairs_info_cache
  refreshes,  \* how often a refresh of g_pairs_info_cache changed that
  unscaled,   \* amounts of the order were parsed while its pair was unknown
  drops, subscribes

tradeVars == <<trade, sent, answers>>
requestVars == <<reqid, cache, calls, lost>>
streamVars == <<stream, handler, subscribed, pushes, missed, subscribes>>
queryVars == <<queries, snapshots, asked>>
pairVars == <<known, refreshes, unscaled>>
bookVars == <<mode, book, turnover>>
orderVars == <<order, fills, failed>>
vars == <<bookVars, orderVars, requestVars, tradeVars, streamVars, queryVars, pairVars, drops>>

Traded == Len(turnover)
Turnover(n) == IF n = 0 THEN 0 ELSE turnover[n]

Init ==
  /\ mode \in AccountModes
  /\ book = "none" /\ turnover = <<>>
  /\ order \in {NewOrder(t) : t \in Times} /\ fills = <<>> /\ failed = FALSE
  /\ reqid = 0 /\ cache = {} /\ calls = [u \in 1 .. MaxRequests |-> 0] /\ lost = {}
  /\ trade = "closed" /\ sent = <<>> /\ answers = <<>>
  /\ stream = "closed" /\ handler = "none" /\ subscribed = "no" /\ pushes = <<>>
  /\ missed = FALSE /\ subscribes = 0
  /\ queries = {} /\ snapshots = {} /\ asked = 0
  /\ known \in BOOLEAN /\ refreshes = 0 /\ unscaled = FALSE
  /\ drops = 0

MoreEvents == asked + drops + refreshes < MaxEvents

-----------------------------------------------------------------------------
(* What the parsers make of a push and of a query's answer.                *)

NoFill == [cum |-> 0, quote |-> 0, avg |-> NoPrice]

\* cum_deal_base, avg_price and cum_deal_quote = cum_deal_base * avg_price,
\* from the exchange's filled size and its average price.
Filling(n, paid) ==
  [cum |-> n, quote |-> paid, avg |-> IF n = 0 THEN NoPrice ELSE <<paid, n>>]

View(s, f) == [status |-> s, oid |-> "oid", ec |-> "Ok", cum |-> f.cum, quote |-> f.quote, avg |-> f.avg]

StatusOf(b, n) ==
  CASE b = "filled" -> "Filled"
    [] b = "canceled" -> "Canceled"
    [] OTHER -> IF n > 0 THEN "PartiallyFilled" ELSE "New"

\* parse_unified_query_order and parse_unified_rtn_order
UnifiedView(b, n, paid) == View(StatusOf(b, n), Filling(n, paid))

\* parse_classic_query_order: an open order that is being cancelled is
\* "Canceling" unless something of it has traded.
ClassicQueryView(b, n, paid) ==
  View(IF b = "canceling" /\ n = 0 THEN "Canceling" ELSE StatusOf(b, n), Filling(n, paid))

\* Faulty: the test of remainSize is inverted.
ClassicMatchInverted(n, p) ==
  View(IF n < Qty THEN "Filled" ELSE "PartiallyFilled",
       [cum |-> n, quote |-> n * p, avg |-> <<p, 1>>])

\* parse_classic_rtn_order: only a match has amounts, and it takes the price
\* of the last match for the average price of the order.
ClassicMatch(n, p) ==
  View(IF n < Qty THEN "PartiallyFilled" ELSE "Filled",
       [cum |-> n, quote |-> n * p, avg |-> <<p, 1>>])
ClassicOther(s) == View(s, NoFill)

-----------------------------------------------------------------------------
(* Calls of the strategy                                                   *)

\* send_ws_request: what is not sent is only logged, and the request is
\* cached all the same.
Send(op) ==
  LET r == [uid |-> reqid + 1, op |-> op]
  IN  /\ reqid < MaxRequests
      /\ reqid' = reqid + 1
      /\ cache' = cache \cup {r}
      /\ sent' = IF trade = "open" THEN Append(sent, r) ELSE sent
      /\ lost' = IF trade = "open" THEN lost ELSE lost \cup {r.uid}
      /\ UNCHANGED <<calls, trade, answers>>

\* The strategy places an order object once.
Unplaced == reqid = 0 /\ ~failed

PlaceOrder ==
  /\ Unplaced /\ known
  /\ Send("place")
  /\ UNCHANGED <<bookVars, orderVars, streamVars, queryVars, pairVars, drops>>

\* The pair is not in g_pairs_info_cache.
PlaceUnknownPair ==
  /\ Unplaced /\ ~known
  /\ order' = [order EXCEPT !.status = "Failed", !.ec = "Error"]
  /\ failed' = TRUE
  /\ UNCHANGED <<bookVars, fills, requestVars, tradeVars, streamVars, queryVars, pairVars, drops>>

\* Without a market_oid cancel_order and query_order answer InvalidParams at
\* once and change nothing.
CancelOrder ==
  /\ order.oid # ""
  /\ Send("cancel")
  /\ UNCHANGED <<bookVars, orderVars, streamVars, queryVars, pairVars, drops>>

QueryOrder ==
  /\ order.oid # ""
  /\ asked < MaxQueries /\ MoreEvents
  /\ asked' = asked + 1
  /\ queries' = queries \cup {asked + 1}
  /\ UNCHANGED <<bookVars, orderVars, requestVars, tradeVars, streamVars, snapshots, pairVars, drops>>

\* order_handler_ is replaced whether or not the subscription can be sent.
SubscribeOrder ==
  /\ subscribes < MaxSubscribes
  /\ subscribes' = subscribes + 1
  /\ handler' = "set"
  /\ subscribed' = IF stream = "open" THEN "yes" ELSE subscribed
  /\ UNCHANGED <<bookVars, orderVars, requestVars, tradeVars, stream, pushes, missed,
                 queryVars, pairVars, drops>>

UnsubscribeOrder ==
  /\ handler = "set"
  /\ handler' = "none"
  /\ subscribed' = IF stream = "open" THEN "no" ELSE subscribed
  /\ UNCHANGED <<bookVars, orderVars, requestVars, tradeVars, stream, pushes, missed,
                 subscribes, queryVars, pairVars, drops>>

-----------------------------------------------------------------------------
(* The exchange                                                            *)

Push(views) ==
  /\ pushes' = IF subscribed = "yes" THEN pushes \o views ELSE pushes
  /\ missed' = (missed \/ subscribed = "no")
  /\ UNCHANGED <<stream, handler, subscribed, subscribes>>

Answer(ok) ==
  /\ sent' = Tail(sent)
  /\ answers' = Append(answers, [uid |-> Head(sent).uid, op |-> Head(sent).op, ok |-> ok])
  /\ UNCHANGED trade

OtherView(s) ==
  IF mode = "CLASSIC" THEN ClassicOther(s)
  ELSE View(s, Filling(Traded, Turnover(Traded)))

ExchangeAccepts ==
  /\ sent # <<>> /\ Head(sent).op = "place"
  /\ book = "none"
  /\ book' = "open"
  /\ Answer("yes")
  /\ Push(<<OtherView("New")>>)
  /\ UNCHANGED <<mode, turnover, orderVars, requestVars, queryVars, pairVars, drops>>

ExchangeAcceptsCancel ==
  /\ sent # <<>> /\ Head(sent).op = "cancel"
  /\ book = "open"
  /\ book' = "canceling"
  /\ Answer("yes")
  /\ UNCHANGED <<mode, turnover, orderVars, requestVars, streamVars, queryVars, pairVars, drops>>

\* For want of margin, because the order is done, over the rate limit, ...
ExchangeRefuses ==
  /\ sent # <<>>
  /\ Answer("no")
  /\ UNCHANGED <<bookVars, orderVars, requestVars, streamVars, queryVars, pairVars, drops>>

ExchangeMatches(p) ==
  LET n == Traded + 1
      paid == Turnover(Traded) + p
  IN  /\ book \in {"open", "canceling"}
      /\ book' = IF n = Qty THEN "filled" ELSE book
      /\ turnover' = Append(turnover, paid)
      /\ Push(IF mode = "UNIFIED" THEN <<UnifiedView(book', n, paid)>>
              ELSE IF n = Qty THEN <<ClassicMatch(n, p), ClassicOther("Filled")>>
              ELSE <<ClassicMatch(n, p)>>)
      /\ UNCHANGED <<mode, orderVars, requestVars, tradeVars, queryVars, pairVars, drops>>

\* After an accepted cancel, or by itself (an IOC order's remainder).
ExchangeCancels ==
  /\ book \in {"open", "canceling"}
  /\ book' = "canceled"
  /\ Push(<<OtherView("Canceled")>>)
  /\ UNCHANGED <<mode, turnover, orderVars, requestVars, tradeVars, queryVars, pairVars, drops>>

ExchangeAnswersQuery(q) ==
  /\ queries' = queries \ {q}
  /\ snapshots' = snapshots \cup
       {[id |-> q,
         view |-> IF mode = "CLASSIC"
                  THEN ClassicQueryView(book, Traded, Turnover(Traded))
                  ELSE UnifiedView(book, Traded, Turnover(Traded))]}
  /\ UNCHANGED <<bookVars, orderVars, requestVars, tradeVars, streamVars, asked, pairVars, drops>>

-----------------------------------------------------------------------------
(* Connections                                                             *)

TradeConnect ==
  /\ trade = "closed"
  /\ trade' = "open"
  /\ UNCHANGED <<bookVars, orderVars, requestVars, sent, answers, streamVars, queryVars, pairVars, drops>>

\* on_error: the connection is closed and reopened by a timer (TradeConnect).
\* ws_request_cache_ is left as it is.
TradeDrop ==
  /\ trade = "open" /\ drops < MaxDrops /\ MoreEvents
  /\ drops' = drops + 1
  /\ trade' = "closed"
  /\ lost' = lost \cup {sent[i].uid : i \in DOMAIN sent} \cup {answers[i].uid : i \in DOMAIN answers}
  /\ sent' = <<>> /\ answers' = <<>>
  /\ UNCHANGED <<bookVars, orderVars, reqid, cache, calls, streamVars, queryVars, pairVars>>

\* on_connect starts the ping timer and subscribes to nothing.
StreamConnect ==
  /\ stream = "closed"
  /\ stream' = "open"
  /\ UNCHANGED <<bookVars, orderVars, requestVars, tradeVars, handler, subscribed, pushes,
                 missed, subscribes, queryVars, pairVars, drops>>

\* Reopened by the network library (StreamConnect).
StreamDrop ==
  /\ stream = "open" /\ drops < MaxDrops /\ MoreEvents
  /\ drops' = drops + 1
  /\ stream' = "closed"
  /\ subscribed' = "no"
  /\ pushes' = <<>>
  /\ missed' = (missed \/ pushes # <<>>)
  /\ UNCHANGED <<bookVars, orderVars, requestVars, tradeVars, handler, subscribes, queryVars,
                 pairVars>>

-----------------------------------------------------------------------------
(* Handlers of the client                                                  *)

\* Faulty: the request stays in the cache.
CompleteKeeps(a) ==
  calls' = [calls EXCEPT ![a.uid] = @ + 1] /\ UNCHANGED cache

\* Faulty: a refused request leaves the cache without a callback.
CompleteSilent(a) ==
  /\ calls' = IF a.ok = "yes" THEN [calls EXCEPT ![a.uid] = @ + 1] ELSE calls
  /\ cache' = cache \ {[uid |-> a.uid, op |-> a.op]}

\* cb(ec, order); ws_request_cache_.erase(iter);
Complete(a) ==
  /\ calls' = [calls EXCEPT ![a.uid] = @ + 1]
  /\ cache' = cache \ {[uid |-> a.uid, op |-> a.op]}

\* on_classic_message, on_unified_message on wss_trade_: the answer to the
\* request is written to the order, the callback is called and the request
\* leaves the cache.
ReceiveAnswer(t) ==
  LET a == Head(answers)
  IN  /\ answers # <<>>
      /\ answers' = Tail(answers)
      /\ IF [uid |-> a.uid, op |-> a.op] \in cache
         THEN /\ order' = [order EXCEPT
                   !.status = IF a.ok = "no" THEN "Failed"
                              ELSE IF a.op = "place" THEN "New" ELSE "Canceling",
                   !.oid = IF a.ok = "yes" /\ a.op = "place" THEN "oid" ELSE @,
                   !.ec = IF a.ok = "no" THEN "Error" ELSE @,
                   !.milli = t]
              /\ failed' = (failed \/ a.ok = "no")
              /\ Complete(a)
         ELSE UNCHANGED <<order, failed, calls, cache>>
      /\ UNCHANGED <<bookVars, fills, reqid, lost, trade, sent, streamVars, queryVars, pairVars, drops>>

\* The parser throws and on_message's catch only logs: the request stays in the
\* cache, and nothing will answer it any more.
DropAnswer ==
  /\ answers # <<>> /\ drops < MaxDrops /\ MoreEvents
  /\ drops' = drops + 1
  /\ answers' = Tail(answers)
  /\ lost' = lost \cup {Head(answers).uid}
  /\ UNCHANGED <<bookVars, orderVars, reqid, cache, calls, trade, sent, streamVars, queryVars,
                 pairVars>>

\* parse_classic_pairs_info, parse_unified_pairs_info, of a query that any client
\* of the process makes: the cache is cleared and filled with the contracts that
\* are open for trading, up to the first one that cannot be parsed.  A refresh
\* that finds the pair as the one before did changes nothing here.
RefreshPairs ==
  /\ refreshes < MaxRefreshes /\ MoreEvents
  /\ refreshes' = refreshes + 1
  /\ known' = ~known
  /\ UNCHANGED <<bookVars, orderVars, requestVars, tradeVars, streamVars, queryVars, unscaled,
                 drops>>

\* get_denomination_value turns contracts into base currency; it is 0 for a pair
\* that is not in g_pairs_info_cache, and the amounts of a message are 0 then.
\* The average price is taken as it comes.
Denominated(v) == IF known THEN v ELSE [v EXCEPT !.cum = 0, !.quote = 0]

\* What Denominated loses.
Parse(v) ==
  /\ unscaled' = (unscaled \/ Denominated(v).cum # v.cum)
  /\ UNCHANGED <<known, refreshes>>

\* The Order a parser makes of a view at the time t.
Parsed(v, t) ==
  [status |-> v.status, milli |-> t, oid |-> v.oid, ec |-> v.ec, cum |-> v.cum,
   quote |-> v.quote, dbase |-> 0, dquote |-> 0, avg |-> v.avg]

\* ... on wss_stream_: parse and dispatch_order; the strategy's handler
\* applies the order it is given.
ReceivePush(t) ==
  LET other == Parsed(Denominated(Head(pushes)), t)
  IN  /\ pushes # <<>> /\ handler = "set"
      /\ pushes' = Tail(pushes)
      /\ order' = Updated(order, other)
      /\ fills' = UpdatedFills(order, fills, other)
      /\ Parse(Head(pushes))
      /\ UNCHANGED <<bookVars, failed, requestVars, tradeVars, stream, handler, subscribed,
                     missed, subscribes, queryVars, drops>>

\* There is no handler, or the parser throws and the catch only logs.
DropPush ==
  /\ pushes # <<>>
  /\ \/ handler = "none" /\ UNCHANGED drops
     \/ drops < MaxDrops /\ MoreEvents /\ drops' = drops + 1
  /\ pushes' = Tail(pushes)
  /\ missed' = TRUE
  /\ UNCHANGED <<bookVars, orderVars, requestVars, tradeVars, stream, handler, subscribed,
                 subscribes, queryVars, pairVars>>

\* send_http_request's callback; order->milli is stamped after update.
ReceiveQuery(a, t) ==
  LET other == Parsed(Denominated(a.view), t)
  IN  /\ order' = [Updated(order, other) EXCEPT !.milli = t]
      /\ fills' = UpdatedFills(order, fills, other)
      /\ snapshots' = snapshots \ {a}
      /\ Parse(a.view)
      /\ UNCHANGED <<bookVars, failed, requestVars, tradeVars, streamVars, queries, asked, drops>>

\* A query that timed out, was refused or whose answer cannot be parsed fails
\* the order.
FailQuery(t) ==
  /\ \/ \E q \in queries : queries' = queries \ {q} /\ UNCHANGED snapshots
     \/ \E a \in snapshots : snapshots' = snapshots \ {a} /\ UNCHANGED queries
  /\ order' = [order EXCEPT !.status = "Failed", !.ec = "Error", !.milli = t]
  /\ failed' = TRUE
  /\ UNCHANGED <<bookVars, fills, requestVars, tradeVars, streamVars, asked, pairVars, drops>>

-----------------------------------------------------------------------------
Exchange ==
  \/ ExchangeAccepts \/ ExchangeAcceptsCancel \/ ExchangeRefuses \/ ExchangeCancels
  \/ \E p \in Prices : ExchangeMatches(p)
  \/ \E q \in queries : ExchangeAnswersQuery(q)

Handlers ==
  \/ DropAnswer \/ DropPush
  \/ \E t \in Times :
       \/ ReceiveAnswer(t) \/ ReceivePush(t) \/ FailQuery(t)
       \/ \E a \in snapshots : ReceiveQuery(a, t)

Next ==
  \/ PlaceOrder \/ PlaceUnknownPair \/ CancelOrder \/ QueryOrder
  \/ SubscribeOrder \/ UnsubscribeOrder
  \/ Exchange \/ Handlers \/ RefreshPairs
  \/ TradeConnect \/ TradeDrop \/ StreamConnect \/ StreamDrop

Spec == Init /\ [][Next]_vars

(***************************************************************************)
(* The event loop runs every handler that is ready, and the exchange       *)
(* answers what it received.  Nothing makes an order trade, a connection   *)
(* drop or the strategy call.                                              *)
(***************************************************************************)
Fairness ==
  /\ WF_vars(DropAnswer \/ \E t \in Times : ReceiveAnswer(t))
  /\ WF_vars(DropPush \/ \E t \in Times : ReceivePush(t))
  /\ WF_vars(ExchangeAccepts \/ ExchangeAcceptsCancel \/ ExchangeRefuses)
FairSpec == Spec /\ Fairness

-----------------------------------------------------------------------------
(* Properties                                                              *)

Request == [uid : 1 .. MaxRequests, op : {"place", "cancel"}]
AnswerType == [uid : 1 .. MaxRequests, op : {"place", "cancel"}, ok : {"yes", "no"}]
ViewType == [status : OrderStatus, oid : {"oid"}, ec : {"Ok"}, cum : 0 .. Qty,
             quote : Nat, avg : Price]

BookTypeOK ==
  /\ mode \in AccountModes
  /\ book \in {"none", "open", "canceling", "filled", "canceled"}
  /\ turnover \in Seq(Nat)
  /\ Traded <= Qty /\ (Traded = Qty => book = "filled")
OrderTypeOK == order \in Order /\ fills \in Seq(Fill) /\ failed \in BOOLEAN
RequestTypeOK ==
  /\ reqid \in 0 .. MaxRequests /\ cache \subseteq Request
  /\ calls \in [1 .. MaxRequests -> Nat] /\ lost \subseteq 1 .. MaxRequests
TradeTypeOK ==
  trade \in {"open", "closed"} /\ sent \in Seq(Request) /\ answers \in Seq(AnswerType)
StreamTypeOK ==
  /\ stream \in {"open", "closed"} /\ handler \in {"set", "none"}
  /\ subscribed \in {"yes", "no"} /\ pushes \in Seq(ViewType) /\ missed \in BOOLEAN
  /\ subscribes \in 0 .. MaxSubscribes
QueryTypeOK ==
  /\ queries \subseteq 1 .. MaxQueries /\ asked \in 0 .. MaxQueries
  /\ snapshots \subseteq [id : 1 .. MaxQueries, view : ViewType]
PairTypeOK == known \in BOOLEAN /\ unscaled \in BOOLEAN /\ refreshes \in 0 .. MaxRefreshes

\* Type invariant.
TypeOK ==
  /\ BookTypeOK /\ OrderTypeOK /\ RequestTypeOK /\ TradeTypeOK /\ StreamTypeOK
  /\ QueryTypeOK /\ PairTypeOK /\ drops \in 0 .. MaxDrops

\* The order never shows a trade or an end that did not happen at the
\* exchange, in whatever order answers, pushes and snapshots come in: it has
\* at most the traded contracts, and it says Filled or Canceled only of an order
\* that is.
NeverAhead ==
  /\ order.cum <= Traded
  /\ order.status = "Filled" => book = "filled"
  /\ order.status = "Canceled" => book = "canceled"

\* The fills of the order cover the contracts up to cum_deal_base one after
\* the other, none twice and none left out, whichever mixture of pushes and
\* snapshots they were taken from: their quantities add up to cum_deal_base.
FillsTile ==
  /\ \A i \in DOMAIN fills :
       /\ fills[i].from < fills[i].to
       /\ fills[i].from = IF i = 1 THEN 0 ELSE fills[i - 1].to
  /\ order.cum = IF fills = <<>> THEN 0 ELSE fills[Len(fills)].to

Underway == {sent[i].uid : i \in DOMAIN sent} \cup {answers[i].uid : i \in DOMAIN answers}
Waiting == {r.uid : r \in cache}

\* A request is answered to its caller exactly once or it still waits in the
\* cache; and it waits either for something that is under way or because it was
\* not sent, it or its answer was lost with the connection, or its answer could
\* not be read.
RequestsAccountedFor ==
  \A u \in 1 .. reqid :
    /\ calls[u] = IF u \in Waiting THEN 0 ELSE 1
    /\ u \in Waiting <=> u \in Underway \/ u \in lost

\* Only a failure, a push that got lost or amounts parsed while the pair had no
\* denomination can hide a trade: once the pushes are in, the order has every
\* traded contract, whatever answers and stale snapshots were applied between
\* them.
TradesArrive ==
  ~failed /\ ~missed /\ ~unscaled /\ pushes = <<>> => order.cum = Traded

\* The amount of quote currency is what the contracts in cum_deal_base cost.
\* Only of a unified account: a classic push values every contract so far at
\* the price of the last match.
QuoteIsTurnover == mode = "UNIFIED" => order.quote = Turnover(order.cum)

\* The fills taken from pushes carry the price at which their contracts traded.
\* Only of a classic account: a unified push has the average price of all
\* contracts so far, and update makes it the price of the new ones.  And only
\* while every match was parsed with its pair's denomination: the fill after an
\* unscaled match covers the contracts of both at the second one's price.
FillsHaveTradePrice ==
  mode = "CLASSIC" /\ ~failed /\ ~missed /\ ~unscaled /\ asked = 0 =>
    \A i \in DOMAIN fills :
      fills[i].price[1] * (fills[i].to - fills[i].from) =
        fills[i].price[2] * (Turnover(fills[i].to) - Turnover(fills[i].from))

\* cum_deal_base ("cumulative traded quantity", structs.h) is what the exchange
\* traded, as soon as the pushes are in, whatever became of cancel requests.
CumIsTraded == ~missed /\ pushes = <<>> => order.cum = Traded

\* A request that went out is answered to its caller as long as its
\* connection lasts and its answer can be read.
RequestsAnswered ==
  \A u \in 1 .. MaxRequests : u \in Underway ~> calls[u] = 1 \/ u \in lost
=============================================================================
