------------------------------ MODULE Execution ------------------------------
(***************************************************************************)
(* What the execution modules of aster, toobit, phemex, edgex and          *)
(* hyperliquid share: one order, its requests and its feed.                *)
(*                                                                         *)
(* Requests go out over rest_ (hyperliquid: place and cancel over          *)
(* wss_stream_), one connection each, so nothing orders their answers with *)
(* respect to each other or to the pushes.  The feed is the one websocket  *)
(* connection wss_stream_; how it is opened, authenticated, subscribed and *)
(* given up is what the five differ in, each in a module of its own.  The  *)
(* strategy applies a push to its order object with Order::update.         *)
(*                                                                         *)
(* The exchange is outside the repository: it executes a request in any    *)
(* order, answers it once, pushes each change of the order to the          *)
(* connection it feeds, and gives away at most one listen key at a time.   *)
(* Every unit trades at price 1 and prices are not followed.               *)
(***************************************************************************)
EXTENDS Orders, FiniteSets

CONSTANTS
  Exchanges,      \* the exchanges to look at
  Qty,            \* units of the order
  MaxCalls,       \* bound on requests that are sent and calls of subscribe_order
  MaxFaults       \* bound on lost connections, expired keys and table refreshes

ASSUME ExchangesAssumption ==
  Exchanges \subseteq {"aster", "toobit", "phemex", "edgex", "hyperliquid"}
ASSUME SizesAssumption ==
  /\ Qty \in Nat \ {0}
  /\ {MaxCalls, MaxFaults} \subseteq Nat

VARIABLES
  ex,          \* the exchange; nothing changes it
  book,        \* the order at the exchange
  traded,      \* its units traded so far
  pairs,       \* g_pairs_info_cache (and edgex's other tables) hold its pair
  tableLost,   \* they did not at some time
  refreshes,
  order,       \* the caller's order object
  placed,      \* the order was sent
  failed,      \* a failure was written to the order
  reopened,    \* an answer made a finished order unfinished
  crashed,     \* a null order was used
  uid,         \* requests sent
  waiting,     \* requests whose callback is still owed
  calls,       \* how often the callback of each request was called
  sent,        \* requests on their way to the exchange
  answers,     \* answers on their way back
  lost,        \* requests that were not sent, that went down with wss_stream_, or
               \* whose answer could not be read
  conn,        \* wss_stream_
  stopping,    \* its stopping_, set for good by close()
  feeds,       \* the exchange pushes to this connection
  pushes,      \* pushes on their way
  drops,
  handler,     \* order_handler_ is set
  wants,       \* the last subscribe_order returned true, no unsubscribe since
  broken,      \* what has befallen the subscription since
  missed,      \* a change of the order did not reach the strategy
  subscribes,
  key,         \* listen_key_: the number of the key, 0 when empty
  path,        \* the key in the path wss_stream_ connects to
  live,        \* key number expiries + 1 exists at the exchange
  expiries,
  fetches      \* requests for a listen key under way, and those that resubscribe

marketVars == <<ex, book, traded>>
tableVars == <<pairs, tableLost, refreshes>>
orderVars == <<order, placed, failed, reopened, crashed>>
requestVars == <<uid, waiting, calls, sent, answers, lost>>
feedVars == <<conn, stopping, feeds, pushes, drops>>
subVars == <<handler, wants, broken, missed, subscribes>>
keyVars == <<key, path, live, expiries, fetches>>
vars == <<marketVars, tableVars, orderVars, requestVars, feedVars, subVars, keyVars>>

\* The bounds: MaxCalls on what the strategy asks, MaxFaults on what goes wrong.
MoreCalls == uid + subscribes < MaxCalls
MoreFaults == drops + expiries + refreshes < MaxFaults

BookStates == {"none", "open", "filled", "canceled", "expired"}
Ended == {"filled", "canceled", "expired"}

\* initialize(): aster and toobit ask for a listen key, phemex and
\* hyperliquid connect, edgex does neither.  The pairs are loaded or not.
Init ==
  /\ ex \in Exchanges
  /\ book = "none" /\ traded = 0
  /\ pairs \in BOOLEAN /\ tableLost = ~pairs /\ refreshes = 0
  /\ order \in {NewOrder(t) : t \in Times} /\ placed = FALSE
  /\ failed = FALSE /\ reopened = FALSE /\ crashed = FALSE
  /\ uid = 0 /\ waiting = {} /\ calls = [u \in 1 .. MaxCalls |-> 0]
  /\ sent = {} /\ answers = {} /\ lost = {}
  /\ conn = (IF ex \in {"phemex", "hyperliquid"} THEN "opening" ELSE "down")
  /\ stopping = FALSE /\ feeds = FALSE /\ pushes = <<>> /\ drops = 0
  /\ handler = FALSE /\ wants = FALSE /\ broken = "no" /\ missed = FALSE /\ subscribes = 0
  /\ key = 0 /\ path = 0 /\ live = FALSE /\ expiries = 0
  /\ fetches = [plain |-> IF ex \in {"aster", "toobit"} THEN 1 ELSE 0, renew |-> 0]

-----------------------------------------------------------------------------
(* Orders and views                                                        *)

\* The Order parse_rtn_order makes of a status and the units traded.
View(s, n, oid, t) ==
  [status |-> s, milli |-> t, oid |-> oid, ec |-> "Ok", cum |-> n, quote |-> n,
   dbase |-> 0, dquote |-> 0, avg |-> NoPrice]

\* to_order_status of the exchange's word for book and traded.
ToOrderStatus(b, n) ==
  CASE b = "filled" -> "Filled"
    [] b = "canceled" -> "Canceled"
    [] b = "expired" -> "Expired"
    [] OTHER -> IF n > 0 THEN "PartiallyFilled" ELSE "New"

Finished == {"Filled", "Canceled", "Rejected", "Expired"}

\* ec, status and milli of a request that was refused or did not get through.
Refused(o, t) == [o EXCEPT !.status = "Failed", !.ec = "Error", !.milli = t]

\* Faulty: the answer that comes after a timeout is handled too.
CompleteTwice(u) ==
  /\ waiting' = waiting \ {u}
  /\ calls' = [calls EXCEPT ![u] = @ + 1]
  /\ answers' = {a \in answers : a.uid # u \/ u \notin waiting}
  /\ UNCHANGED <<uid, sent, lost>>

\* The end of send_http_request's or on_message's handling of request u.
Complete(u) ==
  /\ waiting' = waiting \ {u}
  /\ calls' = [calls EXCEPT ![u] = @ + 1]
  /\ sent' = {r \in sent : r.uid # u}
  /\ answers' = {a \in answers : a.uid # u}
  /\ UNCHANGED <<uid, lost>>

-----------------------------------------------------------------------------
(* Requests of the client                                                  *)

\* rest_.send of a request with its callback.
Request(op) ==
  /\ MoreCalls
  /\ uid' = uid + 1
  /\ waiting' = waiting \cup {uid + 1}
  /\ sent' = sent \cup {[uid |-> uid + 1, op |-> op]}
  /\ UNCHANGED <<calls, answers, lost>>

\* The pair is not in g_pairs_info_cache: the order is marked Failed.
PairUnknown ==
  /\ ~placed /\ ~pairs
  /\ order' = [order EXCEPT !.status = "Failed", !.ec = "Error"]
  /\ failed' = TRUE
  /\ UNCHANGED <<placed, reopened, crashed>>
  /\ UNCHANGED <<marketVars, tableVars, requestVars, feedVars, subVars, keyVars>>

PlaceOverRest ==
  /\ ~placed /\ pairs
  /\ placed' = TRUE
  /\ Request("place")
  /\ UNCHANGED <<order, failed, reopened, crashed>>
  /\ UNCHANGED <<marketVars, tableVars, feedVars, subVars, keyVars>>

\* cancel_order and query_order without a market_oid answer InvalidParams at
\* once and change nothing.
OverRest(op) ==
  /\ order.oid # ""
  /\ Request(op)
  /\ UNCHANGED <<marketVars, tableVars, orderVars, feedVars, subVars, keyVars>>

\* An answer that is not a success leaves the order Failed, whatever it was
\* an answer to.
FailRequest(u, t) ==
  /\ order' = Refused(order, t)
  /\ failed' = TRUE
  /\ UNCHANGED <<placed, reopened, crashed>>
  /\ Complete(u)
  /\ UNCHANGED <<marketVars, tableVars, feedVars, subVars, keyVars>>

OverWs(op) == ex = "hyperliquid" /\ op # "query"

\* No connection, a timeout, a status that is not 200, an answer that does not
\* parse: the exchange may or may not have executed the request.
RestFails(u, t) ==
  /\ \E r \in sent \cup answers : r.uid = u /\ ~OverWs(r.op)
  /\ FailRequest(u, t)

\* Faulty: an error in an answer of rest_ is not looked for.
AnswerRefusesOverWs(a, t) ==
  /\ a \in answers /\ ~a.ok /\ OverWs(a.op)
  /\ FailRequest(a.uid, t)

AnswerRefuses(a, t) ==
  /\ a \in answers /\ ~a.ok
  /\ FailRequest(a.uid, t)

\* A success is written to the order.
Absorb(a, o) ==
  /\ order' = o
  /\ reopened' = (reopened \/ (order.status \in Finished /\ o.status \notin Finished))
  /\ UNCHANGED <<placed, failed, crashed>>
  /\ Complete(a.uid)
  /\ UNCHANGED <<marketVars, tableVars, feedVars, subVars, keyVars>>

\* dispatch_order, and the strategy's handler.
Dispatch(view) ==
  /\ order' = IF handler THEN Updated(order, view) ELSE order
  /\ missed' = (missed \/ ~handler)
  /\ UNCHANGED <<placed, failed, reopened, crashed>>
  /\ UNCHANGED <<handler, wants, broken, subscribes>>

NextPush ==
  /\ pushes # <<>>
  /\ pushes' = Tail(pushes)
  /\ UNCHANGED <<conn, stopping, feeds, drops>>
  /\ UNCHANGED <<marketVars, tableVars, requestVars>>

\* parse_pairs_info empties the tables and fills them from the answer; an
\* answer that ends early leaves them without the pair.
RefreshPairs ==
  /\ MoreFaults
  /\ refreshes' = refreshes + 1
  /\ pairs' \in BOOLEAN
  /\ tableLost' = (tableLost \/ ~pairs')
  /\ UNCHANGED <<marketVars, orderVars, requestVars, feedVars, subVars, keyVars>>

-----------------------------------------------------------------------------
(* wss_stream_, as far as its owner can tell; WssClient has the rest.      *)

\* resolve_connect.  When the bind fails, as it does on a socket that is in use,
\* only on_error is called; a first connect under way reads its path from the
\* string that is overwritten here.
ResolveConnect(k) ==
  /\ \/ conn = "down" /\ conn' = "opening" /\ path' = k
     \/ conn = "opening" /\ path' \in {path, k} /\ UNCHANGED conn
     \/ conn # "opening" /\ UNCHANGED <<conn, path>>
  /\ broken' = IF conn' = "down" THEN "unbound" ELSE "no"
  /\ UNCHANGED <<stopping, feeds, pushes, drops>>

\* close(): it closes an open connection, and none is reconnected any more.
CloseStream ==
  /\ stopping' = TRUE
  /\ conn' = IF conn = "up" THEN "closing" ELSE conn
  /\ feeds' = FALSE
  /\ UNCHANGED <<pushes, drops>>

ValidKey(k) == live /\ k = expiries + 1

\* Whether the exchange pushes to a connection that has just come up.
FeedsNewConnection ==
  CASE ex = "edgex" -> TRUE
    [] ex \in {"aster", "toobit"} -> ValidKey(path)
    [] OTHER -> FALSE

\* on_connect starts the ping timer, except on aster and toobit, and logs in;
\* none of the five subscribes.
Connected ==
  /\ conn \in {"opening", "connecting"}
  /\ conn' = "up"
  /\ feeds' = FeedsNewConnection
  /\ UNCHANGED <<stopping, pushes, drops>>
  /\ UNCHANGED <<marketVars, tableVars, orderVars, requestVars, subVars, keyVars>>

\* After a failed lookup or bind nothing is tried again, except where the ping
\* timer of an earlier connection runs: its message cannot be written, which
\* starts a reconnect.
GivesUp == conn = "opening" \/ (conn = "connecting" /\ ex \in {"aster", "toobit"})

\* After any other failure the library connects again, unless close() was
\* called.  The socket of a failed lookup stays bound: it is dead, no other
\* connect can begin on it.
ConnectFails ==
  /\ conn \in {"opening", "connecting"}
  /\ \/ stopping /\ conn' = "down" /\ UNCHANGED broken
     \/ GivesUp /\ conn' = "dead" /\ UNCHANGED broken
     \/ GivesUp /\ conn' = "down" /\ broken' = "unbound"
  /\ UNCHANGED <<stopping, feeds, pushes, drops, handler, wants, missed, subscribes>>
  /\ UNCHANGED <<marketVars, tableVars, orderVars, requestVars, keyVars>>

\* What is in flight on the connection is lost with it.
Disconnect(next) ==
  LET gone == {r \in sent \cup answers : OverWs(r.op)}
  IN  /\ conn' = next
      /\ feeds' = FALSE
      /\ pushes' = <<>>
      /\ missed' = (missed \/ pushes # <<>>)
      /\ sent' = sent \ gone /\ answers' = answers \ gone
      /\ lost' = lost \cup {r.uid : r \in gone}
      /\ UNCHANGED <<stopping, handler, wants, subscribes, uid, waiting, calls>>
      /\ UNCHANGED <<marketVars, tableVars, orderVars, keyVars>>

Drop ==
  /\ conn = "up" /\ MoreFaults
  /\ drops' = drops + 1
  /\ Disconnect(IF stopping THEN "down" ELSE "connecting")
  /\ broken' = "drop"

Closed ==
  /\ conn = "closing"
  /\ Disconnect("down")
  /\ UNCHANGED <<broken, drops>>

-----------------------------------------------------------------------------
(* The exchange                                                            *)

\* The order at the exchange becomes b with n units traded.
Becomes(b, n) ==
  /\ book' = b /\ traded' = n
  /\ pushes' = IF feeds THEN Append(pushes, [event |-> b, n |-> n]) ELSE pushes
  /\ missed' = (missed \/ ~feeds)
  /\ UNCHANGED <<ex, conn, stopping, feeds, drops, handler, wants, broken, subscribes>>

Answer(r, ok) ==
  /\ sent' = sent \ {r}
  /\ answers' = answers \cup
       {[uid |-> r.uid, op |-> r.op, ok |-> ok, b |-> book', n |-> traded']}
  /\ UNCHANGED <<uid, waiting, calls, lost>>

\* Some of a new order may trade at once.
AcceptOrder(r, n) ==
  /\ r \in sent /\ r.op = "place" /\ book = "none"
  /\ Becomes(IF n = Qty THEN "filled" ELSE "open", n)
  /\ Answer(r, TRUE)
  /\ UNCHANGED <<tableVars, orderVars, keyVars>>

AcceptCancel(r) ==
  /\ r \in sent /\ r.op = "cancel" /\ book = "open"
  /\ Becomes("canceled", traded)
  /\ Answer(r, TRUE)
  /\ UNCHANGED <<tableVars, orderVars, keyVars>>

\* A query is answered with the order as it is, another request is refused.
AnswerQuery(r) ==
  /\ r \in sent /\ r.op = "query" /\ UNCHANGED <<marketVars, feedVars, subVars>>
  /\ Answer(r, TRUE)
  /\ UNCHANGED <<tableVars, orderVars, keyVars>>

Refuse(r) ==
  /\ r \in sent /\ UNCHANGED <<marketVars, feedVars, subVars>>
  /\ Answer(r, FALSE)
  /\ UNCHANGED <<tableVars, orderVars, keyVars>>

Match ==
  /\ book = "open"
  /\ Becomes(IF traded + 1 = Qty THEN "filled" ELSE "open", traded + 1)
  /\ UNCHANGED <<tableVars, orderVars, requestVars, keyVars>>

\* The exchange ends the order itself: an IOC remainder, margin, expiry.
End(b) ==
  /\ book = "open" /\ b \in {"canceled", "expired"}
  /\ Becomes(b, traded)
  /\ UNCHANGED <<tableVars, orderVars, requestVars, keyVars>>

\* A listen key dies: keep-alives that fail, or the end of its day.  aster
\* says so on the connection it no longer feeds.
ExpireKey ==
  /\ live /\ MoreFaults
  /\ live' = FALSE /\ expiries' = expiries + 1
  /\ feeds' = FALSE
  /\ pushes' = IF feeds /\ ex = "aster" THEN Append(pushes, [event |-> "key", n |-> 0])
               ELSE pushes
  /\ UNCHANGED <<key, path, fetches, conn, stopping, drops>>
  /\ UNCHANGED <<marketVars, tableVars, orderVars, requestVars, subVars>>

\* The answer to a request for a listen key: the live one, or a new one.
GrantKey ==
  /\ key' = expiries + 1
  /\ live' = TRUE
  /\ UNCHANGED expiries

RequestsAtExchange ==
  \E r \in sent : \/ \E n \in 0 .. Qty : AcceptOrder(r, n)
                  \/ AcceptCancel(r)
                  \/ r.op = "query" /\ AnswerQuery(r)
                  \/ Refuse(r)

\* What the five clients and their exchanges have in common.
CommonNext ==
  \/ RefreshPairs \/ Connected \/ ConnectFails \/ Drop \/ Closed
  \/ RequestsAtExchange
  \/ Match \/ \E b \in {"canceled", "expired"} : End(b)
  \/ ExpireKey
  \/ \E u \in waiting, t \in Times : RestFails(u, t)
  \/ \E a \in answers, t \in Times : AnswerRefuses(a, t)
=============================================================================
