------------------------ MODULE KucoinExecution_proofs ------------------------
(***************************************************************************)
(* Proofs about the orders of the KuCoin client, for every size of the     *)
(* order, every price and every number of requests, queries, subscriptions *)
(* and lost connections.                                                   *)
(***************************************************************************)
EXTENDS KucoinExecution, TLAPS

-----------------------------------------------------------------------------
(* Order::update                                                           *)

\* An order with its increments reset and another error code is an order.
LEMMA ResetType ==
  ASSUME NEW o \in Order, NEW e \in {"Ok", "Error"}
  PROVE  [o EXCEPT !.dbase = 0, !.dquote = 0, !.ec = e] \in Order
<1> DEFINE a == [o EXCEPT !.dbase = 0]
           b == [a EXCEPT !.dquote = 0]
<1>1. a \in Order
  BY DEF Order
<1>2. \A x \in Int : [a EXCEPT !.dquote = x] \in Order
  BY <1>1 DEF Order
<1> HIDE DEF a
<1>3. b \in Order
  BY <1>2
<1>4. [b EXCEPT !.ec = e] \in Order
  BY <1>3 DEF Order
<1> USE DEF a
<1>5. [b EXCEPT !.ec = e] = [o EXCEPT !.dbase = 0, !.dquote = 0, !.ec = e]
  OBVIOUS
<1> QED BY <1>4, <1>5

\* A record with fields of the right types is an order.
LEMMA OrderRecord ==
  ASSUME NEW s \in OrderStatus, NEW m \in Nat, NEW i \in {"", "oid"}, NEW e \in {"Ok", "Error"},
         NEW c \in Nat, NEW q \in Int, NEW db \in Nat, NEW dq \in Int, NEW a \in Price
  PROVE  [status |-> s, milli |-> m, oid |-> i, ec |-> e, cum |-> c, quote |-> q,
          dbase |-> db, dquote |-> dq, avg |-> a] \in Order
BY DEF Order

\* A default-constructed order is an order.
LEMMA NewOrderType ==
  ASSUME NEW t \in Times
  PROVE  NewOrder(t) \in Order
<1> DEFINE z == 0
<1>1. /\ t \in Nat /\ z \in Nat /\ z \in Int /\ NoPrice \in Price
      /\ "Created" \in OrderStatus /\ "" \in {"", "oid"} /\ "Ok" \in {"Ok", "Error"}
  BY TimesAssumption DEF NoPrice, Price, OrderStatus
<1>2. NewOrder(t) = [status |-> "Created", milli |-> t, oid |-> "", ec |-> "Ok", cum |-> z,
                     quote |-> z, dbase |-> z, dquote |-> z, avg |-> NoPrice]
  BY DEF NewOrder
<1> HIDE DEF z
<1>3. [status |-> "Created", milli |-> t, oid |-> "", ec |-> "Ok", cum |-> z,
       quote |-> z, dbase |-> z, dquote |-> z, avg |-> NoPrice] \in Order
  BY <1>1, OrderRecord, ZenonT(30)
<1> QED BY <1>2, <1>3

\* What update makes of an order is an order.
LEMMA UpdatedType ==
  ASSUME NEW o \in Order, NEW v \in ViewType, NEW t \in Times
  PROVE  Updated(o, Parsed(v, t)) \in Order
<1> DEFINE m == IF t # 0 THEN t ELSE o.milli
           i == IF v.oid # "" THEN v.oid ELSE o.oid
           db == IF v.cum > o.cum THEN v.cum - o.cum ELSE 0
           dq == IF v.cum > o.cum THEN v.quote - o.quote ELSE 0
           a == IF v.avg # NoPrice THEN v.avg ELSE o.avg
           c == Larger(o.cum, v.cum)
           q == Larger(o.quote, v.quote)
           r == [status |-> v.status, milli |-> m, oid |-> i, ec |-> v.ec,
                 cum |-> c, quote |-> q, dbase |-> db, dquote |-> dq, avg |-> a]
<1>1. t \in Nat
  BY TimesAssumption
<1>2. /\ v.status \in OrderStatus /\ v.oid = "oid" /\ v.ec = "Ok"
      /\ v.cum \in Nat /\ v.quote \in Nat /\ v.avg \in Price
  BY QtyAssumption DEF ViewType
<1>3. /\ o.milli \in Nat /\ o.cum \in Nat /\ o.quote \in Int /\ o.avg \in Price
  BY DEF Order
<1>4. c \in Nat /\ q \in Int
  BY <1>2, <1>3 DEF Larger
<1>5. m \in Nat /\ i \in {"", "oid"} /\ db \in Nat /\ dq \in Int /\ a \in Price
  BY <1>1, <1>2, <1>3
<1>6. Absorbed(o, Parsed(v, t)) = r
  BY DEF Absorbed, Parsed
<1> HIDE DEF m, i, db, dq, a, c, q
<1>7. v.ec \in {"Ok", "Error"} /\ v.status \in OrderStatus
  BY <1>2
<1>8. r \in Order
  BY <1>4, <1>5, <1>7, OrderRecord, ZenonT(30)
<1>9. Parsed(v, t).ec = "Ok"
  BY <1>2 DEF Parsed
<1>10. [o EXCEPT !.dbase = 0, !.dquote = 0, !.ec = Parsed(v, t).ec] \in Order
  BY <1>9, ResetType
<1> QED BY <1>6, <1>8, <1>10 DEF Updated

\* update takes the status of the newer view or keeps the old one, and the
\* larger amount of the two if it takes it.
LEMMA UpdatedFields ==
  ASSUME NEW o \in Order, NEW v \in ViewType, NEW t \in Times,
         NEW n, n = Updated(o, Parsed(v, t))
  PROVE  \/ n.status = v.status /\ n.cum = Larger(o.cum, v.cum) /\ Transits(o, Parsed(v, t))
         \/ n.status = o.status /\ n.cum = o.cum /\ ~Transits(o, Parsed(v, t))
BY DEF Updated, Absorbed, Parsed, Order

\* update appends at most one fill, from the order's amount to the view's.
LEMMA UpdatedFillsType ==
  ASSUME NEW o \in Order, NEW fs \in Seq(Fill), NEW v \in ViewType, NEW t \in Times
  PROVE  UpdatedFills(o, fs, Parsed(v, t)) \in Seq(Fill)
<1> DEFINE f == [from |-> o.cum, to |-> v.cum, price |-> v.avg]
<1>1. v.cum \in Nat /\ v.avg \in Price
  BY QtyAssumption DEF ViewType
<1>2. f \in Fill
  BY <1>1 DEF Fill, Order
<1>3. UpdatedFills(o, fs, Parsed(v, t)) \in {fs, Append(fs, f)}
  BY DEF UpdatedFills, Parsed
<1> HIDE DEF f
<1> QED BY <1>2, <1>3

-----------------------------------------------------------------------------
(* The views the exchange's messages are parsed into                       *)

\* Each status that is read from a message is one.
LEMMA StatusOfType ==
  ASSUME NEW b, NEW n
  PROVE  StatusOf(b, n) \in OrderStatus
BY DEF StatusOf, OrderStatus

\* A view with amounts of the right types is one.
LEMMA ViewOfType ==
  ASSUME NEW s \in OrderStatus, NEW f \in [cum : 0 .. Qty, quote : Nat, avg : Price]
  PROVE  View(s, f) \in ViewType
BY DEF View, ViewType

\* Amounts read from a query or a push of the unified account.
LEMMA FillingType ==
  ASSUME NEW n \in 0 .. Qty, NEW paid \in Nat
  PROVE  Filling(n, paid) \in [cum : 0 .. Qty, quote : Nat, avg : Price]
<1>1. (IF n = 0 THEN NoPrice ELSE <<paid, n>>) \in Price
  BY QtyAssumption DEF NoPrice, Price
<1> QED BY <1>1 DEF Filling

\* What was paid for the contracts traded so far.
LEMMA TurnoverType ==
  BookTypeOK => Traded \in 0 .. Qty /\ Turnover(Traded) \in Nat
BY QtyAssumption DEF BookTypeOK, Traded, Turnover

\* Each kind of message.
LEMMA UnifiedViewType ==
  ASSUME NEW b, NEW n \in 0 .. Qty, NEW paid \in Nat
  PROVE  /\ UnifiedView(b, n, paid) \in ViewType
         /\ ClassicQueryView(b, n, paid) \in ViewType
<1>1. "Canceling" \in OrderStatus
  BY DEF OrderStatus
<1> QED BY <1>1, StatusOfType, FillingType, ViewOfType DEF UnifiedView, ClassicQueryView

LEMMA ClassicMatchType ==
  ASSUME NEW n \in 0 .. Qty, NEW p \in Prices
  PROVE  ClassicMatch(n, p) \in ViewType
<1> DEFINE q == n * p
<1>1. q \in Nat /\ p \in Nat
  BY QtyAssumption, PricesAssumption
<1>2. <<p, 1>> \in Price
  BY <1>1 DEF Price
<1> HIDE DEF q
<1>3. [cum |-> n, quote |-> q, avg |-> <<p, 1>>] \in [cum : 0 .. Qty, quote : Nat, avg : Price]
  BY <1>1, <1>2
<1>4. (IF n < Qty THEN "PartiallyFilled" ELSE "Filled") \in OrderStatus
  BY DEF OrderStatus
<1> QED BY <1>3, <1>4, ViewOfType DEF ClassicMatch, q

LEMMA OtherViewType ==
  ASSUME BookTypeOK, NEW s \in OrderStatus
  PROVE  ClassicOther(s) \in ViewType /\ OtherView(s) \in ViewType
<1>1. NoFill \in [cum : 0 .. Qty, quote : Nat, avg : Price]
  BY QtyAssumption DEF NoFill, NoPrice, Price
<1> QED BY <1>1, TurnoverType, FillingType, ViewOfType DEF ClassicOther, OtherView

\* What the parsers read with the pair's denomination: the status and the
\* average price as they come, the amounts as they come or not at all.
LEMMA DenominatedView ==
  ASSUME NEW v \in ViewType, NEW w, w = Denominated(v)
  PROVE  /\ w \in ViewType /\ w.status = v.status /\ w.avg = v.avg /\ w.cum \in {v.cum, 0}
         /\ v.quote = Turnover(v.cum) => w.quote = Turnover(w.cum)
<1>1. 0 \in 0 .. Qty /\ 0 \in Nat /\ Turnover(0) = 0
  BY QtyAssumption DEF Turnover
<1>2. CASE known
  BY <1>2 DEF Denominated
<1>3. CASE ~known
  BY <1>1, <1>3 DEF Denominated, ViewType
<1> QED BY <1>2, <1>3

\* A message that is parsed keeps the type of what is known of the pair.
LEMMA ParseType ==
  ASSUME PairTypeOK, NEW v, Parse(v)
  PROVE  PairTypeOK'
<1>1. unscaled' \in BOOLEAN
  BY Zenon DEF Parse
<1> QED BY <1>1 DEF Parse, PairTypeOK

-----------------------------------------------------------------------------
(* Type correctness                                                        *)

\* The parts of the type invariant that a step leaves alone.
LEMMA Frames ==
  /\ BookTypeOK /\ UNCHANGED bookVars => BookTypeOK'
  /\ OrderTypeOK /\ UNCHANGED orderVars => OrderTypeOK'
  /\ RequestTypeOK /\ UNCHANGED requestVars => RequestTypeOK'
  /\ TradeTypeOK /\ UNCHANGED tradeVars => TradeTypeOK'
  /\ StreamTypeOK /\ UNCHANGED streamVars => StreamTypeOK'
  /\ QueryTypeOK /\ UNCHANGED queryVars => QueryTypeOK'
  /\ PairTypeOK /\ UNCHANGED pairVars => PairTypeOK'
BY DEF pairVars, PairTypeOK, bookVars, orderVars, requestVars, tradeVars, streamVars, queryVars, BookTypeOK, Traded,
       OrderTypeOK, RequestTypeOK, TradeTypeOK, StreamTypeOK, QueryTypeOK

\* Failing an order leaves it an order.
LEMMA FailedType ==
  ASSUME NEW o \in Order, NEW t \in Nat
  PROVE  /\ [o EXCEPT !.status = "Failed", !.ec = "Error"] \in Order
         /\ [o EXCEPT !.status = "Failed", !.ec = "Error", !.milli = t] \in Order
BY DEF Order, OrderStatus

\* An answer written to an order leaves it an order.
LEMMA AnsweredType ==
  ASSUME NEW o \in Order, NEW s \in OrderStatus, NEW i \in {"", "oid"},
         NEW e \in {"Ok", "Error"}, NEW t \in Nat
  PROVE  [o EXCEPT !.status = s, !.oid = i, !.ec = e, !.milli = t] \in Order
BY DEF Order

\* A request is cached, and sent if the connection is open.
LEMMA SendType ==
  ASSUME RequestTypeOK, TradeTypeOK, NEW op \in {"place", "cancel"}, Send(op)
  PROVE  RequestTypeOK' /\ TradeTypeOK'
<1> DEFINE r == [uid |-> reqid + 1, op |-> op]
<1>1. reqid + 1 \in 1 .. MaxRequests
  BY BoundsAssumption DEF Send, RequestTypeOK
<1>2. r \in Request
  BY <1>1 DEF Request
<1>3. RequestTypeOK'
  BY <1>1, <1>2 DEF Send, RequestTypeOK
<1>4. sent' \in {sent, Append(sent, r)} /\ UNCHANGED <<trade, answers>>
  BY DEF Send
<1> HIDE DEF r
<1>5. TradeTypeOK'
  BY <1>2, <1>4 DEF TradeTypeOK
<1> QED BY <1>3, <1>5

\* A push keeps the type of the stream.
LEMMA PushType ==
  ASSUME StreamTypeOK, NEW views \in Seq(ViewType), Push(views)
  PROVE  StreamTypeOK'
<1>1. pushes \o views \in Seq(ViewType)
  BY DEF StreamTypeOK
<1> QED BY <1>1 DEF Push, StreamTypeOK

\* An answer keeps the type of the trade connection.
LEMMA AnswerStepType ==
  ASSUME TradeTypeOK, sent # <<>>, NEW ok \in {"yes", "no"}, Answer(ok)
  PROVE  TradeTypeOK'
<1> DEFINE a == [uid |-> Head(sent).uid, op |-> Head(sent).op, ok |-> ok]
<1>1. Head(sent) \in Request /\ Tail(sent) \in Seq(Request)
  BY DEF TradeTypeOK
<1>2. a \in AnswerType
  BY <1>1 DEF Request, AnswerType
<1>3. answers' = Append(answers, a) /\ sent' = Tail(sent) /\ trade' = trade
  BY DEF Answer
<1> HIDE DEF a
<1> QED BY <1>1, <1>2, <1>3 DEF TradeTypeOK

\* Every step of the system keeps the types.
LEMMA TypeStep == TypeOK /\ [Next]_vars => TypeOK'
<1> SUFFICES ASSUME TypeOK, [Next]_vars PROVE TypeOK'
  OBVIOUS
<1> USE BoundsAssumption DEF TypeOK
<1>1. CASE PlaceOrder
  BY <1>1, SendType, Frames DEF PlaceOrder
<1>2. CASE PlaceUnknownPair
  <2>1. OrderTypeOK'
    BY <1>2, FailedType, TimesAssumption DEF PlaceUnknownPair, OrderTypeOK
  <2> QED BY <1>2, <2>1, Frames DEF PlaceUnknownPair
<1>3. CASE CancelOrder
  BY <1>3, SendType, Frames DEF CancelOrder
<1>4. CASE QueryOrder
  <2>1. asked + 1 \in 1 .. MaxQueries
    <3>1. asked \in 0 .. MaxQueries
      BY DEF QueryTypeOK
    <3>2. asked < MaxQueries
      BY <1>4 DEF QueryOrder
    <3> QED BY <3>1, <3>2
  <2>2. QueryTypeOK'
    <3>1. /\ queries' = queries \cup {asked + 1} /\ asked' = asked + 1
          /\ snapshots' = snapshots
      BY <1>4 DEF QueryOrder
    <3>2. asked' \in 0 .. MaxQueries /\ queries' \subseteq 1 .. MaxQueries
      BY <2>1, <3>1 DEF QueryTypeOK
    <3>3. snapshots' \subseteq [id : 1 .. MaxQueries, view : ViewType]
      BY <3>1 DEF QueryTypeOK
    <3> QED BY <3>2, <3>3 DEF QueryTypeOK
  <2> QED BY <1>4, <2>2, Frames DEF QueryOrder
<1>5. CASE SubscribeOrder
  <2>1. StreamTypeOK'
    BY <1>5 DEF SubscribeOrder, StreamTypeOK
  <2> QED BY <1>5, <2>1, Frames DEF SubscribeOrder
<1>6. CASE UnsubscribeOrder
  <2>1. StreamTypeOK'
    BY <1>6 DEF UnsubscribeOrder, StreamTypeOK
  <2> QED BY <1>6, <2>1, Frames DEF UnsubscribeOrder
<1>7. CASE ExchangeAccepts
  <2>1. BookTypeOK'
    BY <1>7 DEF ExchangeAccepts, BookTypeOK, Traded
  <2>2. <<OtherView("New")>> \in Seq(ViewType)
    BY OtherViewType DEF OrderStatus
  <2>3. StreamTypeOK'
    BY <1>7, <2>2, PushType DEF ExchangeAccepts
  <2> QED BY <1>7, <2>1, <2>3, AnswerStepType, Frames DEF ExchangeAccepts
<1>8. CASE ExchangeAcceptsCancel
  <2>1. BookTypeOK'
    BY <1>8 DEF ExchangeAcceptsCancel, BookTypeOK, Traded
  <2> QED BY <1>8, <2>1, AnswerStepType, Frames DEF ExchangeAcceptsCancel
<1>9. CASE ExchangeRefuses
  BY <1>9, AnswerStepType, Frames DEF ExchangeRefuses
<1>10. CASE ExchangeCancels
  <2>1. BookTypeOK'
    BY <1>10 DEF ExchangeCancels, BookTypeOK, Traded
  <2>2. <<OtherView("Canceled")>> \in Seq(ViewType)
    BY OtherViewType DEF OrderStatus
  <2>3. StreamTypeOK'
    BY <1>10, <2>2, PushType DEF ExchangeCancels
  <2> QED BY <1>10, <2>1, <2>3, Frames DEF ExchangeCancels
<1>11. ASSUME NEW p \in Prices, ExchangeMatches(p) PROVE TypeOK'
  <2> DEFINE n == Traded + 1
             paid == Turnover(Traded) + p
  <2>1. paid \in Nat /\ n \in 1 .. Qty
    BY <1>11, PricesAssumption, QtyAssumption, TurnoverType DEF ExchangeMatches, BookTypeOK
  <2>2. BookTypeOK'
    <3>1. turnover' = Append(turnover, paid) /\ book' = IF n = Qty THEN "filled" ELSE book
      BY <1>11 DEF ExchangeMatches
    <3>2. turnover' \in Seq(Nat) /\ Traded' = n
      BY <2>1, <3>1 DEF BookTypeOK, Traded
    <3>3. n <= Qty
      BY <2>1
    <3>4. mode' \in AccountModes /\ book \in {"open", "canceling"}
      BY <1>11 DEF ExchangeMatches, TypeOK, BookTypeOK
    <3> HIDE DEF n, paid
    <3> QED BY <3>1, <3>2, <3>3, <3>4 DEF BookTypeOK
  <2>3. /\ UnifiedView(book', n, paid) \in ViewType
        /\ ClassicMatch(n, p) \in ViewType
        /\ ClassicOther("Filled") \in ViewType
    BY <2>1, UnifiedViewType, ClassicMatchType, OtherViewType DEF OrderStatus
  <2> DEFINE views == IF mode = "UNIFIED" THEN <<UnifiedView(book', n, paid)>>
                      ELSE IF n = Qty THEN <<ClassicMatch(n, p), ClassicOther("Filled")>>
                      ELSE <<ClassicMatch(n, p)>>
  <2>4. views \in Seq(ViewType)
    BY <2>3
  <2>5. Push(views) /\ UNCHANGED <<orderVars, requestVars, tradeVars, queryVars, pairVars, drops>>
    BY <1>11 DEF ExchangeMatches
  <2> HIDE DEF views
  <2> QED BY <2>2, <2>4, <2>5, PushType, Frames
<1>12. ASSUME NEW q \in queries, ExchangeAnswersQuery(q) PROVE TypeOK'
  <2>1. /\ UnifiedView(book, Traded, Turnover(Traded)) \in ViewType
        /\ ClassicQueryView(book, Traded, Turnover(Traded)) \in ViewType
    BY TurnoverType, UnifiedViewType
  <2>2. QueryTypeOK'
    BY <1>12, <2>1 DEF ExchangeAnswersQuery, QueryTypeOK
  <2> QED BY <1>12, <2>2, Frames DEF ExchangeAnswersQuery
<1>13. ASSUME NEW t \in Times, ReceiveAnswer(t) PROVE TypeOK'
  <2> DEFINE a == Head(answers)
  <2>1. a \in AnswerType /\ Tail(answers) \in Seq(AnswerType)
    BY <1>13 DEF ReceiveAnswer, TradeTypeOK
  <2>2. TradeTypeOK'
    BY <1>13, <2>1 DEF ReceiveAnswer, TradeTypeOK
  <2>3. OrderTypeOK' /\ RequestTypeOK'
    <3>1. CASE [uid |-> a.uid, op |-> a.op] \in cache
      <4> DEFINE st == IF a.ok = "no" THEN "Failed" ELSE IF a.op = "place" THEN "New" ELSE "Canceling"
                 oid == IF a.ok = "yes" /\ a.op = "place" THEN "oid" ELSE order.oid
                 ec == IF a.ok = "no" THEN "Error" ELSE order.ec
      <4>1. order' = [order EXCEPT !.status = st, !.oid = oid, !.ec = ec, !.milli = t]
        BY <1>13, <3>1 DEF ReceiveAnswer
      <4>2. st \in OrderStatus /\ oid \in {"", "oid"} /\ ec \in {"Ok", "Error"} /\ t \in Nat
        BY TimesAssumption DEF OrderStatus, OrderTypeOK, Order
      <4> HIDE DEF st, oid, ec
      <4>3. order' \in Order
        BY <4>1, <4>2, AnsweredType DEF OrderTypeOK
      <4>4. OrderTypeOK'
        BY <1>13, <3>1, <4>3 DEF ReceiveAnswer, OrderTypeOK
      <4>5. calls' = [calls EXCEPT ![a.uid] = @ + 1] /\ cache' \subseteq cache
        BY <1>13, <3>1 DEF ReceiveAnswer, Complete
      <4>6. a.uid \in 1 .. MaxRequests
        BY <2>1 DEF AnswerType
      <4>7. UNCHANGED <<reqid, lost>>
        BY <1>13 DEF ReceiveAnswer
      <4> HIDE DEF a
      <4>8. RequestTypeOK'
        BY <4>5, <4>6, <4>7 DEF RequestTypeOK
      <4> QED BY <4>4, <4>8
    <3>2. CASE [uid |-> a.uid, op |-> a.op] \notin cache
      BY <1>13, <3>2 DEF ReceiveAnswer, OrderTypeOK, RequestTypeOK
    <3> QED BY <3>1, <3>2
  <2> QED BY <1>13, <2>2, <2>3, Frames DEF ReceiveAnswer
<1>14. ASSUME NEW t \in Times, ReceivePush(t) PROVE TypeOK'
  <2>1. Head(pushes) \in ViewType /\ Tail(pushes) \in Seq(ViewType)
    BY <1>14 DEF ReceivePush, StreamTypeOK
  <2>2. StreamTypeOK'
    BY <1>14, <2>1 DEF ReceivePush, StreamTypeOK
  <2>3. PICK w : w = Denominated(Head(pushes))
    OBVIOUS
  <2>4. w \in ViewType
    BY <2>1, <2>3, DenominatedView
  <2>5. OrderTypeOK'
    BY <1>14, <2>3, <2>4, UpdatedType, UpdatedFillsType DEF ReceivePush, OrderTypeOK
  <2>6. PairTypeOK'
    BY <1>14, ParseType DEF ReceivePush
  <2> QED BY <1>14, <2>2, <2>5, <2>6, Frames DEF ReceivePush
<1>15. ASSUME NEW t \in Times, FailQuery(t) PROVE TypeOK'
  <2>1. OrderTypeOK'
    BY <1>15, FailedType, TimesAssumption DEF FailQuery, OrderTypeOK
  <2>2. QueryTypeOK'
    BY <1>15 DEF FailQuery, QueryTypeOK
  <2> QED BY <1>15, <2>1, <2>2, Frames DEF FailQuery
<1>16. ASSUME NEW t \in Times, NEW a \in snapshots, ReceiveQuery(a, t) PROVE TypeOK'
  <2>1. a.view \in ViewType
    BY DEF QueryTypeOK
  <2>2. PICK w : w = Denominated(a.view)
    OBVIOUS
  <2>3. w \in ViewType
    BY <2>1, <2>2, DenominatedView
  <2>4. /\ Updated(order, Parsed(w, t)) \in Order
        /\ fills' \in Seq(Fill)
    BY <1>16, <2>2, <2>3, UpdatedType, UpdatedFillsType DEF ReceiveQuery, OrderTypeOK
  <2>5. OrderTypeOK'
    BY <1>16, <2>2, <2>4, TimesAssumption DEF ReceiveQuery, OrderTypeOK, Order
  <2>6. QueryTypeOK'
    BY <1>16 DEF ReceiveQuery, QueryTypeOK
  <2>7. PairTypeOK'
    BY <1>16, ParseType DEF ReceiveQuery
  <2> QED BY <1>16, <2>5, <2>6, <2>7, Frames DEF ReceiveQuery
<1>17. CASE TradeConnect
  <2>1. TradeTypeOK'
    BY <1>17 DEF TradeConnect, TradeTypeOK
  <2> QED BY <1>17, <2>1, Frames DEF TradeConnect
<1>18. CASE TradeDrop
  <2>1. TradeTypeOK'
    BY <1>18 DEF TradeDrop, TradeTypeOK
  <2>2. lost' \subseteq 1 .. MaxRequests
    <3>1. /\ \A i \in DOMAIN sent : sent[i] \in Request
          /\ \A i \in DOMAIN answers : answers[i] \in AnswerType
      BY DEF TradeTypeOK
    <3>2. /\ \A i \in DOMAIN sent : sent[i].uid \in 1 .. MaxRequests
          /\ \A i \in DOMAIN answers : answers[i].uid \in 1 .. MaxRequests
      BY <3>1 DEF Request, AnswerType
    <3> QED BY <1>18, <3>2 DEF TradeDrop, RequestTypeOK
  <2>3. RequestTypeOK'
    BY <1>18, <2>2 DEF TradeDrop, RequestTypeOK
  <2> QED BY <1>18, <2>1, <2>3, Frames DEF TradeDrop
<1>19. CASE StreamConnect
  <2>1. StreamTypeOK'
    BY <1>19 DEF StreamConnect, StreamTypeOK
  <2> QED BY <1>19, <2>1, Frames DEF StreamConnect
<1>20. CASE StreamDrop
  <2>1. StreamTypeOK'
    BY <1>20 DEF StreamDrop, StreamTypeOK
  <2> QED BY <1>20, <2>1, Frames DEF StreamDrop
<1>21. CASE DropAnswer
  <2>1. Head(answers) \in AnswerType /\ Tail(answers) \in Seq(AnswerType)
    BY <1>21 DEF DropAnswer, TradeTypeOK
  <2>2. TradeTypeOK'
    BY <1>21, <2>1 DEF DropAnswer, TradeTypeOK
  <2>3. RequestTypeOK'
    BY <1>21, <2>1 DEF DropAnswer, RequestTypeOK, AnswerType
  <2> QED BY <1>21, <2>2, <2>3, Frames DEF DropAnswer
<1>22. CASE DropPush
  <2>1. StreamTypeOK'
    BY <1>22 DEF DropPush, StreamTypeOK
  <2> QED BY <1>22, <2>1, Frames DEF DropPush
<1>23. CASE RefreshPairs
  <2>1. known' \in BOOLEAN
    BY <1>23, Zenon DEF RefreshPairs
  <2>2. refreshes' \in 0 .. MaxRefreshes /\ unscaled' = unscaled
    BY <1>23 DEF RefreshPairs, PairTypeOK
  <2>3. PairTypeOK'
    BY <2>1, <2>2 DEF PairTypeOK
  <2> QED BY <1>23, <2>3, Frames DEF RefreshPairs
<1>24. CASE UNCHANGED vars
  BY <1>24, Frames DEF vars
<1> QED
  BY <1>1, <1>2, <1>3, <1>4, <1>5, <1>6, <1>7, <1>8, <1>9, <1>10, <1>11, <1>12, <1>13, <1>14,
     <1>15, <1>16, <1>17, <1>18, <1>19, <1>20, <1>21, <1>22, <1>23, <1>24 DEF Next, Exchange, Handlers

\* Type correctness: TypeOK holds in every state the client and the exchange
\* can reach.
THEOREM TypeCorrect == Spec => []TypeOK
<1>1. Init => TypeOK
  <2> SUFFICES ASSUME Init PROVE TypeOK
    OBVIOUS
  <2>1. BookTypeOK
    BY QtyAssumption DEF Init, BookTypeOK, Traded
  <2>2. OrderTypeOK
    <3>1. PICK t \in Times : order = NewOrder(t)
      BY DEF Init
    <3>2. order \in Order
      BY <3>1, NewOrderType
    <3>3. fills \in Seq(Fill)
      BY DEF Init
    <3>4. failed \in BOOLEAN
      BY Zenon DEF Init
    <3> QED BY <3>2, <3>3, <3>4 DEF OrderTypeOK
  <2>3. RequestTypeOK
    BY BoundsAssumption DEF Init, RequestTypeOK
  <2>4. TradeTypeOK
    BY DEF Init, TradeTypeOK
  <2>5. StreamTypeOK
    <3>1. missed \in BOOLEAN
      BY Zenon DEF Init
    <3>2. pushes \in Seq(ViewType) /\ subscribes \in 0 .. MaxSubscribes
      BY BoundsAssumption DEF Init
    <3>3. stream = "closed" /\ handler = "none" /\ subscribed = "no"
      BY DEF Init
    <3> QED BY <3>1, <3>2, <3>3 DEF StreamTypeOK
  <2>6. QueryTypeOK /\ drops \in 0 .. MaxDrops
    BY BoundsAssumption DEF Init, QueryTypeOK
  <2>7. PairTypeOK
    <3>1. known \in BOOLEAN /\ unscaled \in BOOLEAN
      BY Zenon DEF Init
    <3> QED BY <3>1, BoundsAssumption DEF Init, PairTypeOK
  <2> QED BY <2>1, <2>2, <2>3, <2>4, <2>5, <2>6, <2>7 DEF TypeOK
<1> QED BY <1>1, TypeStep, PTL DEF Spec

-----------------------------------------------------------------------------
(* The fills tile the order's amount                                       *)

\* Changes that touch neither the fills nor the amount.
LEMMA TileKept ==
  FillsTile /\ fills' = fills /\ order'.cum = order.cum => FillsTile'
BY DEF FillsTile

\* update keeps the tiling, whatever view it is given.
LEMMA TileUpdated ==
  ASSUME TypeOK, FillsTile, NEW v \in ViewType, NEW t \in Times,
         order'.cum = Updated(order, Parsed(v, t)).cum,
         fills' = UpdatedFills(order, fills, Parsed(v, t))
  PROVE  FillsTile'
<1>1. order \in Order /\ order.cum \in Nat /\ fills \in Seq(Fill)
  BY DEF TypeOK, OrderTypeOK, Order
<1>2. v.cum \in Nat
  BY QtyAssumption DEF ViewType
<1>3. CASE Transits(order, Parsed(v, t)) /\ v.cum > order.cum
  <2> DEFINE f == [from |-> order.cum, to |-> v.cum, price |-> v.avg]
             k == Len(fills)
  <2>1. fills' = Append(fills, f)
    BY <1>3 DEF UpdatedFills, Parsed
  <2>2. order'.cum = v.cum
    BY <1>1, <1>2, <1>3, UpdatedFields DEF Larger
  <2>3. /\ k \in Nat /\ DOMAIN fills = 1 .. k /\ DOMAIN fills' = 1 .. k + 1 /\ Len(fills') = k + 1
        /\ \A i \in 1 .. k : fills'[i] = fills[i]
        /\ fills'[k + 1] = f
    BY <1>1, <2>1
  <2>4. f.from = order.cum /\ f.to = v.cum
    OBVIOUS
  <2>5. order.cum = IF k = 0 THEN 0 ELSE fills[k].to
    BY <1>1 DEF FillsTile
  <2> HIDE DEF f, k
  <2>6. ASSUME NEW i \in 1 .. k + 1
        PROVE  /\ fills'[i].from < fills'[i].to
               /\ fills'[i].from = IF i = 1 THEN 0 ELSE fills'[i - 1].to
    <3>1. CASE i \in 1 .. k
      <4>1. /\ fills[i].from < fills[i].to
            /\ fills[i].from = IF i = 1 THEN 0 ELSE fills[i - 1].to
        BY <2>3, <3>1 DEF FillsTile
      <4>2. fills'[i] = fills[i] /\ (i # 1 => fills'[i - 1] = fills[i - 1])
        BY <2>3, <3>1
      <4> QED BY <4>1, <4>2
    <3>2. CASE i = k + 1
      <4>1. fills'[i] = f /\ (i # 1 => fills'[i - 1] = fills[k])
        BY <2>3, <3>2
      <4> QED BY <1>3, <2>3, <2>4, <2>5, <3>2, <4>1
    <3> QED BY <2>3, <3>1, <3>2
  <2>7. fills' # <<>> /\ fills'[Len(fills')].to = v.cum
    BY <1>1, <2>1, <2>3, <2>4
  <2> QED BY <2>2, <2>3, <2>6, <2>7 DEF FillsTile
<1>4. CASE ~(Transits(order, Parsed(v, t)) /\ v.cum > order.cum)
  <2>1. fills' = fills
    BY <1>4 DEF UpdatedFills, Parsed
  <2>2. order'.cum = order.cum
    BY <1>1, <1>2, <1>4, UpdatedFields DEF Larger
  <2> QED BY <2>1, <2>2, TileKept
<1> QED BY <1>3, <1>4

\* Every step keeps the tiling.
LEMMA TileStep == TypeOK /\ FillsTile /\ [Next]_vars => FillsTile'
<1> SUFFICES ASSUME TypeOK, FillsTile, [Next]_vars PROVE FillsTile'
  OBVIOUS
<1>0. order \in Order
  BY DEF TypeOK, OrderTypeOK
<1>1. ASSUME NEW t \in Times, ReceivePush(t) PROVE FillsTile'
  <2>1. Head(pushes) \in ViewType
    BY <1>1 DEF ReceivePush, TypeOK, StreamTypeOK
  <2>2. PICK w : w = Denominated(Head(pushes))
    OBVIOUS
  <2>3. w \in ViewType
    BY <2>1, <2>2, DenominatedView
  <2> QED BY <1>1, <2>2, <2>3, TileUpdated DEF ReceivePush
<1>2. ASSUME NEW t \in Times, NEW a \in snapshots, ReceiveQuery(a, t) PROVE FillsTile'
  <2>1. a.view \in ViewType
    BY DEF TypeOK, QueryTypeOK
  <2>2. PICK w : w = Denominated(a.view)
    OBVIOUS
  <2>3. w \in ViewType
    BY <2>1, <2>2, DenominatedView
  <2>4. Updated(order, Parsed(w, t)) \in Order
    BY <1>0, <2>3, UpdatedType
  <2>5. order'.cum = Updated(order, Parsed(w, t)).cum
    BY <1>2, <2>2, <2>4 DEF ReceiveQuery, Order
  <2> QED BY <1>2, <2>2, <2>3, <2>5, TileUpdated DEF ReceiveQuery
<1>3. ASSUME NEW t \in Times, ReceiveAnswer(t) PROVE FillsTile'
  BY <1>0, <1>3, TileKept DEF ReceiveAnswer, Order
<1>4. ASSUME NEW t \in Times, FailQuery(t) PROVE FillsTile'
  BY <1>0, <1>4, TileKept DEF FailQuery, Order
<1>5. CASE PlaceUnknownPair
  BY <1>0, <1>5, TileKept DEF PlaceUnknownPair, Order
<1>6. CASE PlaceOrder \/ CancelOrder \/ QueryOrder \/ SubscribeOrder \/ UnsubscribeOrder
  BY <1>6, TileKept DEF PlaceOrder, CancelOrder, QueryOrder, SubscribeOrder, UnsubscribeOrder,
                        orderVars
<1>7. CASE Exchange
  BY <1>7, TileKept DEF Exchange, ExchangeAccepts, ExchangeAcceptsCancel, ExchangeRefuses,
                        ExchangeCancels, ExchangeMatches, ExchangeAnswersQuery, orderVars
<1>8. CASE \/ TradeConnect \/ TradeDrop \/ StreamConnect \/ StreamDrop
           \/ DropAnswer \/ DropPush \/ RefreshPairs \/ UNCHANGED vars
  BY <1>8, TileKept DEF TradeConnect, TradeDrop, StreamConnect, StreamDrop, DropAnswer, DropPush,
                        RefreshPairs, vars, orderVars
<1> QED
  BY <1>1, <1>2, <1>3, <1>4, <1>5, <1>6, <1>7, <1>8 DEF Next, Handlers

\* In every reachable state the fills of the order cover the contracts up to
\* cum_deal_base one after the other, each exactly once (Order::update).
THEOREM FillsAddUp == Spec => []FillsTile
<1>1. Init => FillsTile
  <2> SUFFICES ASSUME Init PROVE FillsTile
    OBVIOUS
  <2>1. PICK t \in Times : order = NewOrder(t)
    BY DEF Init
  <2>2. order.cum = 0 /\ fills = <<>>
    BY <2>1 DEF Init, NewOrder
  <2> QED BY <2>2 DEF FillsTile
<1> QED BY <1>1, TypeCorrect, TileStep, PTL DEF Spec

-----------------------------------------------------------------------------
(* The order is never ahead of the exchange                                *)

\* A status and an amount that the exchange has reached once it has traded n
\* contracts of an order in the state b.
Reached(n, b, status, cum) ==
  /\ cum <= n
  /\ status = "Filled" => b = "filled"
  /\ status = "Canceled" => b = "canceled"
AllReached(n, b, views) == \A v \in views : Reached(n, b, v.status, v.cum)

Elements(seq) == {seq[i] : i \in DOMAIN seq}
Messages == Elements(pushes) \cup {a.view : a \in snapshots}

\* Every message under way tells what was reached, even if it is stale by
\* now: this is what makes NeverAhead inductive.
MessagesReached == AllReached(Traded, book, Messages)

\* Trades and ends are never taken back.
BookGrows ==
  /\ Traded \in Nat /\ Traded' \in Nat /\ Traded <= Traded'
  /\ book = "filled" => book' = "filled"
  /\ book = "canceled" => book' = "canceled"

\* No step takes back a trade or an end.
LEMMA BookStep == TypeOK /\ [Next]_vars => BookGrows
<1> SUFFICES ASSUME TypeOK, [Next]_vars PROVE BookGrows
  OBVIOUS
<1>1. TypeOK' /\ Traded \in Nat /\ Traded' \in Nat
  BY TypeStep DEF TypeOK, BookTypeOK, Traded
<1>2. ASSUME UNCHANGED bookVars PROVE BookGrows
  BY <1>1, <1>2 DEF BookGrows, bookVars, Traded
<1>3. ASSUME UNCHANGED turnover, book \notin {"filled", "canceled"} PROVE BookGrows
  BY <1>1, <1>3 DEF BookGrows, Traded
<1>4. ASSUME NEW p \in Prices, ExchangeMatches(p) PROVE BookGrows
  <2>1. turnover \in Seq(Nat) /\ turnover' = Append(turnover, Turnover(Traded) + p)
    BY <1>4 DEF ExchangeMatches, TypeOK, BookTypeOK
  <2>2. Traded' = Traded + 1
    BY <2>1 DEF Traded
  <2> QED BY <1>1, <1>4, <2>2 DEF BookGrows, ExchangeMatches
<1>5. CASE Exchange
  <2>1. CASE ExchangeAccepts \/ ExchangeAcceptsCancel \/ ExchangeCancels
    BY <1>3, <2>1 DEF ExchangeAccepts, ExchangeAcceptsCancel, ExchangeCancels
  <2>2. CASE ExchangeRefuses \/ \E q \in queries : ExchangeAnswersQuery(q)
    BY <1>2, <2>2 DEF ExchangeRefuses, ExchangeAnswersQuery
  <2> QED BY <1>4, <1>5, <2>1, <2>2 DEF Exchange
<1>6. CASE Handlers
  BY <1>2, <1>6 DEF Handlers, ReceiveAnswer, ReceivePush, FailQuery, ReceiveQuery, DropAnswer,
                    DropPush
<1>7. CASE \/ PlaceOrder \/ PlaceUnknownPair \/ CancelOrder \/ QueryOrder
           \/ SubscribeOrder \/ UnsubscribeOrder
  BY <1>2, <1>7 DEF PlaceOrder, PlaceUnknownPair, CancelOrder, QueryOrder, SubscribeOrder,
                    UnsubscribeOrder
<1>8. CASE TradeConnect \/ TradeDrop \/ StreamConnect \/ StreamDrop \/ RefreshPairs \/ UNCHANGED vars
  BY <1>2, <1>8 DEF TradeConnect, TradeDrop, StreamConnect, StreamDrop, RefreshPairs, vars
<1> QED BY <1>5, <1>6, <1>7, <1>8 DEF Next

\* What was reached stays reached.
LEMMA ReachedKept ==
  ASSUME BookGrows, NEW s, NEW c \in Nat, Reached(Traded, book, s, c)
  PROVE  Reached(Traded', book', s, c)
BY DEF BookGrows, Reached

\* What the parsers make of the state of the exchange has been reached.
LEMMA ViewsReached ==
  ASSUME NEW n \in Nat, NEW b, NEW paid
  PROVE  /\ Reached(n, b, UnifiedView(b, n, paid).status, UnifiedView(b, n, paid).cum)
         /\ Reached(n, b, ClassicQueryView(b, n, paid).status, ClassicQueryView(b, n, paid).cum)
<1>1. UnifiedView(b, n, paid).cum = n /\ ClassicQueryView(b, n, paid).cum = n
  BY DEF UnifiedView, ClassicQueryView, View, Filling
<1>2. /\ UnifiedView(b, n, paid).status = StatusOf(b, n)
      /\ ClassicQueryView(b, n, paid).status \in {StatusOf(b, n), "Canceling"}
  BY DEF UnifiedView, ClassicQueryView, View
<1>3. /\ StatusOf(b, n) = "Filled" => b = "filled"
      /\ StatusOf(b, n) = "Canceled" => b = "canceled"
  BY DEF StatusOf
<1> QED BY <1>1, <1>2, <1>3 DEF Reached

\* ... and so has what they make of a match and of the end it may bring.
LEMMA ClassicMatchReached ==
  ASSUME NEW n \in 0 .. Qty, NEW p, NEW b, n = Qty => b = "filled"
  PROVE  /\ Reached(n, b, ClassicMatch(n, p).status, ClassicMatch(n, p).cum)
         /\ n = Qty => Reached(n, b, ClassicOther("Filled").status, ClassicOther("Filled").cum)
<1>1. /\ ClassicMatch(n, p).cum = n
      /\ ClassicMatch(n, p).status = IF n < Qty THEN "PartiallyFilled" ELSE "Filled"
  BY DEF ClassicMatch, View
<1>2. ClassicOther("Filled").cum = 0 /\ ClassicOther("Filled").status = "Filled"
  BY DEF ClassicOther, View, NoFill
<1> QED BY <1>1, <1>2, QtyAssumption DEF Reached

\* ... and of an order that was accepted or cancelled.
LEMMA OtherViewReached ==
  ASSUME Traded \in Nat, NEW b
  PROVE  /\ Reached(Traded, b, OtherView("New").status, OtherView("New").cum)
         /\ b = "canceled" =>
              Reached(Traded, b, OtherView("Canceled").status, OtherView("Canceled").cum)
<1>1. \A s : OtherView(s).status = s /\ OtherView(s).cum \in {0, Traded}
  BY DEF OtherView, ClassicOther, View, NoFill, Filling
<1> QED BY <1>1 DEF Reached

\* Messages that are added to the ones under way.
LEMMA MessagesStep ==
  ASSUME TypeOK, BookGrows, MessagesReached,
         NEW views, AllReached(Traded', book', views), Messages' \subseteq Messages \cup views
  PROVE  MessagesReached'
<1>1. ASSUME NEW v \in Messages PROVE v.cum \in Nat
  <2>1. Elements(pushes) \subseteq ViewType
    BY DEF Elements, TypeOK, StreamTypeOK
  <2>2. \A a \in snapshots : a.view \in ViewType
    BY DEF TypeOK, QueryTypeOK
  <2>3. v \in ViewType
    BY <1>1, <2>1, <2>2 DEF Messages
  <2> QED BY <2>3, QtyAssumption DEF ViewType
<1>2. ASSUME NEW v \in Messages PROVE Reached(Traded', book', v.status, v.cum)
  BY <1>1, <1>2, ReachedKept DEF MessagesReached, AllReached
<1> QED BY <1>2 DEF MessagesReached, AllReached

\* The messages under way after a push, and after one is taken.
LEMMA PushMessages ==
  ASSUME TypeOK, NEW views \in Seq(ViewType), Push(views), UNCHANGED queryVars
  PROVE  Messages' \subseteq Messages \cup Elements(views)
<1>1. pushes' \in {pushes, pushes \o views} /\ pushes \in Seq(ViewType)
  BY DEF Push, TypeOK, StreamTypeOK
<1>2. Elements(pushes') \subseteq Elements(pushes) \cup Elements(views)
  <2>1. DOMAIN pushes = 1 .. Len(pushes) /\ DOMAIN views = 1 .. Len(views)
    BY <1>1
  <2>2. ASSUME NEW i \in DOMAIN (pushes \o views)
        PROVE  (pushes \o views)[i] \in Elements(pushes) \cup Elements(views)
    <3>1. CASE i \in 1 .. Len(pushes)
      BY <1>1, <2>1, <3>1 DEF Elements
    <3>2. CASE i \notin 1 .. Len(pushes)
      <4>1. i - Len(pushes) \in 1 .. Len(views) /\ (pushes \o views)[i] = views[i - Len(pushes)]
        BY <1>1, <3>2
      <4> QED BY <2>1, <4>1 DEF Elements
    <3> QED BY <3>1, <3>2
  <2> QED BY <1>1, <2>2 DEF Elements
<1> QED BY <1>2 DEF Messages, queryVars

\* A push that is taken was under way, and the others still are.
LEMMA TailMessages ==
  ASSUME TypeOK, pushes # <<>>, pushes' = Tail(pushes), UNCHANGED queryVars
  PROVE  Messages' \subseteq Messages /\ Head(pushes) \in Messages
<1>1. pushes \in Seq(ViewType)
  BY DEF TypeOK, StreamTypeOK
<1>2. Elements(pushes') \subseteq Elements(pushes) /\ Head(pushes) \in Elements(pushes)
  BY <1>1 DEF Elements
<1> QED BY <1>2 DEF Messages, queryVars

\* The order keeps what it shows.
LEMMA OrderReached ==
  ASSUME TypeOK, BookGrows, NeverAhead, order'.status = order.status, order'.cum = order.cum
  PROVE  NeverAhead'
<1>1. order.cum \in Nat
  BY DEF TypeOK, OrderTypeOK, Order
<1>2. Reached(Traded', book', order.status, order.cum)
  BY <1>1, ReachedKept DEF NeverAhead, Reached
<1> QED BY <1>2 DEF NeverAhead, Reached

\* The order takes a status that promises nothing.
LEMMA HarmlessStatus ==
  ASSUME TypeOK, BookGrows, NeverAhead, order'.status \notin {"Filled", "Canceled"},
         order'.cum = order.cum
  PROVE  NeverAhead'
<1>1. order.cum \in Nat
  BY DEF TypeOK, OrderTypeOK, Order
<1> QED BY <1>1 DEF BookGrows, NeverAhead

\* A message that is parsed tells what was reached.
LEMMA DenominatedReached ==
  ASSUME MessagesReached, Traded \in Nat, NEW v \in ViewType, v \in Messages,
         NEW w, w = Denominated(v)
  PROVE  w \in ViewType /\ Reached(Traded, book, w.status, w.cum)
<1>1. w \in ViewType /\ w.status = v.status /\ w.cum \in {v.cum, 0}
  BY DenominatedView
<1> QED BY <1>1 DEF MessagesReached, AllReached, Reached

\* The order absorbs a view of what was reached.
LEMMA ViewAbsorbed ==
  ASSUME TypeOK, BookGrows, NeverAhead,
         NEW v \in ViewType, Reached(Traded, book, v.status, v.cum), NEW t \in Times,
         order'.status = Updated(order, Parsed(v, t)).status,
         order'.cum = Updated(order, Parsed(v, t)).cum
  PROVE  NeverAhead'
<1>1. order \in Order /\ order.cum \in Nat /\ v.cum \in Nat
  <2>1. order \in Order
    BY DEF TypeOK, OrderTypeOK
  <2>2. order.cum \in Nat
    BY <2>1 DEF Order
  <2>3. v.cum \in Nat
    BY QtyAssumption DEF ViewType
  <2> QED BY <2>1, <2>2, <2>3
<1>2. Reached(Traded', book', order.status, order.cum)
  BY <1>1, ReachedKept DEF NeverAhead, Reached
<1>3. Reached(Traded', book', v.status, v.cum)
  BY <1>1, ReachedKept
<1>4. \/ order'.status = v.status /\ order'.cum = Larger(order.cum, v.cum)
      \/ order'.status = order.status /\ order'.cum = order.cum
  BY <1>1, UpdatedFields
<1> QED BY <1>2, <1>3, <1>4 DEF NeverAhead, Reached, Larger

\* The exchange pushes views of what was reached.
LEMMA PushReached ==
  ASSUME TypeOK, BookGrows, MessagesReached, UNCHANGED queryVars,
         \E views \in Seq(ViewType) :
           Push(views) /\ AllReached(Traded', book', Elements(views))
  PROVE  MessagesReached'
<1>1. PICK views \in Seq(ViewType) :
        Push(views) /\ AllReached(Traded', book', Elements(views))
  OBVIOUS
<1> QED BY <1>1, PushMessages, MessagesStep

\* Messages are only taken.
LEMMA NoNewMessages ==
  ASSUME TypeOK, BookGrows, MessagesReached, Messages' \subseteq Messages
  PROVE  MessagesReached'
<1>1. AllReached(Traded', book', {})
  BY DEF AllReached
<1> QED BY <1>1, MessagesStep

\* Every step keeps both.
LEMMA ReachedStep ==
  TypeOK /\ NeverAhead /\ MessagesReached /\ [Next]_vars => NeverAhead' /\ MessagesReached'
<1> SUFFICES ASSUME TypeOK, NeverAhead, MessagesReached, [Next]_vars
             PROVE  NeverAhead' /\ MessagesReached'
  OBVIOUS
<1>1. BookGrows /\ TypeOK' /\ Traded \in Nat /\ Traded' \in Nat
  BY BookStep, TypeStep DEF BookGrows
<1>2. ASSUME UNCHANGED order PROVE NeverAhead'
  BY <1>1, <1>2, OrderReached
<1>3. ASSUME UNCHANGED <<pushes, snapshots>> PROVE MessagesReached'
  BY <1>1, <1>3, NoNewMessages DEF Messages, Elements
<1>4. ASSUME order' = [order EXCEPT !.status = "Failed", !.ec = "Error"] PROVE NeverAhead'
  <2>1. order'.status = "Failed" /\ order'.cum = order.cum
    BY <1>4 DEF TypeOK, OrderTypeOK, Order
  <2> QED BY <1>1, <2>1, HarmlessStatus
<1>5. CASE ExchangeAccepts
  <2>1. OtherView("New") \in ViewType
    BY OtherViewType DEF TypeOK, OrderStatus
  <2>2. Reached(Traded', book', OtherView("New").status, OtherView("New").cum)
    <3>1. Traded' = Traded
      BY <1>5 DEF ExchangeAccepts, Traded
    <3>2. PICK b : b = book'
      OBVIOUS
    <3>3. Reached(Traded, b, OtherView("New").status, OtherView("New").cum)
      BY <1>1, OtherViewReached
    <3> QED BY <3>1, <3>2, <3>3
  <2>3. PICK w : w = OtherView("New")
    OBVIOUS
  <2>4. <<w>> \in Seq(ViewType) /\ Push(<<w>>) /\ AllReached(Traded', book', Elements(<<w>>))
    BY <1>5, <2>1, <2>2, <2>3 DEF ExchangeAccepts, AllReached, Elements
  <2>5. UNCHANGED queryVars /\ UNCHANGED order
    BY <1>5 DEF ExchangeAccepts, orderVars
  <2> QED BY <1>1, <1>2, <2>4, <2>5, PushReached
<1>6. CASE ExchangeCancels
  <2>1. OtherView("Canceled") \in ViewType
    BY OtherViewType DEF TypeOK, OrderStatus
  <2>2. Reached(Traded', book', OtherView("Canceled").status, OtherView("Canceled").cum)
    <3>1. Traded' = Traded /\ book' = "canceled"
      BY <1>6 DEF ExchangeCancels, Traded
    <3>2. Reached(Traded, "canceled", OtherView("Canceled").status, OtherView("Canceled").cum)
      BY <1>1, OtherViewReached
    <3> QED BY <3>1, <3>2
  <2>3. PICK w : w = OtherView("Canceled")
    OBVIOUS
  <2>4. <<w>> \in Seq(ViewType) /\ Push(<<w>>) /\ AllReached(Traded', book', Elements(<<w>>))
    BY <1>6, <2>1, <2>2, <2>3 DEF ExchangeCancels, AllReached, Elements
  <2>5. UNCHANGED queryVars /\ UNCHANGED order
    BY <1>6 DEF ExchangeCancels, orderVars
  <2> QED BY <1>1, <1>2, <2>4, <2>5, PushReached
<1>7. ASSUME NEW p \in Prices, ExchangeMatches(p) PROVE NeverAhead' /\ MessagesReached'
  <2> DEFINE n == Traded + 1
             paid == Turnover(Traded) + p
  <2>1. paid \in Nat /\ n \in 1 .. Qty
    BY <1>7, PricesAssumption, QtyAssumption, TurnoverType DEF ExchangeMatches, TypeOK, BookTypeOK
  <2>2. Traded' = n /\ book' = IF n = Qty THEN "filled" ELSE book
    <3>1. turnover \in Seq(Nat) /\ turnover' = Append(turnover, paid)
      BY <1>7 DEF ExchangeMatches, TypeOK, BookTypeOK
    <3> QED BY <1>7, <3>1 DEF ExchangeMatches, Traded
  <2> HIDE DEF n, paid
  <2>3. PICK u, m, f : /\ u = UnifiedView(book', n, paid)
                      /\ m = ClassicMatch(n, p) /\ f = ClassicOther("Filled")
    OBVIOUS
  <2>4. u \in ViewType /\ m \in ViewType /\ f \in ViewType
    BY <2>1, <2>3, UnifiedViewType, ClassicMatchType, OtherViewType DEF TypeOK, OrderStatus
  <2>5. Reached(Traded', book', u.status, u.cum)
    <3>1. \A b, d : Reached(n, b, UnifiedView(b, n, d).status, UnifiedView(b, n, d).cum)
      BY <2>1, ViewsReached
    <3> QED BY <2>2, <2>3, <3>1
  <2>6. /\ Reached(Traded', book', m.status, m.cum)
        /\ n = Qty => Reached(Traded', book', f.status, f.cum)
    <3>1. n = Qty => book' = "filled"
      BY <2>2
    <3> QED BY <2>1, <2>2, <2>3, <3>1, ClassicMatchReached
  <2>7. PICK views : views = IF mode = "UNIFIED" THEN <<u>>
                             ELSE IF n = Qty THEN <<m, f>> ELSE <<m>>
    OBVIOUS
  <2>8. Push(views)
    BY <1>7, <2>3, <2>7 DEF ExchangeMatches, n, paid
  <2>9. views \in Seq(ViewType) /\ AllReached(Traded', book', Elements(views))
    <3>1. /\ \A x \in ViewType : <<x>> \in Seq(ViewType) /\ Elements(<<x>>) = {x}
          /\ \A x, y \in ViewType : <<x, y>> \in Seq(ViewType) /\ Elements(<<x, y>>) = {x, y}
      BY DEF Elements
    <3>2. CASE views = <<u>>
      BY <2>4, <2>5, <3>1, <3>2 DEF AllReached
    <3>3. CASE views = <<m>>
      BY <2>4, <2>6, <3>1, <3>3 DEF AllReached
    <3>4. CASE n = Qty /\ views = <<m, f>>
      BY <2>4, <2>6, <3>1, <3>4 DEF AllReached
    <3> QED BY <2>7, <3>2, <3>3, <3>4
  <2>10. UNCHANGED queryVars /\ UNCHANGED order
    BY <1>7 DEF ExchangeMatches, orderVars
  <2> QED BY <1>1, <1>2, <2>8, <2>9, <2>10, PushReached
<1>8. ASSUME NEW q \in queries, ExchangeAnswersQuery(q) PROVE NeverAhead' /\ MessagesReached'
  <2>1. PICK w : w = IF mode = "CLASSIC"
                     THEN ClassicQueryView(book, Traded, Turnover(Traded))
                     ELSE UnifiedView(book, Traded, Turnover(Traded))
    OBVIOUS
  <2>2. snapshots' = snapshots \cup {[id |-> q, view |-> w]} /\ UNCHANGED <<order, pushes>>
    BY <1>8, <2>1 DEF ExchangeAnswersQuery, orderVars, streamVars
  <2>3. Reached(Traded', book', w.status, w.cum)
    <3>1. Traded' = Traded /\ book' = book
      BY <1>8 DEF ExchangeAnswersQuery, bookVars, Traded
    <3> QED BY <1>1, <2>1, <3>1, ViewsReached
  <2>4. Messages' \subseteq Messages \cup {w} /\ AllReached(Traded', book', {w})
    BY <2>2, <2>3 DEF Messages, Elements, AllReached
  <2> QED BY <1>1, <1>2, <2>2, <2>4, MessagesStep
<1>9. ASSUME NEW t \in Times, ReceiveAnswer(t) PROVE NeverAhead' /\ MessagesReached'
  <2>1. UNCHANGED <<pushes, snapshots>>
    BY <1>9 DEF ReceiveAnswer, streamVars, queryVars
  <2>2. NeverAhead'
    <3>1. CASE [uid |-> Head(answers).uid, op |-> Head(answers).op] \in cache
      <4>1. /\ order'.status \in {"Failed", "New", "Canceling"}
            /\ order'.cum = order.cum
        BY <1>9, <3>1 DEF ReceiveAnswer, TypeOK, OrderTypeOK, Order
      <4> QED BY <1>1, <4>1, HarmlessStatus
    <3>2. CASE [uid |-> Head(answers).uid, op |-> Head(answers).op] \notin cache
      BY <1>2, <1>9, <3>2 DEF ReceiveAnswer
    <3> QED BY <3>1, <3>2
  <2> QED BY <1>3, <2>1, <2>2
<1>10. ASSUME NEW t \in Times, ReceivePush(t) PROVE NeverAhead' /\ MessagesReached'
  <2>1. PICK v : v = Head(pushes)
    OBVIOUS
  <2>2. v \in ViewType
    BY <1>10, <2>1 DEF ReceivePush, TypeOK, StreamTypeOK
  <2>3. Messages' \subseteq Messages /\ v \in Messages
    BY <1>10, <2>1, TailMessages DEF ReceivePush
  <2>4. PICK w : w = Denominated(v)
    OBVIOUS
  <2>5. w \in ViewType /\ Reached(Traded, book, w.status, w.cum)
    BY <1>1, <2>2, <2>3, <2>4, DenominatedReached
  <2>6. order' = Updated(order, Parsed(w, t))
    BY <1>10, <2>1, <2>4 DEF ReceivePush
  <2>7. NeverAhead'
    BY <1>1, <2>5, <2>6, ViewAbsorbed
  <2> QED BY <1>1, <2>3, <2>7, NoNewMessages
<1>11. ASSUME NEW t \in Times, FailQuery(t) PROVE NeverAhead' /\ MessagesReached'
  <2>1. order'.status = "Failed" /\ order'.cum = order.cum
    BY <1>11 DEF FailQuery, TypeOK, OrderTypeOK, Order
  <2>2. snapshots' \subseteq snapshots /\ UNCHANGED pushes
    BY <1>11 DEF FailQuery, streamVars
  <2>3. Messages' \subseteq Messages
    BY <2>2 DEF Messages, Elements
  <2> QED BY <1>1, <2>1, <2>3, HarmlessStatus, NoNewMessages
<1>12. ASSUME NEW t \in Times, NEW a \in snapshots, ReceiveQuery(a, t)
       PROVE  NeverAhead' /\ MessagesReached'
  <2>1. PICK v : v = a.view
    OBVIOUS
  <2>2. v \in ViewType /\ v \in Messages
    BY <2>1 DEF TypeOK, QueryTypeOK, Messages
  <2>3. PICK w : w = Denominated(v)
    OBVIOUS
  <2>4. w \in ViewType /\ Reached(Traded, book, w.status, w.cum)
    BY <1>1, <2>2, <2>3, DenominatedReached
  <2>5. Updated(order, Parsed(w, t)) \in Order
    BY <2>4, UpdatedType DEF TypeOK, OrderTypeOK
  <2>6. /\ order'.status = Updated(order, Parsed(w, t)).status
        /\ order'.cum = Updated(order, Parsed(w, t)).cum
    BY <1>12, <2>1, <2>3, <2>5 DEF ReceiveQuery, Order
  <2>7. snapshots' \subseteq snapshots /\ UNCHANGED pushes
    BY <1>12 DEF ReceiveQuery, streamVars
  <2>8. Messages' \subseteq Messages
    BY <2>7 DEF Messages, Elements
  <2> QED BY <1>1, <2>4, <2>6, <2>8, ViewAbsorbed, NoNewMessages
<1>13. CASE PlaceUnknownPair
  <2>1. UNCHANGED <<pushes, snapshots>>
    BY <1>13 DEF PlaceUnknownPair, streamVars, queryVars
  <2> QED BY <1>3, <1>4, <1>13, <2>1 DEF PlaceUnknownPair
<1>14. CASE StreamDrop
  <2>1. pushes' = <<>> /\ UNCHANGED <<order, snapshots>>
    BY <1>14 DEF StreamDrop, orderVars, queryVars
  <2>2. Messages' \subseteq Messages
    BY <2>1 DEF Messages, Elements
  <2> QED BY <1>1, <1>2, <2>1, <2>2, NoNewMessages
<1>15. ASSUME UNCHANGED <<order, pushes, snapshots>> PROVE NeverAhead' /\ MessagesReached'
  BY <1>2, <1>3, <1>15
<1>16. CASE PlaceOrder \/ CancelOrder \/ QueryOrder \/ SubscribeOrder \/ UnsubscribeOrder
  BY <1>15, <1>16 DEF PlaceOrder, CancelOrder, QueryOrder, SubscribeOrder, UnsubscribeOrder,
                      orderVars, streamVars, queryVars
<1>17. CASE ExchangeAcceptsCancel \/ ExchangeRefuses
  BY <1>15, <1>17 DEF ExchangeAcceptsCancel, ExchangeRefuses, orderVars, streamVars, queryVars
<1>18. CASE TradeConnect \/ TradeDrop \/ StreamConnect \/ DropAnswer \/ RefreshPairs \/ UNCHANGED vars
  BY <1>15, <1>18 DEF TradeConnect, TradeDrop, StreamConnect, DropAnswer, RefreshPairs, vars,
                      orderVars, streamVars, queryVars
<1>19. CASE DropPush
  <2>1. Messages' \subseteq Messages
    BY <1>19, TailMessages DEF DropPush
  <2> QED BY <1>1, <1>2, <1>19, <2>1, NoNewMessages DEF DropPush, orderVars
<1> QED
  BY <1>5, <1>6, <1>7, <1>8, <1>9, <1>10, <1>11, <1>12, <1>13, <1>14, <1>16, <1>17, <1>18, <1>19
  DEF Next, Exchange, Handlers

\* Whatever the interleaving of answers, pushes and stale snapshots, the order
\* never shows a trade or an end that did not happen at the exchange.
THEOREM NeverAheadOfExchange == Spec => []NeverAhead
<1>1. Init => NeverAhead /\ MessagesReached
  <2> SUFFICES ASSUME Init PROVE NeverAhead /\ MessagesReached
    OBVIOUS
  <2>1. PICK t \in Times : order = NewOrder(t)
    BY DEF Init
  <2>2. order.cum = 0 /\ order.status = "Created" /\ Traded = 0
    BY <2>1 DEF NewOrder, Init, Traded
  <2>3. Messages = {}
    BY DEF Init, Messages, Elements
  <2> QED BY <2>2, <2>3 DEF NeverAhead, MessagesReached, AllReached
<1> QED BY <1>1, TypeCorrect, ReachedStep, PTL DEF Spec

-----------------------------------------------------------------------------
(* Every request is accounted for                                          *)

Uids(seq) == {seq[i].uid : i \in DOMAIN seq}
Distinct(seq) == \A i, j \in DOMAIN seq : seq[i].uid = seq[j].uid => i = j
Asked(a) == [uid |-> a.uid, op |-> a.op]

\* The cache has one entry per waiting request; what is sent and answered
\* belongs to entries of the cache, each under way once or lost; and only the
\* requests that wait no more were called back, once.
CacheCovers ==
  /\ Waiting \subseteq 1 .. reqid
  /\ \A r, s \in cache : r.uid = s.uid => r = s
  /\ \A i \in DOMAIN sent : sent[i] \in cache
  /\ \A i \in DOMAIN answers : Asked(answers[i]) \in cache
UnderwayOnce ==
  /\ Distinct(sent) /\ Distinct(answers) /\ Uids(sent) \cap Uids(answers) = {}
  /\ lost \cap Underway = {}
  /\ Waiting = Underway \cup lost
CalledOnce ==
  \A u \in 1 .. MaxRequests : calls[u] = IF u \in (1 .. reqid) \ Waiting THEN 1 ELSE 0
RequestInv == CacheCovers /\ UnderwayOnce /\ CalledOnce

\* What a queue of requests with distinct ids loses and gains.
LEMMA TailUids ==
  ASSUME NEW S, NEW seq \in Seq(S), seq # <<>>, Distinct(seq)
  PROVE  /\ Uids(Tail(seq)) = Uids(seq) \ {Head(seq).uid} /\ Distinct(Tail(seq))
         /\ Head(seq).uid \in Uids(seq)
         /\ \A i \in DOMAIN Tail(seq) : i + 1 \in DOMAIN seq /\ Tail(seq)[i] = seq[i + 1]
<1> DEFINE k == Len(seq)
<1>1. /\ k \in Nat \ {0} /\ DOMAIN seq = 1 .. k /\ DOMAIN Tail(seq) = 1 .. k - 1
      /\ \A i \in 1 .. k - 1 : Tail(seq)[i] = seq[i + 1]
      /\ Head(seq) = seq[1]
  OBVIOUS
<1> HIDE DEF k
<1>2. \A i \in 2 .. k : i - 1 \in 1 .. k - 1 /\ Tail(seq)[i - 1] = seq[i]
  BY <1>1
<1>3. \A i \in 1 .. k : i = 1 \/ i \in 2 .. k
  BY <1>1
<1>4. Uids(Tail(seq)) \subseteq Uids(seq) \ {Head(seq).uid}
  <2> SUFFICES ASSUME NEW i \in 1 .. k - 1
               PROVE  Tail(seq)[i].uid \in Uids(seq) \ {Head(seq).uid}
    BY <1>1 DEF Uids
  <2>1. Tail(seq)[i] = seq[i + 1] /\ i + 1 \in 1 .. k /\ 1 \in 1 .. k /\ i + 1 # 1
    BY <1>1
  <2> QED BY <1>1, <2>1 DEF Uids, Distinct
<1>5. Uids(seq) \ {Head(seq).uid} \subseteq Uids(Tail(seq))
  <2> SUFFICES ASSUME NEW i \in 1 .. k, seq[i].uid # seq[1].uid
               PROVE  seq[i].uid \in Uids(Tail(seq))
    BY <1>1 DEF Uids
  <2>1. i - 1 \in 1 .. k - 1 /\ Tail(seq)[i - 1] = seq[i]
    BY <1>2, <1>3
  <2> QED BY <1>1, <2>1 DEF Uids
<1>6. Distinct(Tail(seq))
  <2> SUFFICES ASSUME NEW i \in 1 .. k - 1, NEW j \in 1 .. k - 1,
                      Tail(seq)[i].uid = Tail(seq)[j].uid
               PROVE  i = j
    BY <1>1 DEF Distinct
  <2>1. i + 1 \in 1 .. k /\ j + 1 \in 1 .. k /\ seq[i + 1].uid = seq[j + 1].uid
    BY <1>1
  <2>2. i + 1 = j + 1
    BY <1>1, <2>1 DEF Distinct
  <2> QED BY <2>2
<1>7. Head(seq).uid \in Uids(seq)
  BY <1>1 DEF Uids
<1>8. \A i \in DOMAIN Tail(seq) : i + 1 \in DOMAIN seq /\ Tail(seq)[i] = seq[i + 1]
  BY <1>1
<1> QED BY <1>4, <1>5, <1>6, <1>7, <1>8

LEMMA AppendUids ==
  ASSUME NEW S, NEW seq \in Seq(S), Distinct(seq), NEW e \in S, e.uid \notin Uids(seq)
  PROVE  /\ Uids(Append(seq, e)) = Uids(seq) \cup {e.uid} /\ Distinct(Append(seq, e))
         /\ \A i \in DOMAIN Append(seq, e) :
              Append(seq, e)[i] = e \/ (i \in DOMAIN seq /\ Append(seq, e)[i] = seq[i])
<1> DEFINE k == Len(seq)
           both == Append(seq, e)
<1>1. /\ k \in Nat /\ DOMAIN seq = 1 .. k /\ DOMAIN both = 1 .. k + 1
      /\ \A i \in 1 .. k : both[i] = seq[i]
      /\ both[k + 1] = e
  OBVIOUS
<1> HIDE DEF k, both
<1>2. \A i \in 1 .. k + 1 : i \in 1 .. k \/ i = k + 1
  BY <1>1
<1>3. k + 1 \in 1 .. k + 1 /\ k + 1 \notin 1 .. k /\ \A i \in 1 .. k : i \in 1 .. k + 1
  BY <1>1
<1>4. Uids(both) = Uids(seq) \cup {e.uid}
  BY <1>1, <1>2, <1>3 DEF Uids
<1>5. Distinct(both)
  <2> SUFFICES ASSUME NEW i \in 1 .. k + 1, NEW j \in 1 .. k + 1, both[i].uid = both[j].uid
               PROVE  i = j
    BY <1>1 DEF Distinct
  <2>1. \A m \in 1 .. k : both[m].uid # e.uid
    BY <1>1 DEF Uids
  <2>2. CASE i \in 1 .. k /\ j \in 1 .. k
    BY <1>1, <2>2 DEF Distinct
  <2> QED BY <1>1, <1>2, <2>1, <2>2
<1>6. \A i \in DOMAIN both : both[i] = e \/ (i \in DOMAIN seq /\ both[i] = seq[i])
  BY <1>1, <1>2
<1> QED BY <1>4, <1>5, <1>6 DEF both

\* Underway as the union of the two queues' ids.
LEMMA UnderwayIs == Underway = Uids(sent) \cup Uids(answers)
BY DEF Underway, Uids

\* A request that is sent gets an id of its own.
LEMMA SendAccounted ==
  ASSUME TypeOK, RequestInv, NEW op \in {"place", "cancel"}, Send(op)
  PROVE  RequestInv'
<1> DEFINE r == [uid |-> reqid + 1, op |-> op]
<1>1. /\ reqid \in Nat /\ reqid + 1 \in 1 .. MaxRequests /\ reqid' = reqid + 1
      /\ cache' = cache \cup {r} /\ UNCHANGED <<calls, trade, answers>>
  BY BoundsAssumption DEF Send, TypeOK, RequestTypeOK
<1>2. r \in Request /\ r.uid = reqid + 1 /\ sent \in Seq(Request)
  BY <1>1 DEF Request, TypeOK, TradeTypeOK
<1>3. reqid + 1 \notin Waiting /\ Waiting' = Waiting \cup {reqid + 1}
  <2>1. reqid + 1 \notin 1 .. reqid
    BY <1>1
  <2>2. reqid + 1 \notin Waiting
    BY <2>1 DEF RequestInv, CacheCovers
  <2>3. Waiting' = Waiting \cup {r.uid}
    BY <1>1 DEF Waiting
  <2> QED BY <1>2, <2>2, <2>3
<1>4. reqid + 1 \notin Underway /\ reqid + 1 \notin lost
  BY <1>3 DEF RequestInv, UnderwayOnce
<1>5. \A i \in DOMAIN sent : sent[i].uid # reqid + 1
  BY <1>4 DEF Underway
<1>6. \/ sent' = Append(sent, r) /\ lost' = lost
      \/ sent' = sent /\ lost' = lost \cup {reqid + 1}
  BY <1>2 DEF Send
<1> HIDE DEF r
<1>7. /\ Uids(Append(sent, r)) = Uids(sent) \cup {reqid + 1} /\ Distinct(Append(sent, r))
      /\ \A i \in DOMAIN Append(sent, r) :
           Append(sent, r)[i] = r \/ (i \in DOMAIN sent /\ Append(sent, r)[i] = sent[i])
  BY <1>2, <1>5, AppendUids DEF Uids, RequestInv, UnderwayOnce
<1>8. CacheCovers'
  <2>1. Waiting' \subseteq 1 .. reqid'
    BY <1>1, <1>3 DEF RequestInv, CacheCovers
  <2>2. \A x, y \in cache' : x.uid = y.uid => x = y
    BY <1>1, <1>2, <1>3 DEF RequestInv, CacheCovers, Waiting
  <2>3. \A i \in DOMAIN sent' : sent'[i] \in cache'
    BY <1>1, <1>6, <1>7 DEF RequestInv, CacheCovers
  <2>4. \A i \in DOMAIN answers' : Asked(answers'[i]) \in cache'
    BY <1>1 DEF RequestInv, CacheCovers
  <2> QED BY <2>1, <2>2, <2>3, <2>4 DEF CacheCovers
<1>9. UnderwayOnce'
  <2>1. /\ Underway = Uids(sent) \cup Uids(answers)
        /\ Underway' = Uids(sent') \cup Uids(answers)
    BY <1>1 DEF Underway, Uids
  <2>2. /\ Uids(sent') \cap Uids(answers) = {} /\ Distinct(sent') /\ Distinct(answers)
        /\ lost' \cap Underway' = {} /\ Waiting' = Underway' \cup lost'
    BY <1>3, <1>4, <1>6, <1>7, <2>1 DEF RequestInv, UnderwayOnce
  <2> QED BY <1>1, <2>2 DEF UnderwayOnce
<1>10. CalledOnce'
  BY <1>1, <1>3 DEF RequestInv, CalledOnce
<1> QED BY <1>8, <1>9, <1>10 DEF RequestInv

\* The exchange answers the request it has read.
LEMMA AnswerAccounted ==
  ASSUME TypeOK, RequestInv, sent # <<>>, NEW ok \in {"yes", "no"}, Answer(ok),
         UNCHANGED requestVars
  PROVE  RequestInv'
<1> DEFINE r == Head(sent)
           a == [uid |-> r.uid, op |-> r.op, ok |-> ok]
<1>1. sent \in Seq(Request) /\ answers \in Seq(AnswerType) /\ r \in Request
  BY DEF TypeOK, TradeTypeOK
<1>2. a \in AnswerType /\ a.uid = r.uid /\ Asked(a) = r
  BY <1>1 DEF Request, AnswerType, Asked
<1>3. sent' = Tail(sent) /\ answers' = Append(answers, a)
  BY DEF Answer
<1>4. /\ Uids(sent') = Uids(sent) \ {r.uid} /\ Distinct(sent') /\ r.uid \in Uids(sent)
      /\ \A i \in DOMAIN sent' : i + 1 \in DOMAIN sent /\ sent'[i] = sent[i + 1]
  BY <1>1, <1>3, TailUids DEF RequestInv, UnderwayOnce
<1>5. r \in cache
  BY <1>1 DEF RequestInv, CacheCovers
<1> HIDE DEF r, a
<1>6. /\ Uids(answers') = Uids(answers) \cup {r.uid} /\ Distinct(answers')
      /\ \A i \in DOMAIN answers' :
           answers'[i] = a \/ (i \in DOMAIN answers /\ answers'[i] = answers[i])
  BY <1>1, <1>2, <1>3, <1>4, AppendUids DEF RequestInv, UnderwayOnce
<1>7. UNCHANGED <<reqid, cache, calls, lost, Waiting>>
  BY DEF requestVars, Waiting
<1>8. CacheCovers'
  BY <1>2, <1>4, <1>5, <1>6, <1>7 DEF RequestInv, CacheCovers
<1>9. UnderwayOnce'
  <2>1. /\ Underway = Uids(sent) \cup Uids(answers)
        /\ Underway' = Uids(sent') \cup Uids(answers')
    BY DEF Underway, Uids
  <2> QED BY <1>4, <1>6, <1>7, <2>1 DEF RequestInv, UnderwayOnce
<1>10. CalledOnce'
  BY <1>7 DEF RequestInv, CalledOnce
<1> QED BY <1>8, <1>9, <1>10 DEF RequestInv

\* An answer that comes in finds its request in the cache, calls its callback
\* for the first time and takes the request out.
LEMMA CompleteAccounted ==
  ASSUME TypeOK, RequestInv, NEW t, ReceiveAnswer(t)
  PROVE  RequestInv'
<1> DEFINE a == Head(answers)
<1>1. /\ sent \in Seq(Request) /\ answers \in Seq(AnswerType) /\ answers # <<>>
      /\ a \in AnswerType /\ answers' = Tail(answers) /\ sent' = sent
  BY DEF TypeOK, TradeTypeOK, ReceiveAnswer
<1>2. /\ Uids(answers') = Uids(answers) \ {a.uid} /\ Distinct(answers') /\ a.uid \in Uids(answers)
      /\ \A i \in DOMAIN answers' : i + 1 \in DOMAIN answers /\ answers'[i] = answers[i + 1]
  BY <1>1, TailUids DEF RequestInv, UnderwayOnce
<1>3. Asked(a) \in cache /\ Asked(a).uid = a.uid /\ Asked(a) = [uid |-> a.uid, op |-> a.op]
  BY <1>1 DEF RequestInv, CacheCovers, Asked
<1>4. /\ calls' = [calls EXCEPT ![a.uid] = @ + 1] /\ cache' = cache \ {Asked(a)}
      /\ UNCHANGED <<reqid, lost>>
  BY <1>3 DEF ReceiveAnswer, Complete
<1>5. a.uid \in Waiting /\ Waiting' = Waiting \ {a.uid} /\ a.uid \in 1 .. MaxRequests
  <2>1. \A x \in cache : x.uid = a.uid <=> x = Asked(a)
    BY <1>3 DEF RequestInv, CacheCovers
  <2>2. a.uid \in 1 .. MaxRequests
    BY <1>1 DEF AnswerType
  <2> QED BY <1>3, <1>4, <2>1, <2>2 DEF Waiting
<1> HIDE DEF a
<1>6. a.uid \notin Uids(sent) /\ a.uid \notin lost
  BY <1>2, UnderwayIs DEF RequestInv, UnderwayOnce
<1>7. CacheCovers'
  <2>1. Waiting' \subseteq 1 .. reqid'
    BY <1>4, <1>5 DEF RequestInv, CacheCovers
  <2>2. \A x, y \in cache' : x.uid = y.uid => x = y
    BY <1>4 DEF RequestInv, CacheCovers
  <2>3. ASSUME NEW i \in DOMAIN sent' PROVE sent'[i] \in cache'
    <3>1. i \in DOMAIN sent /\ sent'[i] = sent[i] /\ sent[i] \in cache /\ sent[i].uid # a.uid
      BY <1>1, <1>6 DEF RequestInv, CacheCovers, Uids
    <3> QED BY <1>3, <1>4, <3>1
  <2>4. ASSUME NEW i \in DOMAIN answers' PROVE Asked(answers'[i]) \in cache'
    <3>1. Asked(answers'[i]) \in cache /\ answers'[i].uid # a.uid
      BY <1>2 DEF RequestInv, CacheCovers, Uids
    <3>2. Asked(answers'[i]).uid = answers'[i].uid
      BY DEF Asked
    <3> QED BY <1>3, <1>4, <3>1, <3>2
  <2> QED BY <2>1, <2>2, <2>3, <2>4 DEF CacheCovers
<1>8. UnderwayOnce'
  <2>1. /\ Underway = Uids(sent) \cup Uids(answers)
        /\ Underway' = Uids(sent) \cup Uids(answers')
    BY <1>1 DEF Underway, Uids
  <2> QED BY <1>1, <1>2, <1>4, <1>5, <1>6, <2>1 DEF RequestInv, UnderwayOnce
<1>9. CalledOnce'
  <2> SUFFICES ASSUME NEW u \in 1 .. MaxRequests
               PROVE  calls'[u] = IF u \in (1 .. reqid') \ Waiting' THEN 1 ELSE 0
    BY DEF CalledOnce
  <2>1. calls \in [1 .. MaxRequests -> Nat]
    BY DEF TypeOK, RequestTypeOK
  <2>2. CASE u = a.uid
    <3>1. calls[u] = 0 /\ u \in 1 .. reqid
      BY <1>5, <2>2 DEF RequestInv, CalledOnce, CacheCovers
    <3> QED BY <1>4, <1>5, <2>1, <2>2, <3>1
  <2>3. CASE u # a.uid
    BY <1>4, <1>5, <2>1, <2>3 DEF RequestInv, CalledOnce
  <2> QED BY <2>2, <2>3
<1> QED BY <1>7, <1>8, <1>9 DEF RequestInv

\* An answer that cannot be read leaves its request in the cache, lost.
LEMMA UnreadAccounted ==
  ASSUME TypeOK, RequestInv, DropAnswer
  PROVE  RequestInv'
<1> DEFINE a == Head(answers)
<1>1. /\ answers \in Seq(AnswerType) /\ answers # <<>> /\ answers' = Tail(answers)
      /\ UNCHANGED <<sent, reqid, cache, calls, Waiting>> /\ lost' = lost \cup {a.uid}
  BY DEF TypeOK, TradeTypeOK, DropAnswer, Waiting
<1>2. /\ Uids(answers') = Uids(answers) \ {a.uid} /\ Distinct(answers') /\ a.uid \in Uids(answers)
      /\ \A i \in DOMAIN answers' : i + 1 \in DOMAIN answers /\ answers'[i] = answers[i + 1]
  BY <1>1, TailUids DEF RequestInv, UnderwayOnce
<1> HIDE DEF a
<1>3. CacheCovers'
  BY <1>1, <1>2 DEF RequestInv, CacheCovers
<1>4. UnderwayOnce'
  <2>1. /\ Underway = Uids(sent) \cup Uids(answers)
        /\ Underway' = Uids(sent) \cup Uids(answers')
    BY <1>1 DEF Underway, Uids
  <2> QED BY <1>1, <1>2, <2>1 DEF RequestInv, UnderwayOnce
<1>5. CalledOnce'
  BY <1>1 DEF RequestInv, CalledOnce
<1> QED BY <1>3, <1>4, <1>5 DEF RequestInv

\* What is under way when wss_trade_ drops is lost.
LEMMA DropAccounted ==
  ASSUME TypeOK, RequestInv, TradeDrop
  PROVE  RequestInv'
<1>1. /\ sent' = <<>> /\ answers' = <<>> /\ UNCHANGED <<reqid, cache, calls, Waiting>>
      /\ lost' = lost \cup Underway
  BY DEF TradeDrop, Waiting, Underway
<1>2. Underway' = {} /\ Uids(<<>>) = {} /\ Distinct(<<>>)
  BY <1>1 DEF Underway, Uids, Distinct
<1>3. CacheCovers'
  BY <1>1 DEF RequestInv, CacheCovers
<1>4. UnderwayOnce'
  BY <1>1, <1>2 DEF RequestInv, UnderwayOnce
<1>5. CalledOnce'
  BY <1>1 DEF RequestInv, CalledOnce
<1> QED BY <1>3, <1>4, <1>5 DEF RequestInv

\* Every step keeps the accounts.
LEMMA RequestStep == TypeOK /\ RequestInv /\ [Next]_vars => RequestInv'
<1> SUFFICES ASSUME TypeOK, RequestInv, [Next]_vars PROVE RequestInv'
  OBVIOUS
<1>1. ASSUME UNCHANGED requestVars, UNCHANGED <<sent, answers>> PROVE RequestInv'
  BY <1>1 DEF requestVars, RequestInv, CacheCovers, UnderwayOnce, CalledOnce, Waiting, Underway
<1>2. CASE PlaceOrder \/ CancelOrder
  BY <1>2, SendAccounted DEF PlaceOrder, CancelOrder
<1>3. CASE ExchangeAccepts \/ ExchangeAcceptsCancel \/ ExchangeRefuses
  BY <1>3, AnswerAccounted DEF ExchangeAccepts, ExchangeAcceptsCancel, ExchangeRefuses
<1>4. ASSUME NEW t \in Times, ReceiveAnswer(t) PROVE RequestInv'
  BY <1>4, CompleteAccounted
<1>5. CASE TradeDrop
  BY <1>5, DropAccounted
<1>6. CASE ExchangeCancels \/ (\E p \in Prices : ExchangeMatches(p))
           \/ (\E q \in queries : ExchangeAnswersQuery(q))
  BY <1>1, <1>6 DEF ExchangeCancels, ExchangeMatches, ExchangeAnswersQuery, tradeVars
<1>7. ASSUME NEW t \in Times,
             ReceivePush(t) \/ FailQuery(t) \/ \E a \in snapshots : ReceiveQuery(a, t)
      PROVE  RequestInv'
  BY <1>1, <1>7 DEF ReceivePush, FailQuery, ReceiveQuery, tradeVars
<1>8. CASE \/ PlaceUnknownPair \/ QueryOrder \/ SubscribeOrder \/ UnsubscribeOrder
           \/ TradeConnect \/ StreamConnect \/ StreamDrop \/ DropPush \/ RefreshPairs
           \/ UNCHANGED vars
  BY <1>1, <1>8 DEF PlaceUnknownPair, QueryOrder, SubscribeOrder, UnsubscribeOrder, TradeConnect,
                    StreamConnect, StreamDrop, DropPush, RefreshPairs, vars, tradeVars
<1>9. CASE DropAnswer
  BY <1>9, UnreadAccounted
<1> QED
  BY <1>2, <1>3, <1>4, <1>5, <1>6, <1>7, <1>8, <1>9 DEF Next, Exchange, Handlers

\* A request is answered to its caller exactly once or still waits in
\* ws_request_cache_, and then for something that is under way, that was not
\* sent or was lost with wss_trade_, or whose answer could not be read.
THEOREM NoRequestForgotten == Spec => []RequestsAccountedFor
<1>1. Init => RequestInv
  BY DEF Init, RequestInv, CacheCovers, UnderwayOnce, CalledOnce, Waiting, Underway, Uids, Distinct
<1>2. TypeOK /\ RequestInv => RequestsAccountedFor
  <2> SUFFICES ASSUME TypeOK, RequestInv, NEW u \in 1 .. reqid
               PROVE  /\ calls[u] = IF u \in Waiting THEN 0 ELSE 1
                      /\ u \in Waiting <=> u \in Underway \/ u \in lost
    BY DEF RequestsAccountedFor
  <2>1. u \in 1 .. MaxRequests
    BY BoundsAssumption DEF TypeOK, RequestTypeOK
  <2> QED BY <2>1 DEF RequestInv, CalledOnce, UnderwayOnce
<1> QED BY <1>1, <1>2, TypeCorrect, RequestStep, PTL DEF Spec

-----------------------------------------------------------------------------
(* The trades arrive                                                       *)

\* A done order was traded in full; nothing the exchange sends makes an order
\* fail; and a snapshot of a done order has all its contracts.
Orderly ==
  /\ book = "filled" => Traded = Qty
  /\ order.status # "Amending"
  /\ \A v \in Messages : v.status \notin {"Failed", "Amending"}
  /\ \A a \in snapshots : a.view.status = "Filled" => a.view.cum = Qty

\* A push that ends the order without telling its amount comes after the one
\* that tells it.
Justified(seq) ==
  \A i \in DOMAIN seq :
    seq[i].status = "Filled" /\ seq[i].cum # Qty => \E j \in 1 .. i - 1 : seq[j].cum = Qty

\* The last trade is in the order or among the pushes, and the order is not
\* in a state that update does not leave before all of it has traded.
LastTradeKnown ==
  /\ order.status # "Failed"
  /\ order.cum = Traded \/ \E i \in DOMAIN pushes : pushes[i].cum = Traded
  /\ order.status = "Filled" => order.cum = Qty
  /\ order.cum = Qty \/ Justified(pushes)
Arriving == ~failed /\ ~missed /\ ~unscaled => LastTradeKnown

\* What the contracts traded so far cost, and the price of the last one.
TurnoverNow == Turnover(Traded)
TradePrice(c) == <<Turnover(c) - Turnover(c - 1), 1>>
LastPrice == TradePrice(Traded)

\* What a match adds to the turnover.
LEMMA MatchTurnover ==
  ASSUME TypeOK, NEW p \in Prices, ExchangeMatches(p),
         NEW n, n = Traded + 1, NEW paid, paid = Turnover(Traded) + p
  PROVE  /\ n \in 1 .. Qty /\ paid \in Nat /\ p \in Nat
         /\ Traded' = n /\ book' = IF n = Qty THEN "filled" ELSE book
         /\ Turnover(n)' = paid /\ \A c \in 0 .. Traded : Turnover(c)' = Turnover(c)
         /\ TurnoverNow' = paid /\ LastPrice' = <<p, 1>>
<1>1. p \in Nat /\ Turnover(Traded) \in Nat /\ Traded \in 0 .. Qty /\ Qty \in Nat
  BY PricesAssumption, QtyAssumption, TurnoverType DEF TypeOK
<1>2. n \in 1 .. Qty /\ paid \in Nat
  BY <1>1, QtyAssumption DEF ExchangeMatches, TypeOK, BookTypeOK
<1>3. turnover \in Seq(Nat) /\ turnover' = Append(turnover, paid)
  BY DEF ExchangeMatches, TypeOK, BookTypeOK
<1>4. /\ Traded' = n /\ turnover'[n] = paid
      /\ \A c \in 1 .. Traded : turnover'[c] = turnover[c]
  BY <1>3 DEF Traded
<1>5. Turnover(n)' = paid
  BY <1>2, <1>4 DEF Turnover
<1>6. \A c \in 0 .. Traded : Turnover(c)' = Turnover(c)
  BY <1>1, <1>4 DEF Turnover
<1>7. TurnoverNow' = paid
  BY <1>2, <1>4 DEF TurnoverNow, Turnover
<1>8. LastPrice' = <<p, 1>>
  <2>1. PICK m : m = n - 1
    OBVIOUS
  <2>2. m = Traded /\ m \in 0 .. Traded
    BY <1>1, <2>1
  <2>3. Turnover(m)' = Turnover(Traded)
    BY <1>6, <2>2
  <2>4. paid - Turnover(Traded) = p
    BY <1>1
  <2>5. LastPrice' = <<Turnover(n)' - Turnover(m)', 1>>
    BY <1>4, <2>1 DEF LastPrice, TradePrice, Turnover
  <2> QED BY <1>5, <2>3, <2>4, <2>5
<1>9. book' = IF n = Qty THEN "filled" ELSE book
  BY DEF ExchangeMatches
<1> QED BY <1>1, <1>2, <1>4, <1>5, <1>6, <1>7, <1>8, <1>9

\* What a message tells of the state it was sent in: the turnover to a
\* unified account, the price of the last match or nothing to a classic one.
Tells(v) ==
  /\ v.status \notin {"Failed", "Amending"}
  /\ mode = "UNIFIED" => v.cum = Traded' /\ v.quote = TurnoverNow'
  /\ mode = "CLASSIC" /\ queries = {} => v.cum = 0 \/ (v.cum = Traded' /\ v.avg = LastPrice')

\* What a step adds to the messages under way.
LEMMA NewMessages ==
  ASSUME TypeOK, [Next]_vars, NEW v \in Messages', v \notin Messages
  PROVE  Tells(v)
<1>1. ASSUME UNCHANGED <<pushes, snapshots>> PROVE FALSE
  BY <1>1 DEF Messages, Elements
<1>2. ASSUME pushes' = <<>> \/ (pushes # <<>> /\ pushes' = Tail(pushes)), snapshots' = snapshots
      PROVE FALSE
  <2>1. CASE pushes' = <<>>
    BY <1>2, <2>1 DEF Messages, Elements
  <2>2. CASE pushes # <<>> /\ pushes' = Tail(pushes)
    BY <1>2, <2>2, TailMessages DEF Messages, Elements, TypeOK, StreamTypeOK
  <2> QED BY <1>2, <2>1, <2>2
<1>3. ASSUME snapshots' \subseteq snapshots, pushes' = pushes PROVE FALSE
  BY <1>3 DEF Messages, Elements
<1>4. \A s : /\ OtherView(s).status = s
             /\ mode = "UNIFIED" => OtherView(s).cum = Traded /\ OtherView(s).quote = TurnoverNow
             /\ mode = "CLASSIC" => OtherView(s).cum = 0
  BY DEF OtherView, ClassicOther, View, NoFill, Filling, TurnoverNow
<1>5. ASSUME NEW s, Push(<<OtherView(s)>>), UNCHANGED <<queryVars, mode, turnover>>,
             s \in {"New", "Canceled"}
      PROVE  Tells(v)
  <2>1. OtherView(s) \in ViewType
    BY <1>5, OtherViewType DEF TypeOK, OrderStatus
  <2>2. PICK w : w = OtherView(s)
    OBVIOUS
  <2>3. <<w>> \in Seq(ViewType) /\ Elements(<<w>>) = {w}
    BY <2>1, <2>2 DEF Elements
  <2>4. v = w
    BY <1>5, <2>2, <2>3, PushMessages
  <2>5. Traded' = Traded /\ TurnoverNow' = TurnoverNow
    BY <1>5 DEF Traded, TurnoverNow, Turnover
  <2> QED BY <1>4, <1>5, <2>2, <2>4, <2>5 DEF Tells
<1>6. CASE ExchangeAccepts
  BY <1>5, <1>6 DEF ExchangeAccepts
<1>7. CASE ExchangeCancels
  BY <1>5, <1>7 DEF ExchangeCancels
<1>8. ASSUME NEW b, NEW n, NEW paid
      PROVE  /\ UnifiedView(b, n, paid).status \notin {"Failed", "Amending"}
             /\ UnifiedView(b, n, paid).cum = n /\ UnifiedView(b, n, paid).quote = paid
             /\ ClassicQueryView(b, n, paid).status \notin {"Failed", "Amending"}
  BY DEF UnifiedView, ClassicQueryView, StatusOf, View, Filling
<1>9. ASSUME NEW p \in Prices, ExchangeMatches(p)
      PROVE  Tells(v)
  <2>1. PICK n, paid : n = Traded + 1 /\ paid = Turnover(Traded) + p
    OBVIOUS
  <2>2. /\ n \in 1 .. Qty /\ paid \in Nat
        /\ Traded' = n /\ TurnoverNow' = paid /\ LastPrice' = <<p, 1>>
    BY <1>9, <2>1, MatchTurnover
  <2>3. PICK u, m, f : /\ u = UnifiedView(book', n, paid)
                       /\ m = ClassicMatch(n, p) /\ f = ClassicOther("Filled")
    OBVIOUS
  <2>4. u \in ViewType /\ m \in ViewType /\ f \in ViewType
    BY <2>2, <2>3, UnifiedViewType, ClassicMatchType, OtherViewType DEF TypeOK, OrderStatus
  <2>5. PICK views : views = IF mode = "UNIFIED" THEN <<u>>
                             ELSE IF n = Qty THEN <<m, f>> ELSE <<m>>
    OBVIOUS
  <2>6. Push(views) /\ UNCHANGED queryVars
    BY <1>9, <2>1, <2>3, <2>5 DEF ExchangeMatches
  <2>7. /\ views \in Seq(ViewType)
        /\ IF mode = "UNIFIED" THEN Elements(views) = {u} ELSE Elements(views) \subseteq {m, f}
    <3>1. /\ \A x \in ViewType : <<x>> \in Seq(ViewType) /\ Elements(<<x>>) = {x}
          /\ \A x, y \in ViewType : <<x, y>> \in Seq(ViewType) /\ Elements(<<x, y>>) = {x, y}
      BY DEF Elements
    <3> QED BY <2>4, <2>5, <3>1
  <2>8. v \in Elements(views)
    BY <2>6, <2>7, PushMessages
  <2>9. /\ m.status \in {"Filled", "PartiallyFilled"} /\ m.cum = n /\ m.avg = <<p, 1>>
        /\ f.status = "Filled" /\ f.cum = 0
    BY <2>3 DEF ClassicMatch, ClassicOther, View, NoFill
  <2>10. u.status \notin {"Failed", "Amending"} /\ u.cum = n /\ u.quote = paid
    BY <1>8, <2>3
  <2> QED BY <2>2, <2>7, <2>8, <2>9, <2>10 DEF Tells
<1>10. ASSUME NEW q \in queries, ExchangeAnswersQuery(q)
       PROVE  Tells(v)
  <2>1. PICK w : w = IF mode = "CLASSIC"
                     THEN ClassicQueryView(book, Traded, Turnover(Traded))
                     ELSE UnifiedView(book, Traded, Turnover(Traded))
    OBVIOUS
  <2>2. snapshots' = snapshots \cup {[id |-> q, view |-> w]} /\ UNCHANGED <<turnover, pushes>>
    BY <1>10, <2>1 DEF ExchangeAnswersQuery, bookVars, streamVars
  <2>3. v = w
    BY <2>2 DEF Messages, Elements
  <2>4. Traded' = Traded /\ TurnoverNow' = Turnover(Traded)
    BY <2>2 DEF Traded, TurnoverNow, Turnover
  <2> QED BY <1>8, <2>1, <2>3, <2>4 DEF Tells
<1>11. CASE ExchangeAcceptsCancel \/ ExchangeRefuses
  BY <1>1, <1>11 DEF ExchangeAcceptsCancel, ExchangeRefuses, streamVars, queryVars
<1>12. ASSUME NEW t \in Times, ReceiveAnswer(t) PROVE FALSE
  BY <1>1, <1>12 DEF ReceiveAnswer, streamVars, queryVars
<1>13. ASSUME DropPush \/ \E t \in Times : ReceivePush(t) PROVE FALSE
  BY <1>2, <1>13 DEF ReceivePush, DropPush, queryVars
<1>14. ASSUME NEW t \in Times, FailQuery(t) \/ \E a \in snapshots : ReceiveQuery(a, t) PROVE FALSE
  BY <1>3, <1>14 DEF FailQuery, ReceiveQuery, streamVars
<1>15. CASE PlaceOrder \/ PlaceUnknownPair \/ CancelOrder \/ QueryOrder \/ SubscribeOrder
            \/ UnsubscribeOrder \/ TradeConnect \/ TradeDrop \/ StreamConnect \/ DropAnswer
            \/ RefreshPairs \/ UNCHANGED vars
  BY <1>1, <1>15 DEF PlaceOrder, PlaceUnknownPair, CancelOrder, QueryOrder, SubscribeOrder,
     UnsubscribeOrder, TradeConnect, TradeDrop, StreamConnect, DropAnswer, RefreshPairs, vars, streamVars, queryVars
<1>16. CASE StreamDrop
  BY <1>2, <1>16 DEF StreamDrop, queryVars
<1> QED
  BY <1>6, <1>7, <1>9, <1>10, <1>11, <1>12, <1>13, <1>14, <1>15, <1>16
  DEF Next, Exchange, Handlers

\* How the ends among the pushes stay justified.
LEMMA JustifiedConcat ==
  ASSUME NEW s \in Seq(ViewType), NEW t \in Seq(ViewType), Justified(s), Justified(t)
  PROVE  Justified(s \o t)
<1> DEFINE k == Len(s)
           both == s \o t
<1>1. /\ k \in Nat /\ Len(t) \in Nat /\ DOMAIN both = 1 .. k + Len(t)
      /\ DOMAIN s = 1 .. k /\ DOMAIN t = 1 .. Len(t)
      /\ \A i \in 1 .. k : both[i] = s[i]
      /\ \A i \in k + 1 .. k + Len(t) : i - k \in DOMAIN t /\ both[i] = t[i - k]
  OBVIOUS
<1> HIDE DEF k, both
<1>2. SUFFICES ASSUME NEW i \in 1 .. k + Len(t), both[i].status = "Filled", both[i].cum # Qty
               PROVE  \E j \in 1 .. i - 1 : both[j].cum = Qty
  BY <1>1 DEF Justified, both
<1>3. CASE i \in 1 .. k
  <2>1. PICK j \in 1 .. i - 1 : s[j].cum = Qty
    BY <1>1, <1>2, <1>3 DEF Justified
  <2>2. j \in 1 .. k
    BY <1>1, <1>3
  <2> QED BY <1>1, <2>1, <2>2
<1>4. CASE i \in k + 1 .. k + Len(t)
  <2>1. PICK j \in 1 .. i - k - 1 : t[j].cum = Qty
    BY <1>1, <1>2, <1>4 DEF Justified
  <2>2. j + k \in 1 .. i - 1 /\ j + k \in k + 1 .. k + Len(t) /\ j + k - k = j
    BY <1>1, <1>4
  <2>3. both[j + k] = t[j]
    BY <1>1, <2>2
  <2> QED BY <2>1, <2>2, <2>3
<1> QED BY <1>1, <1>2, <1>3, <1>4

LEMMA JustifiedTail ==
  ASSUME NEW s \in Seq(ViewType), s # <<>>, Justified(s), Head(s).cum # Qty
  PROVE  Justified(Tail(s)) /\ Head(s).status # "Filled"
<1> DEFINE k == Len(s)
<1>1. /\ k \in Nat \ {0} /\ DOMAIN s = 1 .. k /\ DOMAIN Tail(s) = 1 .. k - 1
      /\ \A i \in 1 .. k - 1 : Tail(s)[i] = s[i + 1]
      /\ Head(s) = s[1]
  OBVIOUS
<1> HIDE DEF k
<1>2. Head(s).status # "Filled"
  BY <1>1 DEF Justified
<1>3. ASSUME NEW i \in 1 .. k - 1, s[i + 1].status = "Filled", s[i + 1].cum # Qty
      PROVE  \E j \in 1 .. i - 1 : s[j + 1].cum = Qty
  <2>1. i + 1 \in 1 .. k
    BY <1>1
  <2>2. PICK j \in 1 .. i + 1 - 1 : s[j].cum = Qty
    BY <1>1, <1>3, <2>1 DEF Justified
  <2>3. j # 1
    BY <1>1, <2>2
  <2>4. j - 1 \in 1 .. i - 1 /\ j - 1 + 1 = j
    BY <2>2, <2>3
  <2> QED BY <2>2, <2>4
<1>4. ASSUME NEW i \in 1 .. k - 1 PROVE \A j \in 1 .. i - 1 : Tail(s)[j] = s[j + 1]
  BY <1>1
<1>5. ASSUME NEW i \in 1 .. k - 1, Tail(s)[i].status = "Filled", Tail(s)[i].cum # Qty
      PROVE  \E j \in 1 .. i - 1 : Tail(s)[j].cum = Qty
  <2>1. PICK j \in 1 .. i - 1 : s[j + 1].cum = Qty
    BY <1>1, <1>3, <1>5
  <2> QED BY <1>4, <2>1
<1> QED BY <1>1, <1>2, <1>5 DEF Justified

\* The order absorbs a view under way: it has at least the view's contracts
\* afterwards, because it is in no state that update does not leave.
LEMMA AbsorbArrives ==
  ASSUME TypeOK, NeverAhead, MessagesReached, Orderly, LastTradeKnown,
         NEW v \in ViewType, Reached(Traded, book, v.status, v.cum),
         v.status \notin {"Failed", "Amending"}, NEW t \in Times,
         v.status = "Filled" => v.cum = Qty \/ order.cum = Qty,
         order'.status = Updated(order, Parsed(v, t)).status,
         order'.cum = Updated(order, Parsed(v, t)).cum
  PROVE  /\ order'.cum = Larger(order.cum, v.cum) /\ v.cum <= Traded
         /\ order'.status \notin {"Failed", "Amending"}
         /\ order'.status = "Filled" => order'.cum = Qty
<1>1. order \in Order /\ order.cum \in Nat /\ v.cum \in 0 .. Qty /\ Traded \in 0 .. Qty
  BY TurnoverType DEF TypeOK, OrderTypeOK, Order, ViewType
<1>2. v.cum <= Traded /\ order.cum <= Traded /\ v.status \notin {"Failed", "Amending"}
  BY DEF Reached, NeverAhead
<1>3. order.status \notin {"Failed", "Amending"} /\ (order.status = "Filled" => order.cum = Qty)
  BY DEF LastTradeKnown, Orderly
<1>4. \/ order'.status = v.status /\ order'.cum = Larger(order.cum, v.cum)
      \/ order'.status = order.status /\ order'.cum = order.cum /\ ~Transits(order, Parsed(v, t))
  BY <1>1, UpdatedFields
<1>5. v.cum > order.cum /\ order.status # "Filled" => Transits(order, Parsed(v, t))
  BY <1>2, <1>3 DEF Transits, Refuses, Parsed
<1>6. order'.cum = Larger(order.cum, v.cum)
  BY <1>1, <1>2, <1>3, <1>4, <1>5 DEF Larger
<1>7. order.cum = Qty \/ v.cum = Qty => order'.cum = Qty
  BY <1>1, <1>2, <1>6 DEF Larger
<1> QED BY <1>2, <1>3, <1>4, <1>6, <1>7

\* Every step keeps the order of things.
LEMMA OrderlyStep == TypeOK /\ Orderly /\ [Next]_vars => Orderly'
<1> SUFFICES ASSUME TypeOK, Orderly, [Next]_vars PROVE Orderly'
  OBVIOUS
<1>0. order \in Order /\ TypeOK'
  BY TypeStep DEF TypeOK, OrderTypeOK
<1>1. \A v \in Messages' : v.status \notin {"Failed", "Amending"}
  BY NewMessages DEF Orderly, Tells
<1>2. book' = "filled" => Traded' = Qty
  <2>1. ASSUME UNCHANGED turnover, book' = "filled" => book = "filled" PROVE Traded' = Traded
    BY <2>1 DEF Traded
  <2>2. ASSUME NEW p \in Prices, ExchangeMatches(p), book' = "filled" PROVE Traded' = Qty
    <3>1. turnover \in Seq(Nat) /\ turnover' = Append(turnover, Turnover(Traded) + p)
      BY <2>2 DEF ExchangeMatches, TypeOK, BookTypeOK
    <3>2. Traded' = Traded + 1
      BY <3>1 DEF Traded
    <3> QED BY <2>2, <3>2 DEF ExchangeMatches
  <2>3. CASE Exchange
    BY <2>1, <2>2, <2>3 DEF Exchange, ExchangeAccepts, ExchangeAcceptsCancel, ExchangeRefuses,
       ExchangeCancels, ExchangeAnswersQuery, bookVars, Orderly
  <2>4. CASE Handlers
    BY <2>1, <2>4 DEF Handlers, ReceiveAnswer, ReceivePush, FailQuery, ReceiveQuery, DropAnswer,
       DropPush, bookVars, Orderly
  <2>5. CASE ~Exchange /\ ~Handlers
    BY <2>1, <2>5 DEF Next, PlaceOrder, PlaceUnknownPair, CancelOrder, QueryOrder, SubscribeOrder,
       UnsubscribeOrder, TradeConnect, TradeDrop, StreamConnect, StreamDrop, RefreshPairs, vars,
       bookVars, Orderly
  <2> QED BY <2>3, <2>4, <2>5
<1>3. \A a \in snapshots' : a.view.status = "Filled" => a.view.cum = Qty
  <2>1. ASSUME NEW q \in queries, ExchangeAnswersQuery(q)
        PROVE  \A a \in snapshots' : a.view.status = "Filled" => a.view.cum = Qty
    <3>1. PICK w : w = IF mode = "CLASSIC"
                       THEN ClassicQueryView(book, Traded, Turnover(Traded))
                       ELSE UnifiedView(book, Traded, Turnover(Traded))
      OBVIOUS
    <3>2. snapshots' = snapshots \cup {[id |-> q, view |-> w]}
      BY <2>1, <3>1 DEF ExchangeAnswersQuery
    <3>3. w.cum = Traded /\ (w.status = "Filled" => book = "filled")
      BY <3>1 DEF UnifiedView, ClassicQueryView, View, Filling, StatusOf
    <3> QED BY <3>2, <3>3 DEF Orderly
  <2>2. snapshots' \subseteq snapshots \/ \E q \in queries : ExchangeAnswersQuery(q)
    BY DEF Next, Exchange, Handlers, PlaceOrder, PlaceUnknownPair, CancelOrder, QueryOrder,
       SubscribeOrder, UnsubscribeOrder, TradeConnect, TradeDrop, StreamConnect, StreamDrop,
       ExchangeAccepts, ExchangeAcceptsCancel, ExchangeRefuses, ExchangeCancels, ExchangeMatches,
       ReceiveAnswer, ReceivePush, FailQuery, ReceiveQuery, DropAnswer, DropPush, RefreshPairs,
       vars, queryVars
  <2> QED BY <2>1, <2>2 DEF Orderly
<1>4. order'.status # "Amending"
  <2>1. ASSUME NEW t \in Times, ReceivePush(t) PROVE order'.status # "Amending"
    <3>1. Head(pushes) \in ViewType /\ Head(pushes) \in Messages
      BY <2>1, TailMessages DEF ReceivePush, TypeOK, StreamTypeOK, Messages, Elements
    <3>2. PICK w : w = Denominated(Head(pushes))
      OBVIOUS
    <3>3. w \in ViewType /\ w.status # "Amending"
      BY <3>1, <3>2, DenominatedView DEF Orderly
    <3>4. order' = Updated(order, Parsed(w, t))
      BY <2>1, <3>2 DEF ReceivePush
    <3> QED BY <1>0, <3>3, <3>4, UpdatedFields DEF Orderly
  <2>2. ASSUME NEW t \in Times, NEW a \in snapshots, ReceiveQuery(a, t)
        PROVE  order'.status # "Amending"
    <3>1. a.view \in ViewType /\ a.view \in Messages
      BY DEF TypeOK, QueryTypeOK, Messages
    <3>2. PICK w : w = Denominated(a.view)
      OBVIOUS
    <3>3. w \in ViewType /\ w.status # "Amending"
      BY <3>1, <3>2, DenominatedView DEF Orderly
    <3>4. Updated(order, Parsed(w, t)) \in Order
      BY <1>0, <3>3, UpdatedType
    <3>5. order'.status = Updated(order, Parsed(w, t)).status
      BY <2>2, <3>2, <3>4 DEF ReceiveQuery, Order
    <3> QED BY <1>0, <3>3, <3>5, UpdatedFields DEF Orderly
  <2>3. ASSUME NEW t \in Times, ReceiveAnswer(t) \/ FailQuery(t) PROVE order'.status # "Amending"
    BY <1>0, <2>3 DEF ReceiveAnswer, FailQuery, Orderly, Order
  <2>4. CASE PlaceUnknownPair
    BY <1>0, <2>4 DEF PlaceUnknownPair, Order
  <2>5. CASE Exchange
    BY <2>5 DEF Exchange, ExchangeAccepts, ExchangeAcceptsCancel, ExchangeRefuses, ExchangeCancels,
       ExchangeMatches, ExchangeAnswersQuery, orderVars, Orderly
  <2>6. CASE \/ PlaceOrder \/ CancelOrder \/ QueryOrder \/ SubscribeOrder \/ UnsubscribeOrder
             \/ TradeConnect \/ TradeDrop \/ StreamConnect \/ StreamDrop \/ DropAnswer \/ DropPush
             \/ RefreshPairs \/ UNCHANGED vars
    BY <2>6 DEF PlaceOrder, CancelOrder, QueryOrder, SubscribeOrder, UnsubscribeOrder,
       TradeConnect, TradeDrop, StreamConnect, StreamDrop, DropAnswer, DropPush, RefreshPairs,
       vars, orderVars, Orderly
  <2> QED BY <2>1, <2>2, <2>3, <2>4, <2>5, <2>6 DEF Next, Handlers
<1> QED BY <1>1, <1>2, <1>3, <1>4 DEF Orderly

\* The amounts of the order and of the exchange.
LEMMA Amounts ==
  ASSUME TypeOK, NeverAhead
  PROVE  order.cum \in 0 .. Qty /\ Traded \in 0 .. Qty /\ order.cum <= Traded
<1>1. Traded \in 0 .. Qty /\ Qty \in Nat
  BY TurnoverType, QtyAssumption DEF TypeOK
<1>2. order.cum \in Nat /\ order.cum <= Traded
  BY DEF TypeOK, OrderTypeOK, Order, NeverAhead
<1> QED BY <1>1, <1>2

\* The pushes after a push, when none is missed.
LEMMA PushArrives ==
  ASSUME TypeOK, Arriving, NEW views \in Seq(ViewType), Push(views), Justified(views),
         UNCHANGED <<order, failed, unscaled>>,
         Traded' = Traded \/ \E i \in DOMAIN views : views[i].cum = Traded'
  PROVE  Arriving'
<1>1. SUFFICES ASSUME ~failed', ~missed', ~unscaled' PROVE LastTradeKnown'
  BY DEF Arriving
<1>2. ~missed /\ subscribed # "no"
  BY <1>1, Zenon DEF Push
<1>3. ~failed /\ ~unscaled
  BY <1>1
<1>4. LastTradeKnown
  BY <1>2, <1>3 DEF Arriving
<1>5. pushes' = pushes \o views /\ pushes \in Seq(ViewType)
  BY <1>2 DEF Push, TypeOK, StreamTypeOK
<1>6. order.cum = Qty \/ Justified(pushes')
  BY <1>4, <1>5, JustifiedConcat DEF LastTradeKnown
<1>7. order.cum = Traded' \/ \E i \in DOMAIN pushes' : pushes'[i].cum = Traded'
  <2>1. /\ \A i \in DOMAIN pushes : i \in DOMAIN pushes' /\ pushes'[i] = pushes[i]
        /\ \A i \in DOMAIN views : /\ i + Len(pushes) \in DOMAIN pushes'
                                   /\ pushes'[i + Len(pushes)] = views[i]
    BY <1>5
  <2> QED BY <1>4, <2>1 DEF LastTradeKnown
<1> QED BY <1>4, <1>6, <1>7 DEF LastTradeKnown, Justified

\* A push that is taken and applied.
LEMMA TakeArrives ==
  ASSUME TypeOK, NeverAhead, MessagesReached, Orderly, LastTradeKnown, UNCHANGED turnover,
         pushes # <<>>, pushes' = Tail(pushes), NEW t \in Times,
         NEW w \in ViewType, w.status = Head(pushes).status, w.cum = Head(pushes).cum,
         order' = Updated(order, Parsed(w, t))
  PROVE  LastTradeKnown'
<1>1. PICK v : v = Head(pushes)
  OBVIOUS
<1>2. v \in ViewType /\ v \in Messages /\ pushes \in Seq(ViewType) /\ v.cum \in 0 .. Qty
  <2>1. pushes \in Seq(ViewType) /\ v \in ViewType /\ v \in Elements(pushes)
    BY <1>1 DEF TypeOK, StreamTypeOK, Elements
  <2> QED BY <2>1 DEF Messages, ViewType
<1>3. order.cum \in 0 .. Qty /\ Traded \in 0 .. Qty /\ Traded' = Traded /\ order.cum <= Traded
  BY Amounts DEF Traded
<1>4. v.cum = Qty \/ order.cum = Qty \/ (Justified(Tail(pushes)) /\ v.status # "Filled")
  BY <1>1, <1>2, JustifiedTail DEF LastTradeKnown
<1>5. /\ order'.cum = Larger(order.cum, v.cum) /\ v.cum <= Traded
      /\ order'.status \notin {"Failed", "Amending"}
      /\ order'.status = "Filled" => order'.cum = Qty
  <2>1. Reached(Traded, book, w.status, w.cum) /\ w.status \notin {"Failed", "Amending"}
    BY <1>1, <1>2 DEF MessagesReached, AllReached, Orderly
  <2>2. w.status = "Filled" => w.cum = Qty \/ order.cum = Qty
    BY <1>1, <1>4
  <2> QED BY <1>1, <2>1, <2>2, AbsorbArrives
<1>6. order.cum = Qty \/ v.cum = Qty => order'.cum = Qty
  BY <1>2, <1>3, <1>5 DEF Larger
<1>7. order.cum = Traded \/ v.cum = Traded => order'.cum = Traded
  BY <1>2, <1>3, <1>5 DEF Larger
<1>8. ASSUME NEW i \in DOMAIN pushes, pushes[i].cum = Traded
      PROVE  v.cum = Traded \/ \E j \in DOMAIN Tail(pushes) : Tail(pushes)[j].cum = Traded
  <2>1. CASE i = 1
    BY <1>1, <1>2, <1>8, <2>1
  <2>2. CASE i # 1
    <3>1. i - 1 \in DOMAIN Tail(pushes) /\ Tail(pushes)[i - 1] = pushes[i]
      BY <1>2, <2>2
    <3> QED BY <1>8, <3>1
  <2> QED BY <2>1, <2>2
<1>9. order'.cum = Traded' \/ \E i \in DOMAIN pushes' : pushes'[i].cum = Traded'
  BY <1>3, <1>7, <1>8 DEF LastTradeKnown
<1>10. order'.cum = Qty \/ Justified(pushes')
  BY <1>4, <1>6
<1> QED BY <1>5, <1>9, <1>10 DEF LastTradeKnown, Justified

\* A step that changes neither the order nor the pushes.
LEMMA ArrivingKept ==
  ASSUME Arriving, UNCHANGED <<order, failed, missed, unscaled, pushes, turnover>>
  PROVE  Arriving'
BY DEF Arriving, LastTradeKnown, Justified, Traded

\* What a match is parsed into tells the amount before it tells the end.
LEMMA MatchArrives ==
  ASSUME TypeOK, Orderly, Arriving, NEW p \in Prices, ExchangeMatches(p)
  PROVE  Arriving'
<1>1. PICK n, paid : n = Traded + 1 /\ paid = Turnover(Traded) + p
  OBVIOUS
<1>2. /\ n \in 1 .. Qty /\ paid \in Nat
      /\ Traded' = n /\ book' = IF n = Qty THEN "filled" ELSE book
  BY <1>1, MatchTurnover
<1>3. PICK u, m, f : /\ u = UnifiedView(book', n, paid)
                     /\ m = ClassicMatch(n, p) /\ f = ClassicOther("Filled")
  OBVIOUS
<1>4. u \in ViewType /\ m \in ViewType /\ f \in ViewType
  BY <1>2, <1>3, UnifiedViewType, ClassicMatchType, OtherViewType DEF TypeOK, OrderStatus
<1>5. u.cum = n /\ m.cum = n /\ (u.status = "Filled" => n = Qty) /\ (m.status = "Filled" => n = Qty)
  <2>1. book # "filled"
    BY DEF ExchangeMatches
  <2>2. u.cum = n /\ (u.status = "Filled" => book' = "filled")
    BY <1>3 DEF UnifiedView, View, Filling, StatusOf
  <2>3. m.cum = n /\ (m.status = "Filled" => ~(n < Qty))
    BY <1>3 DEF ClassicMatch, View
  <2> QED BY <1>2, <2>1, <2>2, <2>3, QtyAssumption
<1>6. PICK views : views = IF mode = "UNIFIED" THEN <<u>>
                           ELSE IF n = Qty THEN <<m, f>> ELSE <<m>>
  OBVIOUS
<1>7. Push(views) /\ UNCHANGED <<order, failed, unscaled>>
  BY <1>1, <1>3, <1>6 DEF ExchangeMatches, orderVars, pairVars
<1>8. /\ views \in Seq(ViewType) /\ Justified(views)
      /\ \E i \in DOMAIN views : views[i].cum = n
  <2>1. \A x \in ViewType :
          /\ <<x>> \in Seq(ViewType) /\ DOMAIN <<x>> = {1} /\ <<x>>[1] = x
    OBVIOUS
  <2>2. CASE views = <<u>> \/ views = <<m>>
    BY <1>4, <1>5, <2>1, <2>2 DEF Justified
  <2>3. CASE views = <<m, f>> /\ n = Qty
    <3>1. views \in Seq(ViewType) /\ DOMAIN views = {1, 2} /\ views[1] = m /\ views[2] = f
      BY <1>4, <2>3
    <3>2. 1 \in 1 .. 2 - 1
      OBVIOUS
    <3> QED BY <1>5, <2>3, <3>1, <3>2 DEF Justified
  <2> QED BY <1>6, <2>2, <2>3
<1> QED BY <1>2, <1>7, <1>8, PushArrives

\* Every step keeps the trades on their way or arrived.
LEMMA ArrivingStep ==
  TypeOK /\ NeverAhead /\ MessagesReached /\ Orderly /\ Arriving /\ [Next]_vars => Arriving'
<1> SUFFICES ASSUME TypeOK, NeverAhead, MessagesReached, Orderly, Arriving, [Next]_vars
             PROVE  Arriving'
  OBVIOUS
<1>0. order \in Order
  BY DEF TypeOK, OrderTypeOK
<1>1. ASSUME NEW s \in {"New", "Canceled"}, Push(<<OtherView(s)>>),
             UNCHANGED <<turnover, order, failed, unscaled>>
      PROVE  Arriving'
  <2>1. PICK w : w = OtherView(s)
    OBVIOUS
  <2>2. w \in ViewType /\ w.status # "Filled"
    <3>1. w.status = s
      BY <2>1 DEF OtherView, ClassicOther, View
    <3> QED BY <1>1, <2>1, <3>1, OtherViewType DEF TypeOK, OrderStatus
  <2>3. <<w>> \in Seq(ViewType) /\ Justified(<<w>>)
    BY <2>2 DEF Justified
  <2>4. Traded' = Traded
    BY <1>1 DEF Traded
  <2> QED BY <1>1, <2>1, <2>3, <2>4, PushArrives
<1>2. CASE ExchangeAccepts
  BY <1>1, <1>2 DEF ExchangeAccepts, orderVars, pairVars
<1>3. CASE ExchangeCancels
  BY <1>1, <1>3 DEF ExchangeCancels, orderVars, pairVars
<1>4. ASSUME NEW p \in Prices, ExchangeMatches(p) PROVE Arriving'
  BY <1>4, MatchArrives
<1>5. ASSUME NEW t \in Times, ReceiveAnswer(t) PROVE Arriving'
  <2>1. SUFFICES ASSUME ~failed', ~missed', ~unscaled' PROVE LastTradeKnown'
    BY DEF Arriving
  <2>2. UNCHANGED <<missed, pushes, turnover, unscaled>>
    BY <1>5 DEF ReceiveAnswer, streamVars, bookVars, pairVars
  <2>3. CASE [uid |-> Head(answers).uid, op |-> Head(answers).op] \in cache
    <3>1. failed' = (failed \/ Head(answers).ok = "no")
      BY <1>5, <2>3 DEF ReceiveAnswer
    <3>2. ~failed /\ Head(answers).ok # "no"
      BY <2>1, <3>1, Zenon
    <3>3. order'.status \in {"New", "Canceling"} /\ order'.cum = order.cum
      BY <1>0, <1>5, <2>3, <3>2 DEF ReceiveAnswer, Order
    <3>4. LastTradeKnown
      BY <2>1, <2>2, <3>2 DEF Arriving
    <3> QED BY <2>2, <3>3, <3>4 DEF LastTradeKnown, Justified, Traded
  <2>4. CASE [uid |-> Head(answers).uid, op |-> Head(answers).op] \notin cache
    <3>1. UNCHANGED <<order, failed>>
      BY <1>5, <2>4 DEF ReceiveAnswer
    <3> QED BY <2>1, <2>2, <3>1, ArrivingKept DEF Arriving
  <2> QED BY <2>3, <2>4
<1>6. ASSUME NEW t \in Times, ReceivePush(t) PROVE Arriving'
  <2>1. SUFFICES ASSUME ~failed', ~missed', ~unscaled' PROVE LastTradeKnown'
    BY DEF Arriving
  <2>2. PICK w : w = Denominated(Head(pushes))
    OBVIOUS
  <2>3. /\ order' = Updated(order, Parsed(w, t)) /\ pushes # <<>>
        /\ pushes' = Tail(pushes) /\ UNCHANGED <<failed, missed, turnover>>
    BY <1>6, <2>2 DEF ReceivePush, bookVars
  <2>4. ~unscaled /\ w.cum = Head(pushes).cum
    <3>1. unscaled' = (unscaled \/ w.cum # Head(pushes).cum)
      BY <1>6, <2>2 DEF ReceivePush, Parse
    <3> QED BY <2>1, <3>1, Zenon
  <2>5. LastTradeKnown
    BY <2>1, <2>3, <2>4 DEF Arriving
  <2>6. w \in ViewType /\ w.status = Head(pushes).status
    <3>1. Head(pushes) \in ViewType
      BY <2>3 DEF TypeOK, StreamTypeOK
    <3> QED BY <2>2, <3>1, DenominatedView
  <2> QED BY <2>3, <2>4, <2>5, <2>6, TakeArrives
<1>7. ASSUME NEW t \in Times, NEW a \in snapshots, ReceiveQuery(a, t) PROVE Arriving'
  <2>1. a.view \in ViewType /\ a.view \in Messages /\ a.view.cum \in 0 .. Qty
        /\ (a.view.status = "Filled" => a.view.cum = Qty)
    BY DEF TypeOK, QueryTypeOK, Messages, Orderly, ViewType
  <2>2. SUFFICES ASSUME ~failed', ~missed', ~unscaled' PROVE LastTradeKnown'
    BY DEF Arriving
  <2>3. PICK w : w = Denominated(a.view)
    OBVIOUS
  <2>4. ~unscaled /\ w.cum = a.view.cum
    <3>1. unscaled' = (unscaled \/ w.cum # a.view.cum)
      BY <1>7, <2>3 DEF ReceiveQuery, Parse
    <3> QED BY <2>2, <3>1, Zenon
  <2>5. w \in ViewType /\ w.status = a.view.status /\ w.cum \in 0 .. Qty
    BY <2>1, <2>3, <2>4, DenominatedView
  <2>6. Reached(Traded, book, w.status, w.cum) /\ w.status \notin {"Failed", "Amending"}
    BY <2>1, <2>4, <2>5 DEF MessagesReached, AllReached, Orderly
  <2>7. Updated(order, Parsed(w, t)) \in Order
    BY <1>0, <2>5, UpdatedType
  <2>8. /\ order'.status = Updated(order, Parsed(w, t)).status
        /\ order'.cum = Updated(order, Parsed(w, t)).cum
    BY <1>7, <2>3, <2>7 DEF ReceiveQuery, Order
  <2>9. UNCHANGED <<failed, missed, pushes, turnover>>
    BY <1>7 DEF ReceiveQuery, bookVars, streamVars
  <2>10. LastTradeKnown
    BY <2>2, <2>4, <2>9 DEF Arriving
  <2>11. /\ order'.cum = Larger(order.cum, w.cum) /\ w.cum <= Traded
         /\ order'.status \notin {"Failed", "Amending"}
         /\ order'.status = "Filled" => order'.cum = Qty
    BY <2>1, <2>4, <2>5, <2>6, <2>8, <2>10, AbsorbArrives
  <2>12. order.cum \in 0 .. Qty /\ Traded \in 0 .. Qty /\ Traded' = Traded /\ order.cum <= Traded
    BY <2>9, Amounts DEF Traded
  <2>13. /\ order.cum = Qty => order'.cum = Qty
         /\ order.cum = Traded => order'.cum = Traded
    BY <2>5, <2>11, <2>12 DEF Larger
  <2> QED BY <2>9, <2>10, <2>11, <2>12, <2>13 DEF LastTradeKnown, Justified
<1>8. ASSUME failed' = TRUE PROVE Arriving'
  BY <1>8 DEF Arriving
<1>9. CASE PlaceUnknownPair \/ \E t \in Times : FailQuery(t)
  BY <1>8, <1>9 DEF PlaceUnknownPair, FailQuery
<1>10. CASE StreamDrop
  <2>1. SUFFICES ASSUME ~missed' PROVE Arriving'
    BY DEF Arriving
  <2>2. ~missed /\ pushes = <<>>
    BY <1>10, <2>1, Zenon DEF StreamDrop
  <2>3. pushes' = pushes /\ UNCHANGED <<order, failed, turnover, unscaled>>
    BY <1>10, <2>2 DEF StreamDrop, orderVars, bookVars, pairVars
  <2>4. Arriving => (~failed' /\ ~unscaled' => LastTradeKnown)
    BY <2>2, <2>3 DEF Arriving
  <2> QED BY <2>3, <2>4 DEF Arriving, LastTradeKnown, Justified, Traded
<1>11. CASE ExchangeAcceptsCancel \/ ExchangeRefuses \/ \E q \in queries : ExchangeAnswersQuery(q)
  BY <1>11, ArrivingKept DEF ExchangeAcceptsCancel, ExchangeRefuses, ExchangeAnswersQuery,
     orderVars, streamVars, bookVars, pairVars
<1>12. CASE \/ PlaceOrder \/ CancelOrder \/ QueryOrder \/ SubscribeOrder \/ UnsubscribeOrder
            \/ TradeConnect \/ TradeDrop \/ StreamConnect \/ DropAnswer \/ RefreshPairs
            \/ UNCHANGED vars
  BY <1>12, ArrivingKept DEF PlaceOrder, CancelOrder, QueryOrder, SubscribeOrder, UnsubscribeOrder,
     TradeConnect, TradeDrop, StreamConnect, DropAnswer, RefreshPairs, vars, orderVars, streamVars,
     bookVars, pairVars
<1>13. CASE DropPush
  BY <1>13 DEF DropPush, Arriving
<1> QED
  BY <1>2, <1>3, <1>4, <1>5, <1>6, <1>7, <1>9, <1>10, <1>11, <1>12, <1>13
  DEF Next, Exchange, Handlers

\* Only a failure, a push that got lost or amounts parsed while the pair was not
\* in g_pairs_info_cache can hide a trade: once the pushes are in, cum_deal_base
\* counts every traded contract, whatever answers and stale snapshots were
\* applied between them.
THEOREM AllTradesArrive == Spec => []TradesArrive
<1>1. Init => NeverAhead /\ MessagesReached /\ Orderly /\ Arriving
  <2> SUFFICES ASSUME Init PROVE NeverAhead /\ MessagesReached /\ Orderly /\ Arriving
    OBVIOUS
  <2>1. PICK t \in Times : order = NewOrder(t)
    BY DEF Init
  <2>2. order.cum = 0 /\ order.status = "Created" /\ Traded = 0 /\ book = "none"
    BY <2>1 DEF NewOrder, Init, Traded
  <2>3. Messages = {} /\ snapshots = {} /\ pushes = <<>>
    BY DEF Init, Messages, Elements
  <2> QED BY <2>2, <2>3
          DEF NeverAhead, MessagesReached, AllReached, Orderly, Arriving, LastTradeKnown, Justified
<1>2. Arriving => TradesArrive
  BY DEF Arriving, LastTradeKnown, TradesArrive
<1> QED BY <1>1, <1>2, TypeCorrect, ReachedStep, OrderlyStep, ArrivingStep, PTL DEF Spec

-----------------------------------------------------------------------------
(* The quote amount is the turnover                                        *)

\* The turnover rises with every contract, and a unified account is told it
\* in every message: this is what makes QuoteIsTurnover inductive.
Rising == \A n, m \in 0 .. Traded : n <= m => Turnover(n) <= Turnover(m)
QuoteInv ==
  /\ Rising
  /\ mode = "UNIFIED" => /\ order.quote = Turnover(order.cum)
                         /\ \A v \in Messages : v.quote = Turnover(v.cum)

\* What was traded keeps its turnover, and nothing changes the account mode.
LEMMA TurnoverKept ==
  ASSUME TypeOK, [Next]_vars
  PROVE  /\ mode' = mode
         /\ \A c \in 0 .. Traded : Turnover(c)' = Turnover(c)
         /\ \/ UNCHANGED turnover
            \/ \E p \in Prices : ExchangeMatches(p)
<1>1. /\ mode' = mode
      /\ UNCHANGED turnover \/ \E p \in Prices : ExchangeMatches(p)
  BY DEF Next, Exchange, Handlers, PlaceOrder, PlaceUnknownPair, CancelOrder, QueryOrder,
     SubscribeOrder, UnsubscribeOrder, TradeConnect, TradeDrop, StreamConnect, StreamDrop,
     ExchangeAccepts, ExchangeAcceptsCancel, ExchangeRefuses, ExchangeCancels, ExchangeMatches,
     ExchangeAnswersQuery, ReceiveAnswer, ReceivePush, FailQuery, ReceiveQuery, DropAnswer,
     DropPush, RefreshPairs, vars, bookVars
<1>2. CASE UNCHANGED turnover
  BY <1>1, <1>2 DEF Turnover
<1>3. ASSUME NEW p \in Prices, ExchangeMatches(p)
      PROVE  \A c \in 0 .. Traded : Turnover(c)' = Turnover(c)
  <2>1. PICK n, paid : n = Traded + 1 /\ paid = Turnover(Traded) + p
    OBVIOUS
  <2> QED BY <1>3, <2>1, MatchTurnover
<1> QED BY <1>1, <1>2, <1>3

\* The turnover keeps rising.
LEMMA RisingStep == TypeOK /\ Rising /\ [Next]_vars => Rising'
<1> SUFFICES ASSUME TypeOK, Rising, [Next]_vars PROVE Rising'
  OBVIOUS
<1>1. CASE UNCHANGED turnover
  BY <1>1 DEF Rising, Traded, Turnover
<1>2. ASSUME NEW p \in Prices, ExchangeMatches(p) PROVE Rising'
  <2>1. PICK n, paid : n = Traded + 1 /\ paid = Turnover(Traded) + p
    OBVIOUS
  <2>2. /\ Traded' = n /\ Turnover(n)' = paid /\ p \in Nat
        /\ \A c \in 0 .. Traded : Turnover(c)' = Turnover(c)
    BY <1>2, <2>1, MatchTurnover
  <2>3. Traded \in Nat /\ \A c \in 0 .. Traded : Turnover(c) \in Nat
    BY DEF TypeOK, BookTypeOK, Traded, Turnover
  <2>4. SUFFICES ASSUME NEW c \in 0 .. n, NEW d \in 0 .. n, c <= d
                 PROVE  Turnover(c)' <= Turnover(d)'
    BY <2>2 DEF Rising
  <2>5. CASE d \in 0 .. Traded
    <3>1. c \in 0 .. Traded
      BY <2>3, <2>4, <2>5
    <3> QED BY <2>2, <2>4, <2>5, <3>1 DEF Rising
  <2>6. CASE c \in 0 .. Traded /\ d = n
    <3>1. Turnover(c) <= Turnover(Traded) /\ Turnover(c) \in Nat /\ Turnover(Traded) \in Nat
      BY <2>3, <2>6 DEF Rising
    <3>2. Turnover(c) <= paid
      BY <2>1, <2>2, <3>1
    <3> QED BY <2>2, <2>6, <3>1, <3>2
  <2>7. CASE c = n /\ d = n
    <3>1. paid \in Nat
      BY <2>1, <2>2, <2>3
    <3> QED BY <2>2, <2>7, <3>1
  <2> QED BY <2>1, <2>3, <2>4, <2>5, <2>6, <2>7
<1> QED BY <1>1, <1>2, TurnoverKept

\* The order absorbs a view that tells the turnover.
LEMMA QuoteAbsorbed ==
  ASSUME TypeOK, NeverAhead, Rising, order.quote = Turnover(order.cum),
         NEW v \in ViewType, v.cum <= Traded, v.quote = Turnover(v.cum), NEW t \in Times,
         NEW n, n = Updated(order, Parsed(v, t))
  PROVE  n.quote = Turnover(n.cum) /\ n.cum \in 0 .. Traded
<1>1. order \in Order /\ order.cum \in 0 .. Traded /\ v.cum \in 0 .. Traded
  <2>1. v.cum \in Nat /\ v.cum <= Traded
    BY QtyAssumption DEF ViewType
  <2>2. order \in Order /\ order.cum \in Nat /\ order.cum <= Traded /\ Traded \in Nat
    <3>1. order \in Order
      BY DEF TypeOK, OrderTypeOK
    <3>2. order.cum \in 0 .. Qty /\ Traded \in 0 .. Qty /\ order.cum <= Traded
      BY Amounts
    <3> QED BY <3>1, <3>2, QtyAssumption
  <2> QED BY <2>1, <2>2
<1>2. \/ n.cum = Larger(order.cum, v.cum) /\ n.quote = Larger(order.quote, v.quote)
      \/ n.cum = order.cum /\ n.quote = order.quote
  BY <1>1 DEF Updated, Absorbed, Parsed, Order
<1>3. \A c \in 0 .. Traded : Turnover(c) \in Nat
  BY DEF TypeOK, BookTypeOK, Traded, Turnover
<1>4. PICK c, d : c = order.cum /\ d = v.cum
  OBVIOUS
<1>5. c <= d => Turnover(c) <= Turnover(d)
  BY <1>1, <1>4 DEF Rising
<1>6. d <= c => Turnover(d) <= Turnover(c)
  BY <1>1, <1>4 DEF Rising
<1>7. Larger(Turnover(c), Turnover(d)) = Turnover(Larger(c, d))
  <2>1. Turnover(c) \in Nat /\ Turnover(d) \in Nat /\ c \in Nat /\ d \in Nat
    BY <1>1, <1>3, <1>4
  <2>2. CASE c < d
    BY <1>5, <2>1, <2>2 DEF Larger
  <2>3. CASE d <= c
    BY <1>6, <2>1, <2>3 DEF Larger
  <2> QED BY <2>1, <2>2, <2>3
<1>8. n.cum \in {c, d}
  BY <1>2, <1>4 DEF Larger
<1> QED BY <1>1, <1>2, <1>4, <1>7, <1>8

\* Every step keeps the quote amount.
LEMMA QuoteStep ==
  TypeOK /\ NeverAhead /\ MessagesReached /\ QuoteInv /\ [Next]_vars => QuoteInv'
<1> SUFFICES ASSUME TypeOK, NeverAhead, MessagesReached, QuoteInv, [Next]_vars PROVE QuoteInv'
  OBVIOUS
<1>1. Rising'
  BY RisingStep DEF QuoteInv
<1>2. SUFFICES ASSUME mode = "UNIFIED"
               PROVE  /\ order'.quote = Turnover(order.cum)'
                      /\ \A v \in Messages' : v.quote = Turnover(v.cum)'
  BY <1>1, TurnoverKept DEF QuoteInv
<1>3. /\ order.quote = Turnover(order.cum) /\ \A v \in Messages : v.quote = Turnover(v.cum)
      /\ Rising /\ order \in Order /\ order.cum \in 0 .. Traded
  <2>1. order.cum \in 0 .. Traded
    BY Amounts, QtyAssumption
  <2> QED BY <1>2, <2>1 DEF QuoteInv, TypeOK, OrderTypeOK
<1>4. ASSUME NEW v \in Messages' PROVE v.quote = Turnover(v.cum)'
  <2>1. CASE v \in Messages
    <3>1. v \in ViewType
      BY <2>1 DEF Messages, Elements, TypeOK, StreamTypeOK, QueryTypeOK
    <3>2. v.cum \in 0 .. Traded
      <4>1. v.cum \in Nat /\ v.cum <= Traded /\ Traded \in Nat
        BY <2>1, <3>1, QtyAssumption, Amounts DEF ViewType, MessagesReached, AllReached, Reached
      <4> QED BY <4>1
    <3> QED BY <1>3, <2>1, <3>2, TurnoverKept
  <2>2. CASE v \notin Messages
    <3>1. v.cum = Traded' /\ v.quote = TurnoverNow'
      BY <1>2, <1>4, <2>2, NewMessages DEF Tells
    <3> QED BY <3>1 DEF TurnoverNow, Turnover
  <2> QED BY <2>1, <2>2
<1>5. ASSUME NEW c \in 0 .. Traded, order'.cum = c, order'.quote = Turnover(c)
      PROVE  order'.quote = Turnover(order.cum)'
  BY <1>5, TurnoverKept DEF Turnover
<1>6. ASSUME order'.cum = order.cum, order'.quote = order.quote
      PROVE  order'.quote = Turnover(order.cum)'
  BY <1>3, <1>5, <1>6
<1>7. ASSUME NEW t \in Times, ReceivePush(t) PROVE order'.quote = Turnover(order.cum)'
  <2>1. Head(pushes) \in ViewType /\ Head(pushes) \in Messages
    BY <1>7, TailMessages DEF ReceivePush, TypeOK, StreamTypeOK, Messages, Elements
  <2>2. PICK w : w = Denominated(Head(pushes))
    OBVIOUS
  <2>3. w \in ViewType /\ w.cum <= Traded /\ w.quote = Turnover(w.cum)
    <3>1. Traded \in Nat
      BY Amounts, QtyAssumption
    <3> QED BY <1>3, <2>1, <2>2, <3>1, DenominatedView, DenominatedReached DEF Reached
  <2>4. order' = Updated(order, Parsed(w, t))
    BY <1>7, <2>2 DEF ReceivePush
  <2>5. order'.quote = Turnover(order'.cum) /\ order'.cum \in 0 .. Traded
    BY <1>3, <2>3, <2>4, QuoteAbsorbed
  <2> QED BY <1>5, <2>5
<1>8. ASSUME NEW t \in Times, NEW a \in snapshots, ReceiveQuery(a, t)
      PROVE  order'.quote = Turnover(order.cum)'
  <2>1. a.view \in ViewType /\ a.view \in Messages
    BY DEF TypeOK, QueryTypeOK, Messages
  <2>2. PICK w : w = Denominated(a.view)
    OBVIOUS
  <2>3. w \in ViewType /\ w.cum <= Traded /\ w.quote = Turnover(w.cum)
    <3>1. Traded \in Nat
      BY Amounts, QtyAssumption
    <3> QED BY <1>3, <2>1, <2>2, <3>1, DenominatedView, DenominatedReached DEF Reached
  <2>4. PICK n : n = Updated(order, Parsed(w, t))
    OBVIOUS
  <2>5. n.quote = Turnover(n.cum) /\ n.cum \in 0 .. Traded
    BY <1>3, <2>3, <2>4, QuoteAbsorbed
  <2>6. n \in Order
    BY <1>3, <2>3, <2>4, UpdatedType
  <2>7. order'.quote = n.quote /\ order'.cum = n.cum
    BY <1>8, <2>2, <2>4, <2>6 DEF ReceiveQuery, Order
  <2> QED BY <1>5, <2>5, <2>7
<1>9. ASSUME NEW t \in Times, ReceiveAnswer(t) \/ FailQuery(t)
      PROVE  order'.quote = Turnover(order.cum)'
  BY <1>3, <1>6, <1>9 DEF ReceiveAnswer, FailQuery, Order
<1>10. ASSUME PlaceUnknownPair PROVE order'.quote = Turnover(order.cum)'
  <2>1. order'.cum = order.cum /\ order'.quote = order.quote
    BY <1>3, <1>10 DEF PlaceUnknownPair, Order
  <2> QED BY <1>6, <2>1
<1>11. ASSUME Exchange PROVE order'.quote = Turnover(order.cum)'
  <2>1. order' = order
    BY <1>11 DEF Exchange, ExchangeAccepts, ExchangeAcceptsCancel, ExchangeRefuses,
       ExchangeCancels, ExchangeMatches, ExchangeAnswersQuery, orderVars
  <2> QED BY <1>6, <2>1
<1>12. ASSUME \/ PlaceOrder \/ CancelOrder \/ QueryOrder \/ SubscribeOrder \/ UnsubscribeOrder
              \/ TradeConnect \/ TradeDrop \/ StreamConnect \/ StreamDrop \/ DropAnswer
              \/ DropPush \/ RefreshPairs \/ UNCHANGED vars
       PROVE  order'.quote = Turnover(order.cum)'
  <2>1. order' = order
    BY <1>12 DEF PlaceOrder, CancelOrder, QueryOrder, SubscribeOrder, UnsubscribeOrder,
       TradeConnect, TradeDrop, StreamConnect, StreamDrop, DropAnswer, DropPush, RefreshPairs,
       vars, orderVars
  <2> QED BY <1>6, <2>1
<1>13. order'.quote = Turnover(order.cum)'
  BY <1>7, <1>8, <1>9, <1>10, <1>11, <1>12 DEF Next, Handlers
<1> QED BY <1>4, <1>13

\* Of a unified account, the quote amount of the order is what the contracts
\* in cum_deal_base cost (parse_unified_rtn_order, parse_unified_query_order).
THEOREM QuoteRight == Spec => []QuoteIsTurnover
<1>1. Init => NeverAhead /\ MessagesReached /\ QuoteInv
  <2> SUFFICES ASSUME Init PROVE NeverAhead /\ MessagesReached /\ QuoteInv
    OBVIOUS
  <2>1. PICK t \in Times : order = NewOrder(t)
    BY DEF Init
  <2>2. /\ order.cum = 0 /\ order.quote = 0 /\ order.status = "Created" /\ Traded = 0
        /\ Messages = {}
    <3>1. Messages = {} /\ Traded = 0
      BY DEF Init, Traded, Messages, Elements
    <3> QED BY <2>1, <3>1 DEF NewOrder
  <2>3. NeverAhead /\ MessagesReached
    BY <2>2 DEF NeverAhead, MessagesReached, AllReached
  <2>4. Turnover(0) = 0 /\ \A n \in 0 .. 0 : n = 0
    BY DEF Turnover
  <2> QED BY <2>2, <2>3, <2>4 DEF QuoteInv, Rising
<1>2. QuoteInv => QuoteIsTurnover
  BY DEF QuoteInv, QuoteIsTurnover
<1> QED BY <1>1, <1>2, TypeCorrect, ReachedStep, QuoteStep, PTL DEF Spec

-----------------------------------------------------------------------------
(* The fills carry the prices of the trades                                *)

\* The matches among the pushes tell every amount above low up to high, each
\* once and in its order.
Ordered(seq, low, high) ==
  /\ \A i \in DOMAIN seq : seq[i].cum > 0 => seq[i].cum \in low + 1 .. high
  /\ \A i, j \in DOMAIN seq :
       i < j /\ seq[i].cum > 0 /\ seq[j].cum > 0 => seq[i].cum < seq[j].cum
  /\ \A c \in low + 1 .. high : \E i \in DOMAIN seq : seq[i].cum = c

\* Each fill is of one contract, at the price of that contract.
FillsPriced ==
  \A i \in DOMAIN fills :
    /\ fills[i].to \in 1 .. order.cum /\ fills[i].from = fills[i].to - 1
    /\ fills[i].price = TradePrice(fills[i].to)

\* A classic account that neither failed, missed a push, parsed one without the
\* pair's denomination nor queried takes the contracts one by one, each at its
\* price.
OneByOne ==
  /\ queries = {} /\ snapshots = {}
  /\ Ordered(pushes, order.cum, Traded)
  /\ \A v \in Elements(pushes) : v.cum > 0 => v.avg = TradePrice(v.cum)
  /\ FillsPriced
Undisturbed == mode = "CLASSIC" /\ ~failed /\ ~missed /\ ~unscaled /\ asked = 0
PriceInv == Undisturbed => OneByOne

\* A push without amounts changes nothing of the order of the matches, a match
\* is one more, and the first match tells the next amount.
LEMMA AppendSilent ==
  ASSUME NEW low \in Nat, NEW high \in Nat, NEW seq \in Seq(ViewType), Ordered(seq, low, high),
         NEW v \in ViewType, v.cum = 0
  PROVE  Ordered(Append(seq, v), low, high)
<1> DEFINE k == Len(seq)
           both == Append(seq, v)
<1>1. /\ k \in Nat /\ DOMAIN seq = 1 .. k /\ DOMAIN both = 1 .. k + 1
      /\ \A i \in 1 .. k : both[i] = seq[i]
      /\ both[k + 1] = v
  OBVIOUS
<1> HIDE DEF k, both
<1>2. \A i \in 1 .. k + 1 : i \in 1 .. k \/ i = k + 1
  BY <1>1
<1>3. \A i \in 1 .. k : i \in 1 .. k + 1
  BY <1>1
<1>4. \A i \in DOMAIN both : both[i].cum > 0 => i \in 1 .. k
  BY <1>1, <1>2
<1> QED BY <1>1, <1>3, <1>4 DEF Ordered, both

LEMMA AppendMatch ==
  ASSUME NEW low \in Nat, NEW high \in Nat, low <= high,
         NEW seq \in Seq(ViewType), Ordered(seq, low, high), NEW v \in ViewType, v.cum = high + 1
  PROVE  Ordered(Append(seq, v), low, high + 1)
<1> DEFINE k == Len(seq)
           both == Append(seq, v)
<1>1. /\ k \in Nat /\ DOMAIN seq = 1 .. k /\ DOMAIN both = 1 .. k + 1
      /\ \A i \in 1 .. k : both[i] = seq[i]
      /\ both[k + 1] = v
  OBVIOUS
<1> HIDE DEF k, both
<1>2. \A i \in 1 .. k + 1 : i \in 1 .. k \/ i = k + 1
  BY <1>1
<1>3. k + 1 \in 1 .. k + 1 /\ \A i \in 1 .. k : i \in 1 .. k + 1
  BY <1>1
<1>4. ASSUME NEW i \in 1 .. k + 1, both[i].cum > 0 PROVE both[i].cum \in low + 1 .. high + 1
  <2>1. CASE i \in 1 .. k
    <3>1. seq[i].cum \in low + 1 .. high
      BY <1>1, <1>4, <2>1 DEF Ordered
    <3> QED BY <1>1, <2>1, <3>1
  <2>2. CASE i = k + 1
    BY <1>1, <2>2
  <2> QED BY <1>2, <2>1, <2>2
<1>5. ASSUME NEW i \in 1 .. k + 1, NEW j \in 1 .. k + 1, i < j, both[i].cum > 0, both[j].cum > 0
      PROVE  both[i].cum < both[j].cum
  <2>1. i \in 1 .. k
    BY <1>1, <1>5
  <2>2. CASE j \in 1 .. k
    BY <1>1, <1>5, <2>1, <2>2 DEF Ordered
  <2>3. CASE j = k + 1
    <3>1. seq[i].cum \in low + 1 .. high
      BY <1>1, <1>5, <2>1 DEF Ordered
    <3> QED BY <1>1, <2>1, <2>3, <3>1
  <2> QED BY <1>2, <2>2, <2>3
<1>6. ASSUME NEW c \in low + 1 .. high + 1 PROVE \E i \in 1 .. k + 1 : both[i].cum = c
  <2>1. CASE c \in low + 1 .. high
    <3>1. PICK i \in 1 .. k : seq[i].cum = c
      BY <1>1, <2>1 DEF Ordered
    <3> QED BY <1>1, <1>3, <3>1
  <2>2. CASE c = high + 1
    BY <1>1, <1>3, <2>2
  <2> QED BY <2>1, <2>2
<1> QED BY <1>1, <1>4, <1>5, <1>6 DEF Ordered, both

LEMMA TailOrdered ==
  ASSUME NEW low \in Nat, NEW high \in Nat, NEW seq \in Seq(ViewType), seq # <<>>,
         Ordered(seq, low, high)
  PROVE  IF Head(seq).cum = 0 THEN Ordered(Tail(seq), low, high)
         ELSE Head(seq).cum = low + 1 /\ low + 1 <= high /\ Ordered(Tail(seq), low + 1, high)
<1> DEFINE k == Len(seq)
           rest == Tail(seq)
<1>1. /\ k \in Nat \ {0} /\ DOMAIN seq = 1 .. k /\ DOMAIN rest = 1 .. k - 1
      /\ \A i \in 1 .. k - 1 : rest[i] = seq[i + 1]
      /\ Head(seq) = seq[1] /\ \A i \in 1 .. k : seq[i] \in ViewType
  OBVIOUS
<1> HIDE DEF k, rest
<1>2. \A i \in 1 .. k : seq[i].cum \in Nat
  BY <1>1, QtyAssumption DEF ViewType
<1>3. \A i \in 1 .. k - 1 : i + 1 \in 1 .. k /\ 1 < i + 1
  BY <1>1
<1>4. \A i \in 1 .. k : i = 1 \/ (i - 1 \in 1 .. k - 1 /\ rest[i - 1] = seq[i])
  <2> SUFFICES ASSUME NEW i \in 1 .. k, i # 1 PROVE i - 1 \in 1 .. k - 1 /\ rest[i - 1] = seq[i]
    OBVIOUS
  <2>1. i - 1 \in 1 .. k - 1 /\ i - 1 + 1 = i
    BY <1>1
  <2> QED BY <1>1, <2>1
<1>5. \A i, j \in 1 .. k - 1 :
        i < j /\ rest[i].cum > 0 /\ rest[j].cum > 0 => rest[i].cum < rest[j].cum
  <2> SUFFICES ASSUME NEW i \in 1 .. k - 1, NEW j \in 1 .. k - 1,
                      i < j, rest[i].cum > 0, rest[j].cum > 0
               PROVE  rest[i].cum < rest[j].cum
    OBVIOUS
  <2>1. i + 1 \in 1 .. k /\ j + 1 \in 1 .. k /\ i + 1 < j + 1
    BY <1>1
  <2>2. rest[i] = seq[i + 1] /\ rest[j] = seq[j + 1]
    BY <1>1
  <2>3. seq[i + 1].cum > 0 /\ seq[j + 1].cum > 0
    BY <2>2
  <2>4. seq[i + 1].cum < seq[j + 1].cum
    BY <1>1, <2>1, <2>3 DEF Ordered
  <2> QED BY <2>2, <2>4
<1>6. \A i \in 1 .. k - 1 : rest[i].cum > 0 => rest[i].cum \in low + 1 .. high
  BY <1>1, <1>3 DEF Ordered
<1>7. CASE Head(seq).cum = 0
  <2>1. ASSUME NEW c \in low + 1 .. high PROVE \E i \in 1 .. k - 1 : rest[i].cum = c
    <3>1. PICK i \in 1 .. k : seq[i].cum = c
      BY <1>1 DEF Ordered
    <3>2. i # 1
      BY <1>1, <1>7, <3>1
    <3> QED BY <1>4, <3>1, <3>2
  <2>2. Ordered(rest, low, high)
    BY <1>1, <1>5, <1>6, <2>1 DEF Ordered
  <2> QED BY <1>7, <2>2 DEF rest
<1>8. CASE Head(seq).cum # 0
  <2>1. Head(seq).cum \in low + 1 .. high /\ 1 \in 1 .. k
    BY <1>1, <1>2, <1>8 DEF Ordered
  <2>2. Head(seq).cum = low + 1
    <3> SUFFICES ASSUME Head(seq).cum > low + 1 PROVE FALSE
      BY <2>1
    <3>1. low + 1 \in low + 1 .. high
      BY <2>1
    <3>2. PICK i \in 1 .. k : seq[i].cum = low + 1
      BY <1>1, <3>1 DEF Ordered
    <3>3. i # 1 /\ 1 < i
      BY <1>1, <3>2
    <3>4. seq[1].cum > low + 1 /\ seq[1].cum \in Nat /\ seq[i].cum > 0
      BY <1>1, <1>2, <2>1, <3>2
    <3>5. \A m \in 1 .. k : 1 < m /\ seq[1].cum > 0 /\ seq[m].cum > 0 => seq[1].cum < seq[m].cum
      BY <1>1, <2>1 DEF Ordered
    <3>6. seq[1].cum > 0
      BY <1>1, <2>1
    <3>7. seq[1].cum < seq[i].cum
      BY <3>2, <3>3, <3>4, <3>5, <3>6
    <3> QED BY <3>2, <3>4, <3>7
  <2>3. \A i \in 1 .. k - 1 : rest[i].cum > 0 => rest[i].cum \in low + 1 + 1 .. high
    <3> SUFFICES ASSUME NEW i \in 1 .. k - 1, rest[i].cum > 0
                 PROVE  rest[i].cum \in low + 1 + 1 .. high
      OBVIOUS
    <3>1. i + 1 \in 1 .. k /\ 1 < i + 1 /\ seq[1].cum > 0
      BY <1>1, <2>1
    <3>2. seq[1].cum < seq[i + 1].cum
      BY <1>1, <2>1, <3>1 DEF Ordered
    <3> QED BY <1>1, <1>6, <2>2, <3>2
  <2>4. ASSUME NEW c \in low + 1 + 1 .. high PROVE \E i \in 1 .. k - 1 : rest[i].cum = c
    <3>1. c \in low + 1 .. high
      OBVIOUS
    <3>2. PICK i \in 1 .. k : seq[i].cum = c
      BY <1>1, <3>1 DEF Ordered
    <3>3. i # 1
      BY <1>1, <2>2, <3>2
    <3> QED BY <1>4, <3>2, <3>3
  <2>5. Ordered(rest, low + 1, high)
    BY <1>1, <1>5, <2>3, <2>4 DEF Ordered
  <2> QED BY <1>8, <2>1, <2>2, <2>5 DEF rest
<1> QED BY <1>7, <1>8

\* What was traded keeps its price.
LEMMA TradePriceKept ==
  ASSUME TypeOK, [Next]_vars, NEW c \in 1 .. Traded
  PROVE  TradePrice(c)' = TradePrice(c)
<1>1. Traded \in Nat
  BY TurnoverType DEF TypeOK
<1>2. PICK b : b = c - 1
  OBVIOUS
<1>3. b \in 0 .. Traded /\ c \in 0 .. Traded
  BY <1>1, <1>2
<1>4. Turnover(b)' = Turnover(b) /\ Turnover(c)' = Turnover(c)
  BY <1>3, TurnoverKept
<1>5. TradePrice(c) = <<Turnover(c) - Turnover(b), 1>> /\ TradePrice(c)' = <<Turnover(c)' - Turnover(b)', 1>>
  BY <1>2 DEF TradePrice, Turnover
<1> QED BY <1>4, <1>5

\* A disturbance lasts.
LEMMA UndisturbedBefore ==
  ASSUME TypeOK, [Next]_vars, Undisturbed'
  PROVE  Undisturbed /\ asked' = asked
<1>1. mode = "CLASSIC" /\ ~failed' /\ ~missed' /\ ~unscaled' /\ asked' = 0
  BY TurnoverKept DEF Undisturbed
<1>2. ASSUME UNCHANGED <<failed, missed, unscaled, asked>> PROVE Undisturbed /\ asked' = asked
  BY <1>1, <1>2 DEF Undisturbed
<1>3. ASSUME NEW views, Push(views), UNCHANGED <<failed, unscaled, asked>>
      PROVE  Undisturbed /\ asked' = asked
  <2>1. ~missed
    BY <1>1, <1>3, Zenon DEF Push
  <2> QED BY <1>1, <1>3, <2>1 DEF Undisturbed
<1>4. CASE QueryOrder
  <2>1. asked \in Nat /\ asked' = asked + 1
    <3>1. asked \in 0 .. MaxQueries
      BY DEF TypeOK, QueryTypeOK
    <3>2. asked' = asked + 1
      BY <1>4 DEF QueryOrder
    <3> QED BY <3>1, <3>2
  <2> QED BY <1>1, <2>1
<1>5. CASE PlaceUnknownPair \/ \E t \in Times : FailQuery(t)
  BY <1>1, <1>5 DEF PlaceUnknownPair, FailQuery
<1>6. ASSUME NEW t \in Times, ReceiveAnswer(t) PROVE Undisturbed /\ asked' = asked
  <2>1. UNCHANGED <<missed, unscaled, asked>>
    BY <1>6 DEF ReceiveAnswer, streamVars, queryVars, pairVars
  <2>2. ~failed
    <3>1. \/ failed' = (failed \/ Head(answers).ok = "no") \/ failed' = failed
      BY <1>6 DEF ReceiveAnswer
    <3> QED BY <1>1, <3>1, Zenon
  <2> QED BY <1>1, <2>1, <2>2 DEF Undisturbed
<1>7. ASSUME NEW t \in Times, ReceivePush(t) PROVE Undisturbed /\ asked' = asked
  <2>1. unscaled' = (unscaled \/ Denominated(Head(pushes)).cum # Head(pushes).cum)
    BY <1>7 DEF ReceivePush, Parse
  <2>2. ~unscaled
    BY <1>1, <2>1, Zenon
  <2>3. UNCHANGED <<missed, failed, asked>>
    BY <1>7 DEF ReceivePush, queryVars
  <2> QED BY <1>1, <2>2, <2>3 DEF Undisturbed
<1>8. CASE StreamDrop
  <2>1. ~missed
    BY <1>1, <1>8, Zenon DEF StreamDrop
  <2>2. UNCHANGED <<failed, unscaled, asked>>
    BY <1>8 DEF StreamDrop, orderVars, queryVars, pairVars
  <2> QED BY <1>1, <2>1, <2>2 DEF Undisturbed
<1>9. CASE Exchange
  <2>1. CASE ExchangeAccepts \/ ExchangeCancels \/ \E p \in Prices : ExchangeMatches(p)
    BY <1>3, <2>1 DEF ExchangeAccepts, ExchangeCancels, ExchangeMatches, orderVars, queryVars,
       pairVars
  <2>2. CASE ExchangeAcceptsCancel \/ ExchangeRefuses \/ \E q \in queries : ExchangeAnswersQuery(q)
    BY <1>2, <2>2 DEF ExchangeAcceptsCancel, ExchangeRefuses, ExchangeAnswersQuery, orderVars,
       streamVars, queryVars, pairVars
  <2> QED BY <1>9, <2>1, <2>2 DEF Exchange
<1>10. ASSUME NEW t \in Times, NEW a \in snapshots, ReceiveQuery(a, t)
       PROVE  Undisturbed /\ asked' = asked
  <2>1. unscaled' = (unscaled \/ Denominated(a.view).cum # a.view.cum)
    BY <1>10 DEF ReceiveQuery, Parse
  <2>2. ~unscaled
    BY <1>1, <2>1, Zenon
  <2>3. UNCHANGED <<missed, failed, asked>>
    BY <1>10 DEF ReceiveQuery, streamVars
  <2> QED BY <1>1, <2>2, <2>3 DEF Undisturbed
<1>11. CASE \/ PlaceOrder \/ CancelOrder \/ SubscribeOrder \/ UnsubscribeOrder
            \/ TradeConnect \/ TradeDrop \/ StreamConnect \/ DropAnswer \/ RefreshPairs
            \/ UNCHANGED vars
  BY <1>2, <1>11 DEF PlaceOrder, CancelOrder, SubscribeOrder, UnsubscribeOrder, TradeConnect,
     TradeDrop, StreamConnect, DropAnswer, RefreshPairs, vars, orderVars, streamVars, queryVars,
     pairVars
<1>12. CASE DropPush
  BY <1>1, <1>12 DEF DropPush
<1> QED BY <1>4, <1>5, <1>6, <1>7, <1>8, <1>9, <1>10, <1>11, <1>12 DEF Next, Handlers

\* A match that is taken becomes a fill of one contract at its price.
LEMMA FillTaken ==
  ASSUME TypeOK, NeverAhead, MessagesReached, Orderly, LastTradeKnown, OneByOne, [Next]_vars,
         NEW t \in Times, ReceivePush(t), ~unscaled'
  PROVE  Ordered(pushes', order'.cum, Traded') /\ FillsPriced'
<1>1. PICK v, w : v = Head(pushes) /\ w = Denominated(v)
  OBVIOUS
<1>2. /\ pushes # <<>> /\ pushes' = Tail(pushes) /\ UNCHANGED turnover
      /\ order' = Updated(order, Parsed(w, t))
      /\ fills' = UpdatedFills(order, fills, Parsed(w, t))
  BY <1>1 DEF ReceivePush, bookVars
<1>3. v \in ViewType /\ v \in Elements(pushes) /\ v \in Messages /\ pushes \in Seq(ViewType)
  <2>1. pushes \in Seq(ViewType) /\ v \in ViewType /\ v \in Elements(pushes)
    BY <1>1, <1>2 DEF TypeOK, StreamTypeOK, Elements
  <2> QED BY <2>1 DEF Messages
<1>4. order.cum \in Nat /\ Traded \in Nat /\ Traded' = Traded /\ v.cum \in Nat /\ order.cum <= Traded
  <2>1. order.cum \in 0 .. Qty /\ Traded \in 0 .. Qty /\ order.cum <= Traded
    BY Amounts
  <2> QED BY <1>2, <1>3, <2>1, QtyAssumption DEF Traded, ViewType
<1>5. v.status = "Filled" => v.cum = Qty \/ order.cum = Qty
  BY <1>1, <1>2, <1>3, JustifiedTail DEF LastTradeKnown
<1>6. w \in ViewType /\ w.status = v.status /\ w.cum = v.cum /\ w.avg = v.avg
  <2>1. unscaled' = (unscaled \/ w.cum # v.cum)
    BY <1>1 DEF ReceivePush, Parse
  <2>2. w.cum = v.cum
    BY <2>1, Zenon
  <2> QED BY <1>1, <1>3, <2>2, DenominatedView
<1>7. Reached(Traded, book, w.status, w.cum) /\ w.status \notin {"Failed", "Amending"}
  BY <1>3, <1>6 DEF MessagesReached, AllReached, Orderly
<1>8. order'.cum = Larger(order.cum, v.cum)
  BY <1>2, <1>5, <1>6, <1>7, AbsorbArrives
<1>9. IF v.cum = 0 THEN Ordered(pushes', order.cum, Traded)
      ELSE v.cum = order.cum + 1 /\ v.cum <= Traded /\ Ordered(pushes', order.cum + 1, Traded)
  BY <1>1, <1>2, <1>3, <1>4, TailOrdered DEF OneByOne
<1>10. CASE v.cum = 0
  <2>1. order'.cum = order.cum
    BY <1>4, <1>8, <1>10 DEF Larger
  <2>2. fills' = fills
    BY <1>2, <1>4, <1>10, <1>6 DEF UpdatedFills, Parsed
  <2>3. FillsPriced'
    BY <1>2, <2>1, <2>2 DEF OneByOne, FillsPriced, TradePrice, Turnover
  <2> QED BY <1>4, <1>9, <1>10, <2>1, <2>3
<1>11. CASE v.cum # 0
  <2>1. v.cum = order.cum + 1 /\ v.cum \in 1 .. Traded /\ order'.cum = v.cum
    BY <1>4, <1>8, <1>9, <1>11 DEF Larger
  <2>2. v.avg = TradePrice(v.cum) /\ TradePrice(v.cum)' = TradePrice(v.cum)
    BY <1>3, <1>11, <2>1, TradePriceKept DEF OneByOne
  <2>3. Transits(order, Parsed(w, t))
    <3>1. order' = order => FALSE
      BY <1>4, <2>1
    <3>2. \/ order'.cum = order.cum /\ ~Transits(order, Parsed(w, t))
          \/ Transits(order, Parsed(w, t))
      BY <1>2, <1>6, UpdatedFields DEF TypeOK, OrderTypeOK
    <3> QED BY <1>4, <2>1, <3>2
  <2>4. PICK f : f = [from |-> order.cum, to |-> v.cum, price |-> v.avg]
    OBVIOUS
  <2>5. fills' = Append(fills, f)
    BY <1>2, <1>4, <1>6, <2>1, <2>3, <2>4 DEF UpdatedFills, Parsed
  <2>6. f.to = v.cum /\ f.from = v.cum - 1 /\ f.price = TradePrice(v.cum)'
    BY <1>4, <2>1, <2>2, <2>4
  <2>7. /\ DOMAIN fills' = 1 .. Len(fills) + 1 /\ DOMAIN fills = 1 .. Len(fills)
        /\ \A i \in 1 .. Len(fills) : fills'[i] = fills[i]
        /\ fills'[Len(fills) + 1] = f /\ Len(fills) \in Nat
    BY <2>5 DEF TypeOK, OrderTypeOK
  <2>8. ASSUME NEW i \in DOMAIN fills'
        PROVE  /\ fills'[i].to \in 1 .. order'.cum /\ fills'[i].from = fills'[i].to - 1
               /\ fills'[i].price = TradePrice(fills[i].to)'
    <3>1. CASE i \in 1 .. Len(fills)
      <4>1. PICK c : c = fills[i].to
        OBVIOUS
      <4>2. c \in 1 .. order.cum /\ fills[i].from = c - 1 /\ fills[i].price = TradePrice(c)
        BY <2>7, <3>1, <4>1 DEF OneByOne, FillsPriced
      <4>3. c \in 1 .. Traded /\ c \in 1 .. order'.cum
        BY <1>4, <2>1, <4>2
      <4>4. TradePrice(c)' = TradePrice(c)
        BY <4>3, TradePriceKept
      <4>5. fills'[i].to = c /\ fills'[i].from = c - 1 /\ fills'[i].price = TradePrice(c)'
        BY <2>7, <3>1, <4>1, <4>2, <4>4
      <4> QED BY <4>3, <4>5 DEF TradePrice, Turnover
    <3>2. CASE i = Len(fills) + 1
      <4>1. v.cum \in 1 .. order'.cum
        BY <1>4, <2>1
      <4>2. /\ fills'[i].to = v.cum /\ fills'[i].from = v.cum - 1
            /\ fills'[i].price = TradePrice(v.cum)'
        BY <2>6, <2>7, <3>2
      <4> QED BY <4>1, <4>2 DEF TradePrice, Turnover
    <3> QED BY <2>7, <3>1, <3>2
  <2>9. FillsPriced'
    BY <2>8 DEF FillsPriced
  <2> QED BY <1>4, <1>9, <1>11, <2>1, <2>9
<1> QED BY <1>10, <1>11

\* Every step of an undisturbed order takes the contracts one by one.
LEMMA PriceStep ==
  TypeOK /\ NeverAhead /\ MessagesReached /\ Orderly /\ Arriving /\ PriceInv /\ [Next]_vars
    => PriceInv'
<1> SUFFICES ASSUME TypeOK, NeverAhead, MessagesReached, Orderly, Arriving, PriceInv, [Next]_vars,
                    Undisturbed'
             PROVE  OneByOne'
  BY DEF PriceInv
<1>1. Undisturbed /\ asked' = asked /\ OneByOne /\ LastTradeKnown
  BY UndisturbedBefore DEF PriceInv, Arriving, Undisturbed
<1>2. /\ queries = {} /\ snapshots = {} /\ asked' = asked /\ asked \in Nat /\ mode = "CLASSIC"
      /\ ~failed' /\ ~missed' /\ ~unscaled'
  BY <1>1, TurnoverKept DEF OneByOne, Undisturbed
<1>3. ~QueryOrder /\ ~PlaceUnknownPair /\ \A t \in Times : ~FailQuery(t)
  <2>1. ~QueryOrder
    <3> SUFFICES ASSUME QueryOrder PROVE FALSE
      OBVIOUS
    <3>1. asked' = asked + 1
      BY DEF QueryOrder
    <3>2. asked' = asked /\ asked \in Nat
      BY <1>2
    <3> QED BY <3>1, <3>2
  <2>2. ~PlaceUnknownPair
    BY <1>2 DEF PlaceUnknownPair
  <2>3. \A t \in Times : ~FailQuery(t)
    BY <1>2 DEF FailQuery
  <2> QED BY <2>1, <2>2, <2>3
<1>4. queries' = {} /\ snapshots' = {}
  BY <1>2, <1>3 DEF Next, Exchange, Handlers, PlaceOrder, CancelOrder, SubscribeOrder,
     UnsubscribeOrder, TradeConnect, TradeDrop, StreamConnect, StreamDrop, ExchangeAccepts,
     ExchangeAcceptsCancel, ExchangeRefuses, ExchangeCancels, ExchangeMatches,
     ExchangeAnswersQuery, ReceiveAnswer, ReceivePush, ReceiveQuery, DropAnswer, DropPush,
     RefreshPairs, vars, queryVars
<1>5. order.cum \in Nat /\ Traded \in Nat /\ Traded' \in Nat /\ order.cum <= Traded
  <2>1. order.cum \in 0 .. Qty /\ Traded \in 0 .. Qty /\ order.cum <= Traded
    BY Amounts
  <2>2. Traded' \in 0 .. Qty
    BY TypeStep, TurnoverType DEF TypeOK, BookTypeOK, Traded
  <2> QED BY <2>1, <2>2, QtyAssumption
<1>6. ASSUME NEW v \in Elements(pushes'), v.cum > 0 PROVE v.avg = TradePrice(v.cum)'
  <2>1. v \in Messages'
    BY <1>6 DEF Messages, Elements
  <2>2. CASE v \in Messages
    <3>1. v \in Elements(pushes) /\ v \in ViewType
      BY <1>2, <2>2 DEF Messages, Elements, TypeOK, StreamTypeOK
    <3>2. v.cum \in 1 .. Traded
      BY <1>5, <1>6, <2>2, <3>1, QtyAssumption DEF MessagesReached, AllReached, Reached, ViewType
    <3> QED BY <1>1, <1>6, <3>1, <3>2, TradePriceKept DEF OneByOne
  <2>3. CASE v \notin Messages
    <3>1. v.cum = Traded' /\ v.avg = LastPrice'
      BY <1>2, <1>6, <2>1, <2>3, NewMessages DEF Tells
    <3> QED BY <3>1 DEF LastPrice, TradePrice, Turnover
  <2> QED BY <2>2, <2>3
<1>7. SUFFICES Ordered(pushes', order'.cum, Traded') /\ FillsPriced'
  <2>1. \A v \in Elements(pushes)' : v.cum > 0 => v.avg = TradePrice(v.cum)'
    BY <1>6 DEF Elements
  <2> QED BY <1>4, <1>7, <2>1 DEF OneByOne
<1>8. ASSUME order'.cum = order.cum, fills' = fills PROVE FillsPriced'
  <2> SUFFICES ASSUME NEW i \in DOMAIN fills
               PROVE  /\ fills[i].to \in 1 .. order.cum /\ fills[i].from = fills[i].to - 1
                      /\ fills[i].price = TradePrice(fills[i].to)'
    BY <1>8 DEF FillsPriced, TradePrice, Turnover
  <2>1. PICK c : c = fills[i].to
    OBVIOUS
  <2>2. c \in 1 .. order.cum /\ fills[i].from = c - 1 /\ fills[i].price = TradePrice(c)
    BY <1>1, <2>1 DEF OneByOne, FillsPriced
  <2>3. c \in 1 .. Traded
    BY <1>5, <2>2
  <2>4. TradePrice(c)' = TradePrice(c)
    BY <2>3, TradePriceKept
  <2>5. fills[i].price = TradePrice(c)'
    BY <2>2, <2>4
  <2> QED BY <1>8, <2>1, <2>2, <2>5 DEF TradePrice, Turnover
<1>9. ASSUME order'.cum = order.cum, UNCHANGED <<fills, pushes, turnover>>
      PROVE  Ordered(pushes', order'.cum, Traded') /\ FillsPriced'
  <2>1. Traded' = Traded
    BY <1>9 DEF Traded
  <2> QED BY <1>1, <1>8, <1>9, <2>1 DEF OneByOne
<1>10. ASSUME NEW views \in Seq(ViewType), Push(views) PROVE pushes' = pushes \o views
  <2>1. subscribed # "no"
    BY <1>2, <1>10, Zenon DEF Push
  <2> QED BY <1>10, <2>1 DEF Push, TypeOK, StreamTypeOK
<1>11. pushes \in Seq(ViewType)
  BY DEF TypeOK, StreamTypeOK
<1>12. ASSUME NEW s \in {"New", "Canceled"}, Push(<<OtherView(s)>>),
              UNCHANGED <<order, fills, turnover>>
       PROVE  Ordered(pushes', order'.cum, Traded') /\ FillsPriced'
  <2>1. PICK w : w = OtherView(s)
    OBVIOUS
  <2>2. w \in ViewType /\ w.cum = 0
    <3>1. w \in ViewType
      BY <1>12, <2>1, OtherViewType DEF TypeOK, OrderStatus
    <3> QED BY <1>2, <2>1, <3>1 DEF OtherView, ClassicOther, View, NoFill
  <2>3. pushes' = Append(pushes, w)
    <3>1. <<w>> \in Seq(ViewType) /\ pushes \o <<w>> = Append(pushes, w)
      BY <1>11, <2>2
    <3> QED BY <1>10, <1>12, <2>1, <3>1
  <2>4. Traded' = Traded
    BY <1>12 DEF Traded
  <2>5. Ordered(pushes', order.cum, Traded)
    BY <1>1, <1>5, <1>11, <2>2, <2>3, AppendSilent DEF OneByOne
  <2> QED BY <1>8, <1>12, <2>4, <2>5
<1>13. CASE ExchangeAccepts
  BY <1>12, <1>13 DEF ExchangeAccepts, orderVars
<1>14. CASE ExchangeCancels
  BY <1>12, <1>14 DEF ExchangeCancels, orderVars
<1>15. ASSUME NEW p \in Prices, ExchangeMatches(p)
       PROVE  Ordered(pushes', order'.cum, Traded') /\ FillsPriced'
  <2>1. PICK n, paid : n = Traded + 1 /\ paid = Turnover(Traded) + p
    OBVIOUS
  <2>2. n \in 1 .. Qty /\ paid \in Nat /\ Traded' = n
    BY <1>15, <2>1, MatchTurnover
  <2>3. PICK m, f : m = ClassicMatch(n, p) /\ f = ClassicOther("Filled")
    OBVIOUS
  <2>4. m \in ViewType /\ f \in ViewType
    BY <2>2, <2>3, ClassicMatchType, OtherViewType DEF TypeOK, OrderStatus
  <2>5. m.cum = n /\ f.cum = 0
    BY <2>3 DEF ClassicMatch, ClassicOther, View, NoFill
  <2>6. (Push(<<m, f>>) \/ Push(<<m>>)) /\ UNCHANGED <<order, fills>>
    BY <1>2, <1>15, <2>1, <2>3 DEF ExchangeMatches, orderVars
  <2>7. pushes' \in {Append(pushes, m), Append(Append(pushes, m), f)}
    <3>1. <<m, f>> \in Seq(ViewType) /\ <<m>> \in Seq(ViewType)
      BY <2>4
    <3>2. pushes' = pushes \o <<m, f>> \/ pushes' = pushes \o <<m>>
      BY <1>10, <2>6, <3>1
    <3>3. /\ pushes \o <<m>> = Append(pushes, m)
          /\ pushes \o <<m, f>> = Append(Append(pushes, m), f)
      BY <1>11, <2>4
    <3> QED BY <3>2, <3>3
  <2>8. Ordered(Append(pushes, m), order.cum, n) /\ Append(pushes, m) \in Seq(ViewType)
    BY <1>1, <1>5, <1>11, <2>1, <2>4, <2>5, AppendMatch DEF OneByOne
  <2>9. n \in Nat
    BY <2>2
  <2>10. Ordered(Append(Append(pushes, m), f), order.cum, n)
    BY <1>5, <2>4, <2>5, <2>8, <2>9, AppendSilent
  <2> QED BY <1>8, <2>2, <2>6, <2>7, <2>8, <2>10
<1>16. ASSUME NEW t \in Times, ReceiveAnswer(t)
       PROVE  Ordered(pushes', order'.cum, Traded') /\ FillsPriced'
  BY <1>9, <1>16 DEF ReceiveAnswer, streamVars, bookVars, TypeOK, OrderTypeOK, Order
<1>17. ASSUME NEW t \in Times, ReceivePush(t)
       PROVE  Ordered(pushes', order'.cum, Traded') /\ FillsPriced'
  BY <1>1, <1>2, <1>17, FillTaken
<1>18. CASE StreamDrop
  <2>1. pushes = <<>>
    BY <1>2, <1>18, Zenon DEF StreamDrop
  <2> QED BY <1>9, <1>18, <2>1 DEF StreamDrop, orderVars, bookVars
<1>19. CASE ExchangeAcceptsCancel \/ ExchangeRefuses
  BY <1>9, <1>19 DEF ExchangeAcceptsCancel, ExchangeRefuses, orderVars, streamVars, bookVars
<1>20. CASE \/ PlaceOrder \/ CancelOrder \/ SubscribeOrder \/ UnsubscribeOrder
            \/ TradeConnect \/ TradeDrop \/ StreamConnect \/ DropAnswer \/ RefreshPairs
            \/ UNCHANGED vars
  BY <1>9, <1>20 DEF PlaceOrder, CancelOrder, SubscribeOrder, UnsubscribeOrder,
     TradeConnect, TradeDrop, StreamConnect, DropAnswer, RefreshPairs, vars, orderVars, streamVars,
     bookVars
<1>21. ~DropPush
  BY <1>2 DEF DropPush
<1> QED
  BY <1>2, <1>3, <1>13, <1>14, <1>15, <1>16, <1>17, <1>18, <1>19, <1>20, <1>21
  DEF Next, Exchange, Handlers

\* Of a classic account whose pushes all came in, each parsed with the pair's
\* denomination, and that did not query, every fill carries the price at which its contracts traded (parse_classic_rtn_order
\* and Order::update).
THEOREM FillsPricedRight == Spec => []FillsHaveTradePrice
<1>1. Init => NeverAhead /\ MessagesReached /\ Orderly /\ Arriving /\ PriceInv
  <2> SUFFICES ASSUME Init PROVE NeverAhead /\ MessagesReached /\ Orderly /\ Arriving /\ PriceInv
    OBVIOUS
  <2>1. PICK t \in Times : order = NewOrder(t)
    BY DEF Init
  <2>2. order.cum = 0 /\ order.status = "Created" /\ Traded = 0 /\ book = "none"
    BY <2>1 DEF NewOrder, Init, Traded
  <2>3. Messages = {} /\ snapshots = {} /\ pushes = <<>> /\ queries = {} /\ fills = <<>>
    BY DEF Init, Messages, Elements
  <2>4. NeverAhead /\ MessagesReached /\ Orderly /\ Arriving
    BY <2>2, <2>3
       DEF NeverAhead, MessagesReached, AllReached, Orderly, Arriving, LastTradeKnown, Justified
  <2>5. Ordered(<<>>, 0, 0) /\ Elements(<<>>) = {}
    BY DEF Ordered, Elements
  <2> QED BY <2>2, <2>3, <2>4, <2>5 DEF PriceInv, OneByOne, FillsPriced
<1>2. TypeOK /\ PriceInv => FillsHaveTradePrice
  <2> SUFFICES ASSUME TypeOK, OneByOne, NEW i \in DOMAIN fills
               PROVE  fills[i].price[1] * (fills[i].to - fills[i].from) =
                        fills[i].price[2] * (Turnover(fills[i].to) - Turnover(fills[i].from))
    BY DEF PriceInv, Undisturbed, FillsHaveTradePrice
  <2>1. PICK c, b : c = fills[i].to /\ b = fills[i].from
    OBVIOUS
  <2>2. c \in Nat /\ b \in Nat
    <3>1. fills \in Seq(Fill)
      BY DEF TypeOK, OrderTypeOK
    <3>2. fills[i] \in Fill
      BY <3>1
    <3> QED BY <2>1, <3>2 DEF Fill
  <2>3. b = c - 1 /\ fills[i].price = <<Turnover(c) - Turnover(b), 1>>
    BY <2>1 DEF OneByOne, FillsPriced, TradePrice
  <2>4. PICK d : d = Turnover(c) - Turnover(b)
    OBVIOUS
  <2>5. fills[i].price \in Price
    <3>1. fills \in Seq(Fill)
      BY DEF TypeOK, OrderTypeOK
    <3>2. fills[i] \in Fill
      BY <3>1
    <3> QED BY <3>2 DEF Fill
  <2>6. d \in Nat /\ fills[i].price[1] = d /\ fills[i].price[2] = 1
    BY <2>3, <2>4, <2>5 DEF Price
  <2>7. c - b = 1 /\ d * 1 = 1 * d
    BY <2>2, <2>3, <2>6
  <2> QED BY <2>1, <2>4, <2>6, <2>7
<1> QED BY <1>1, <1>2, TypeCorrect, ReachedStep, OrderlyStep, ArrivingStep, PriceStep, PTL DEF Spec
=============================================================================
