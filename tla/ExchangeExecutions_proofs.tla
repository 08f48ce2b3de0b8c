----------------------- MODULE ExchangeExecutions_proofs -----------------------
(* For any number of calls and faults, on all five exchanges: every request    *)
(* is answered to its caller once or is still owed, and a null order is handed *)
(* out only after the tables were emptied.  An action does one of seven things *)
(* to the requests (RequestStep), which is shown of each exchange in turn.     *)
(*                                                                             *)
(* The second part is about the order and its subscription.  An action makes   *)
(* one of nine moves (Moves), again shown of each exchange in turn; a move     *)
(* keeps what the order and those who tell it know of the exchange (Told) and  *)
(* what the subscription rests on (Wired).                                     *)
EXTENDS ExchangeExecutions, SequenceTheorems, TLAPS

\* The requests' part of RequestsAccountedFor.
Counted ==
  /\ \A u \in 1 .. MaxCalls :
       /\ calls[u] = (IF u <= uid /\ u \notin waiting THEN 1 ELSE 0)
       /\ u \in waiting => u \in lost \/ \E r \in sent \cup answers : r.uid = u
  /\ lost # {} => ex = "hyperliquid"

\* What is on its way belongs to a request that is still owed: otherwise its
\* answer could be a second one.
RInv ==
  /\ uid \in Nat /\ subscribes \in Nat /\ uid + subscribes <= MaxCalls
  /\ calls \in [1 .. MaxCalls -> Nat]
  /\ waiting \subseteq 1 .. uid
  /\ \A r \in sent \cup answers : r.uid \in waiting
  /\ Counted

\* What goes down with a connection, or is thrown away unread.
Gone ==
  /\ sent' \subseteq sent /\ answers' \subseteq answers
  /\ \A r \in (sent \cup answers) \ (sent' \cup answers') :
       OverWs(r.op) /\ r.uid \in lost'
  /\ lost \subseteq lost'
  /\ lost' # lost => ex = "hyperliquid"
  /\ UNCHANGED <<uid, waiting, calls>>

\* One action, as far as the requests can tell.  Only edgex may hand out a
\* null order; an order stays placed.
RequestStep ==
  /\ ex' = ex
  /\ ex # "edgex" => crashed' = crashed
  /\ placed' \in {placed, TRUE} /\ pairs' \in {pairs, TRUE, FALSE}
  /\ refreshes' \in {refreshes, refreshes + 1}
  /\ \/ UNCHANGED requestVars /\ subscribes' = subscribes
     \/ UNCHANGED requestVars /\ MoreCalls /\ subscribes' = subscribes + 1
     \/ (\E op : Request(op)) /\ subscribes' = subscribes
     \/ (\E op : HyperliquidSend(op)) /\ subscribes' = subscribes
     \/ (\E u \in waiting : Complete(u)) /\ subscribes' = subscribes
     \/ (\E r \in sent, ok \in BOOLEAN : Answer(r, ok)) /\ subscribes' = subscribes
     \/ Gone /\ subscribes' = subscribes

-----------------------------------------------------------------------------
(* The actions the exchanges share                                          *)

\* A failed request, or an answer that is written to the order.
LEMMA Completes ==
  ASSUME RInv,
         \/ \E u \in waiting : \E t : FailRequest(u, t)
         \/ \E a \in answers : \E t : FailRequest(a.uid, t)
         \/ \E a \in answers : \E o : Absorb(a, o)
  PROVE  RequestStep
BY DEF RInv, FailRequest, Absorb, RequestStep, marketVars, subVars, orderVars, tableVars

\* A request over REST, or none for a pair that is not known.
LEMMA Requests ==
  ASSUME PlaceOverRest \/ (\E op : OverRest(op)) \/ PairUnknown
  PROVE  RequestStep
BY DEF PlaceOverRest, OverRest, PairUnknown, RequestStep, marketVars, subVars, orderVars, tableVars

\* A push.
LEMMA Pushes ==
  ASSUME NextPush,
         \/ \E view : Dispatch(view)
         \/ UNCHANGED <<orderVars, subVars>>
         \/ ex = "edgex" /\ NullOrder /\ UNCHANGED subVars
  PROVE  RequestStep
BY DEF NextPush, Dispatch, NullOrder, RequestStep, marketVars, subVars, orderVars, tableVars

\* The steps of the connection, the tables and the exchange.
LEMMA CommonStep == ASSUME RInv, CommonNext PROVE RequestStep
<1>1. CASE RefreshPairs \/ Connected \/ ConnectFails \/ ExpireKey
  BY <1>1 DEF RefreshPairs, Connected, ConnectFails, ExpireKey, RequestStep, marketVars,
              subVars, orderVars, tableVars
<1>2. CASE Match \/ \E b \in {"canceled", "expired"} : End(b)
  BY <1>2 DEF Match, End, Becomes, RequestStep, orderVars, tableVars
<1>3. CASE RequestsAtExchange
  BY <1>3 DEF RequestsAtExchange, AcceptOrder, AcceptCancel, AnswerQuery, Refuse, Becomes,
              RequestStep, marketVars, subVars, orderVars, tableVars
<1>4. ASSUME NEW next, Disconnect(next) PROVE RequestStep
  <2>1. Gone
    BY <1>4 DEF Disconnect, Gone, OverWs
  <2> QED BY <1>4, <2>1 DEF Disconnect, RequestStep, marketVars, orderVars, tableVars
<1>5. CASE Drop \/ Closed
  BY <1>5, <1>4 DEF Drop, Closed
<1>6. CASE \/ \E u \in waiting, t \in Times : RestFails(u, t)
           \/ \E a \in answers, t \in Times : AnswerRefuses(a, t)
  BY <1>6, Completes DEF RestFails, AnswerRefuses
<1> QED BY <1>1, <1>2, <1>3, <1>5, <1>6 DEF CommonNext

-----------------------------------------------------------------------------
(* The exchanges                                                            *)

\* Every step of Aster.
LEMMA AsterStep == ASSUME RInv, AsterNext PROVE RequestStep
<1>1. CASE AsterPlaceOrder \/ AsterCancelOrder \/ AsterQueryOrder
  BY <1>1, Requests DEF AsterPlaceOrder, AsterCancelOrder, AsterQueryOrder
<1>2. CASE \/ AsterSubscribeWithoutKey
           \/ AsterSubscribeOrder
           \/ AsterUnsubscribeOrder
           \/ AsterKeyArrives
           \/ AsterKeyRenewed
  BY <1>2 DEF AsterSubscribeWithoutKey, AsterSubscribeOrder, AsterUnsubscribeOrder,
              AsterKeyArrives, AsterKeyRenewed, AsterUnsubscribe, RequestStep, marketVars,
              requestVars, subVars, orderVars, tableVars
<1>3. CASE AsterKeyExpired \/ \E t \in Times : AsterReceivePush(t)
  BY <1>3, Pushes DEF AsterKeyExpired, AsterReceivePush
<1>4. CASE \E a \in answers, t \in Times : AsterAnswered(a, t)
  BY <1>4, Completes DEF AsterAnswered
<1> QED BY <1>1, <1>2, <1>3, <1>4 DEF AsterNext

\* Every step of Toobit.
LEMMA ToobitStep == ASSUME RInv, ToobitNext PROVE RequestStep
<1>1. CASE ToobitPlaceUnknownPair \/ ToobitPlaceOrder \/ ToobitCancelOrder \/ ToobitQueryOrder
  BY <1>1, Requests DEF ToobitPlaceUnknownPair, ToobitPlaceOrder, ToobitCancelOrder,
                    ToobitQueryOrder
<1>2. CASE \/ ToobitPlaceTooSmall
           \/ ToobitSubscribeFails
           \/ ToobitSubscribeOrder
           \/ ToobitUnsubscribeOrder
           \/ ToobitKeyArrives
  BY <1>2 DEF ToobitPlaceTooSmall, ToobitSubscribeFails, ToobitSubscribeOrder,
              ToobitUnsubscribeOrder, ToobitKeyArrives, RequestStep, marketVars,
              requestVars, subVars, orderVars, tableVars
<1>3. CASE \E t \in Times : ToobitReceivePush(t)
  BY <1>3, Pushes DEF ToobitReceivePush
<1>4. CASE \E a \in answers, t \in Times : ToobitAnswered(a, t)
  BY <1>4, Completes DEF ToobitAnswered
<1> QED BY <1>1, <1>2, <1>3, <1>4 DEF ToobitNext

\* Every step of Phemex.
LEMMA PhemexStep == ASSUME RInv, PhemexNext PROVE RequestStep
<1>1. CASE PhemexPlaceUnknownPair \/ PhemexPlaceOrder \/ PhemexCancelOrder \/ PhemexQueryOrder
  BY <1>1, Requests DEF PhemexPlaceUnknownPair, PhemexPlaceOrder, PhemexCancelOrder,
                    PhemexQueryOrder
<1>2. CASE PhemexSubscribeOrder \/ PhemexUnsubscribeOrder
  BY <1>2 DEF PhemexSubscribeOrder, PhemexUnsubscribeOrder, RequestStep, marketVars,
              requestVars, subVars, orderVars, tableVars
<1>3. CASE \E t \in Times : PhemexReceivePush(t)
  BY <1>3, Pushes DEF PhemexReceivePush
<1>4. CASE \E a \in answers, t \in Times : PhemexAnswered(a, t) \/ PhemexOrderNotFound(a, t)
  BY <1>4, Completes DEF PhemexAnswered, PhemexOrderNotFound
<1> QED BY <1>1, <1>2, <1>3, <1>4 DEF PhemexNext

\* Every step of edgeX.
LEMMA EdgexStep == ASSUME RInv, EdgexNext PROVE RequestStep
<1>1. CASE EdgexPlaceUnknownPair \/ EdgexPlaceOrder \/ EdgexCancelOrder \/ EdgexQueryOrder
  BY <1>1, Requests DEF EdgexPlaceUnknownPair, EdgexPlaceOrder, EdgexCancelOrder,
                    EdgexQueryOrder
<1>2. CASE EdgexSubscribeOrder \/ EdgexUnsubscribeOrder \/ EdgexShutdown
  BY <1>2 DEF EdgexSubscribeOrder, EdgexUnsubscribeOrder, EdgexShutdown, RequestStep,
              marketVars, requestVars, subVars, orderVars, tableVars
<1>3. CASE \E t \in Times : EdgexReceivePush(t)
  BY <1>3, Pushes DEF EdgexReceivePush
<1>4. CASE \E a \in answers, t \in Times : EdgexAnswered(a, t)
  BY <1>4, Completes DEF EdgexAnswered
<1>5. CASE \E a \in answers : EdgexAnsweredNull(a)
  BY <1>5 DEF EdgexAnsweredNull, NullOrder, RequestStep, marketVars, subVars, orderVars, tableVars
<1> QED BY <1>1, <1>2, <1>3, <1>4, <1>5 DEF EdgexNext

\* Every step of Hyperliquid.
LEMMA HyperliquidStep == ASSUME RInv, HyperliquidNext PROVE RequestStep
<1>1. CASE HyperliquidPlaceUnknownPair \/ HyperliquidPlaceOrder \/ HyperliquidCancelOrder \/ HyperliquidQueryOrder
  BY <1>1, Requests DEF HyperliquidPlaceUnknownPair, HyperliquidPlaceOrder,
                    HyperliquidCancelOrder, HyperliquidQueryOrder, RequestStep,
                    marketVars, subVars, orderVars, tableVars
<1>2. CASE HyperliquidSubscribeOrder \/ HyperliquidUnsubscribeOrder \/ HyperliquidShutdown
  BY <1>2 DEF HyperliquidSubscribeOrder, HyperliquidUnsubscribeOrder, HyperliquidShutdown,
              RequestStep, marketVars, requestVars, subVars, orderVars, tableVars
<1>3. CASE \E t \in Times : HyperliquidReceivePush(t)
  BY <1>3, Pushes DEF HyperliquidReceivePush
<1>4. CASE \E a \in answers, t \in Times : HyperliquidAnswered(a, t) \/ HyperliquidCancelRefused(a, t)
  BY <1>4, Completes DEF HyperliquidAnswered, HyperliquidCancelRefused
<1>5. CASE \E a \in answers : HyperliquidUnread(a)
  <2>1. PICK a \in answers : HyperliquidUnread(a)
    BY <1>5
  <2>2. Gone
    BY <2>1 DEF HyperliquidUnread, Gone, OverWs
  <2> QED BY <2>1, <2>2 DEF HyperliquidUnread, RequestStep, marketVars, subVars, tableVars
<1> QED BY <1>1, <1>2, <1>3, <1>4, <1>5 DEF HyperliquidNext

-----------------------------------------------------------------------------
(* The requests                                                             *)

\* A request goes out, or not: one more is owed.
LEMMA SentKeeps ==
  ASSUME RInv, ex' = ex, subscribes' = subscribes,
         NEW op, Request(op) \/ HyperliquidSend(op)
  PROVE  RInv'
<1> USE SizesAssumption DEF SizesAssumption
<1>1. /\ uid' = uid + 1 /\ uid' + subscribes' <= MaxCalls /\ uid' \in 1 .. MaxCalls
      /\ uid' \notin waiting /\ waiting' = waiting \cup {uid'} /\ calls' = calls
  BY DEF RInv, Request, HyperliquidSend, MoreCalls
<1>2. /\ sent \subseteq sent' /\ lost \subseteq lost' /\ answers' = answers
      /\ uid' \in lost' \/ \E r \in sent' : r.uid = uid'
  <2> DEFINE r == [uid |-> uid + 1, op |-> op]
  <2>1. r.uid = uid'
    BY <1>1
  <2>2. /\ answers' = answers
        /\ \/ sent' = sent \cup {r} /\ lost' = lost
           \/ sent' = sent /\ lost' = lost \cup {uid'}
    BY <1>1 DEF Request, HyperliquidSend
  <2> HIDE DEF r
  <2> QED BY <2>1, <2>2
<1>3. \A r \in sent' \cup answers' : r.uid \in waiting'
  BY DEF RInv, Request, HyperliquidSend
<1>4. lost' # {} => ex = "hyperliquid"
  BY DEF RInv, Counted, Request, HyperliquidSend
<1>5. Counted'
  BY <1>1, <1>2, <1>4 DEF RInv, Counted
<1> QED BY <1>1, <1>3, <1>5 DEF RInv

\* A handler has called back.
LEMMA CompleteKeeps ==
  ASSUME RInv, ex' = ex, subscribes' = subscribes, NEW u \in waiting, Complete(u)
  PROVE  RInv'
<1> USE SizesAssumption DEF SizesAssumption
<1>1. u \in 1 .. MaxCalls /\ calls[u] = 0
  BY DEF RInv, Counted
<1>2. /\ waiting' = waiting \ {u} /\ uid' = uid /\ lost' = lost
      /\ sent' = {r \in sent : r.uid # u} /\ answers' = {a \in answers : a.uid # u}
      /\ calls' = [calls EXCEPT ![u] = @ + 1]
  BY DEF Complete
<1>3. Counted'
  BY <1>1, <1>2 DEF RInv, Counted
<1> QED BY <1>1, <1>2, <1>3 DEF RInv

\* The exchange has answered: the request is on its way back.
LEMMA AnswerKeeps ==
  ASSUME RInv, ex' = ex, subscribes' = subscribes,
         NEW r \in sent, NEW ok, Answer(r, ok)
  PROVE  RInv'
<1> DEFINE a == [uid |-> r.uid, op |-> r.op, ok |-> ok, b |-> book', n |-> traded']
<1>1. /\ a.uid = r.uid /\ sent' = sent \ {r} /\ answers' = answers \cup {a}
      /\ UNCHANGED <<uid, waiting, calls, lost>>
  BY DEF Answer
<1> HIDE DEF a
<1>2. Counted'
  BY <1>1 DEF RInv, Counted
<1> QED BY <1>1, <1>2 DEF RInv

\* What went down with a connection is lost.
LEMMA GoneKeeps ==
  ASSUME RInv, ex' = ex, subscribes' = subscribes, Gone
  PROVE  RInv'
<1>1. Counted'
  BY DEF RInv, Counted, Gone
<1> QED BY <1>1 DEF RInv, Gone

\* Nothing happens to the requests.
LEMMA IdleKeeps ==
  ASSUME RInv, ex' = ex, UNCHANGED requestVars,
         subscribes' = subscribes \/ (MoreCalls /\ subscribes' = subscribes + 1)
  PROVE  RInv'
BY SizesAssumption DEF SizesAssumption, RInv, Counted, MoreCalls, requestVars

LEMMA StepKeeps == ASSUME RInv, RequestStep PROVE RInv'
BY SentKeeps, CompleteKeeps, AnswerKeeps, GoneKeeps, IdleKeeps DEF RequestStep

-----------------------------------------------------------------------------
(* Null orders                                                              *)

\* On edgex nothing is under way before the order was placed, and its pair was
\* in the tables then.
CInv ==
  /\ {crashed, placed, pairs} \subseteq BOOLEAN /\ refreshes \in Nat
  /\ crashed = TRUE => ex = "edgex" /\ placed = TRUE /\ refreshes > 0
  /\ ex = "edgex" =>
       /\ live = FALSE
       /\ placed = FALSE => /\ sent = {} /\ answers = {} /\ pushes = <<>> /\ book = "none"
                            /\ "oid" \in DOMAIN order /\ order.oid = ""
       /\ placed = TRUE => pairs = TRUE \/ refreshes > 0

\* The other four hand out no null order.
LEMMA OthersKeep == ASSUME CInv, RequestStep, ex # "edgex" PROVE CInv'
<1>1. ex' # "edgex" /\ crashed = FALSE /\ crashed' = FALSE
  BY DEF CInv, RequestStep
<1>2. {placed', pairs'} \subseteq BOOLEAN
  BY DEF CInv, RequestStep
<1>3. refreshes' \in Nat
  <2>1. refreshes \in Nat
    BY DEF CInv
  <2>2. refreshes' = refreshes \/ refreshes' = refreshes + 1
    BY DEF RequestStep
  <2> QED BY <2>1, <2>2
<1> QED BY <1>1, <1>2, <1>3 DEF CInv

\* The modules of the other four do nothing on edgex.
LEMMA OnlyTheirOwn ==
  AsterNext \/ ToobitNext \/ PhemexNext \/ HyperliquidNext => ex # "edgex"
<1>1. AsterNext => ex = "aster"
  BY DEF AsterNext, AsterPlaceOrder, AsterCancelOrder, AsterQueryOrder,
         AsterSubscribeWithoutKey, AsterSubscribeOrder, AsterUnsubscribeOrder,
         AsterKeyArrives, AsterKeyRenewed, AsterKeyExpired, AsterReceivePush,
         AsterAnswered
<1>2. ToobitNext => ex = "toobit"
  BY DEF ToobitNext, ToobitPlaceUnknownPair, ToobitPlaceTooSmall, ToobitPlaceOrder,
         ToobitCancelOrder, ToobitQueryOrder, ToobitSubscribeFails, ToobitSubscribeOrder,
         ToobitUnsubscribeOrder, ToobitKeyArrives, ToobitReceivePush, ToobitAnswered
<1>3. PhemexNext => ex = "phemex"
  BY DEF PhemexNext, PhemexPlaceUnknownPair, PhemexPlaceOrder, PhemexCancelOrder,
         PhemexQueryOrder, PhemexSubscribeOrder, PhemexUnsubscribeOrder,
         PhemexReceivePush, PhemexAnswered, PhemexOrderNotFound
<1>4. HyperliquidNext => ex = "hyperliquid"
  BY DEF HyperliquidNext, HyperliquidPlaceUnknownPair, HyperliquidPlaceOrder,
         HyperliquidSend, HyperliquidCancelOrder, HyperliquidQueryOrder,
         HyperliquidSubscribeOrder, HyperliquidUnsubscribeOrder, HyperliquidShutdown,
         HyperliquidReceivePush, HyperliquidAnswered, HyperliquidCancelRefused,
         HyperliquidUnread
<1> QED BY <1>1, <1>2, <1>3, <1>4

\* On edgex, what the exchanges share.
LEMMA EdgexCommonKeeps == ASSUME CInv, ex = "edgex", CommonNext PROVE CInv'
<1>1. CASE RefreshPairs
  <2>1. refreshes' = refreshes + 1 /\ pairs' \in BOOLEAN
    BY <1>1 DEF RefreshPairs
  <2>2. UNCHANGED <<marketVars, orderVars, requestVars, feedVars, live>>
    BY <1>1 DEF RefreshPairs, keyVars
  <2>3. refreshes \in Nat
    BY DEF CInv
  <2>4. refreshes' \in Nat /\ refreshes' > 0
    BY <2>1, <2>3
  <2> QED BY <2>4, <2>1, <2>2, <2>3 DEF CInv, marketVars, orderVars, requestVars, feedVars
<1>2. CASE Connected \/ ConnectFails
  BY <1>2 DEF Connected, ConnectFails, CInv, marketVars, tableVars, orderVars, requestVars,
              keyVars
<1>3. CASE Drop \/ Closed
  BY <1>3 DEF Drop, Closed, Disconnect, CInv, marketVars, tableVars, orderVars, keyVars
<1>4. ASSUME placed = TRUE, UNCHANGED <<ex, tableVars, orderVars, live>> PROVE CInv'
  BY <1>4 DEF CInv, tableVars, orderVars
<1>5. CASE RequestsAtExchange
  <2>1. placed = TRUE
    BY <1>5 DEF CInv, RequestsAtExchange
  <2>2. UNCHANGED <<ex, tableVars, orderVars, live>>
    BY <1>5 DEF RequestsAtExchange, AcceptOrder, AcceptCancel, AnswerQuery, Refuse, Becomes,
                marketVars, keyVars
  <2> QED BY <2>1, <2>2, <1>4
<1>6. CASE Match \/ \E b \in {"canceled", "expired"} : End(b)
  <2>1. placed = TRUE
    BY <1>6 DEF CInv, Match, End
  <2>2. UNCHANGED <<ex, tableVars, orderVars, live>>
    BY <1>6 DEF Match, End, Becomes, keyVars
  <2> QED BY <2>1, <2>2, <1>4
<1>7. CASE ExpireKey
  BY <1>7 DEF ExpireKey, CInv
<1>8. CASE \/ \E u \in waiting, t \in Times : RestFails(u, t)
           \/ \E a \in answers, t \in Times : AnswerRefuses(a, t)
  <2>1. placed = TRUE
    BY <1>8 DEF CInv, RestFails, AnswerRefuses
  <2>2. UNCHANGED <<ex, tableVars, placed, crashed, live>>
    BY <1>8 DEF RestFails, AnswerRefuses, FailRequest, marketVars, keyVars
  <2> QED BY <2>1, <2>2 DEF CInv, tableVars
<1> QED BY <1>1, <1>2, <1>3, <1>5, <1>6, <1>7, <1>8 DEF CommonNext

\* edgex's own: a push or a query's answer comes after the placement, and finds
\* the pair missing only after a refresh.
LEMMA EdgexKeeps == ASSUME CInv, EdgexNext PROVE CInv'
<1>1. CASE EdgexPlaceUnknownPair
  BY <1>1 DEF EdgexPlaceUnknownPair, PairUnknown, CInv, marketVars, tableVars, requestVars,
              feedVars, keyVars
<1>2. CASE EdgexPlaceOrder
  BY <1>2 DEF EdgexPlaceOrder, PlaceOverRest, CInv, marketVars, tableVars, keyVars
<1>3. CASE EdgexCancelOrder \/ EdgexQueryOrder
  BY <1>3 DEF EdgexCancelOrder, EdgexQueryOrder, OverRest, CInv, marketVars, tableVars,
              orderVars, keyVars
<1>4. CASE EdgexSubscribeOrder \/ EdgexUnsubscribeOrder \/ EdgexShutdown
  BY <1>4 DEF EdgexSubscribeOrder, EdgexUnsubscribeOrder, EdgexShutdown, ResolveConnect,
              CloseStream, CInv, marketVars, tableVars, orderVars, requestVars, keyVars
<1>5. CASE \E t \in Times : EdgexReceivePush(t)
  <2>1. ex = "edgex" /\ placed = TRUE
    BY <1>5 DEF EdgexReceivePush, NextPush, CInv
  <2>2. UNCHANGED <<ex, tableVars, placed, live>> 
    BY <1>5 DEF EdgexReceivePush, NextPush, Dispatch, NullOrder, marketVars, keyVars
  <2>3. crashed' = crashed \/ (crashed' = TRUE /\ ~pairs)
    BY <1>5 DEF EdgexReceivePush, Dispatch, NullOrder
  <2>4. ~pairs => pairs = FALSE
    BY DEF CInv
  <2> QED BY <2>1, <2>2, <2>3, <2>4 DEF CInv, tableVars
<1>6. CASE \/ \E a \in answers, t \in Times : EdgexAnswered(a, t)
           \/ \E a \in answers : EdgexAnsweredNull(a)
  <2>1. ex = "edgex" /\ placed = TRUE
    BY <1>6 DEF EdgexAnswered, EdgexAnsweredNull, CInv
  <2>2. UNCHANGED <<ex, tableVars, placed, live>> 
    BY <1>6 DEF EdgexAnswered, EdgexAnsweredNull, Absorb, NullOrder, marketVars, keyVars
  <2>3. crashed' = crashed \/ (crashed' = TRUE /\ ~pairs)
    BY <1>6 DEF EdgexAnswered, EdgexAnsweredNull, Absorb, NullOrder
  <2>4. ~pairs => pairs = FALSE
    BY DEF CInv
  <2> QED BY <2>1, <2>2, <2>3, <2>4 DEF CInv, tableVars
<1> QED BY <1>1, <1>2, <1>3, <1>4, <1>5, <1>6 DEF EdgexNext

-----------------------------------------------------------------------------
(* The theorem                                                              *)

\* On the five exchanges every request's callback comes exactly once; until
\* then the request or its answer is on its way, or hyperliquid has lost it or
\* its handler threw when the answer came;
\* and a null order is handed out only by edgex, after a refresh of the tables.
THEOREM EveryRequestAccountedFor == Spec => []RequestsAccountedFor
<1> DEFINE Inv == RInv /\ CInv
<1>1. Init => Inv
  <2> SUFFICES ASSUME Init PROVE Inv
    OBVIOUS
  <2> USE SizesAssumption DEF SizesAssumption
  <2>1. RInv
    BY DEF Init, RInv, Counted
  <2>2. /\ {crashed, placed, pairs} \subseteq BOOLEAN /\ refreshes \in Nat
        /\ crashed = FALSE /\ placed = FALSE
        /\ live = FALSE /\ sent = {} /\ answers = {} /\ pushes = <<>> /\ book = "none"
    BY DEF Init
  <2>3. "oid" \in DOMAIN order /\ order.oid = ""
    <3>1. PICK t \in Times : order = NewOrder(t)
      BY DEF Init
    <3> QED BY <3>1 DEF NewOrder
  <2> QED BY <2>1, <2>2, <2>3 DEF CInv
<1>2. Inv /\ [Next]_vars => Inv'
  <2> SUFFICES ASSUME Inv, [Next]_vars PROVE Inv'
    OBVIOUS
  <2>1. CASE Next
    <3>1. RequestStep
      BY <2>1, CommonStep, AsterStep, ToobitStep, PhemexStep, EdgexStep, HyperliquidStep
         DEF Next
    <3>2. CInv'
      BY <2>1, <3>1, OthersKeep, EdgexCommonKeeps, EdgexKeeps, OnlyTheirOwn DEF Next
    <3> QED BY <3>1, <3>2, StepKeeps
  <2>2. CASE UNCHANGED vars
    <3>1. RequestStep
      BY <2>2 DEF vars, marketVars, tableVars, orderVars, requestVars, subVars, RequestStep
    <3>2. CInv'
      BY <2>2 DEF CInv, vars, marketVars, tableVars, orderVars, requestVars, feedVars, keyVars
    <3> QED BY <3>1, <3>2, StepKeeps
  <2> QED BY <2>1, <2>2
<1>3. Inv => RequestsAccountedFor
  BY DEF RInv, Counted, CInv, RequestsAccountedFor
<1> QED BY <1>1, <1>2, <1>3, PTL DEF Spec
-----------------------------------------------------------------------------
(* Types                                                                    *)

OrderTyped == order \in Order /\ {placed, failed, reopened, crashed} \subseteq BOOLEAN

\* An open order has something left to trade.
MarketTyped ==
  /\ ex \in Exchanges /\ book \in BookStates /\ traded \in 0 .. Qty
  /\ book = "open" => traded < Qty
  /\ book = "none" => traded = 0

TablesTyped ==
  /\ pairs \in BOOLEAN /\ tableLost \in BOOLEAN /\ (~tableLost => pairs)
  /\ {refreshes, drops, expiries} \subseteq Nat /\ refreshes + drops + expiries <= MaxFaults

RequestsTyped ==
  /\ sent \subseteq [uid : 1 .. MaxCalls, op : Ops]
  /\ answers \subseteq [uid : 1 .. MaxCalls, op : Ops, ok : BOOLEAN, b : BookStates, n : 0 .. Qty]
  /\ lost \subseteq 1 .. uid

SubTyped ==
  {handler, wants, missed} \subseteq BOOLEAN /\ broken \in {"no", "drop", "unsent", "unbound"}

KeysTyped ==
  /\ expiries \in Nat /\ key \in 0 .. expiries + 1 /\ path \in 0 .. expiries + 1
  /\ live \in BOOLEAN /\ fetches \in [plain : Nat, renew : Nat]

PushRecord == [event : Ended \cup {"open", "key"}, n : 0 .. Qty]

ConnTyped ==
  /\ conn \in {"down", "opening", "connecting", "up", "closing", "dead"}
  /\ {stopping, feeds} \subseteq BOOLEAN

-----------------------------------------------------------------------------
(* What is on its way                                                       *)

\* A push or an answer tells what traded up to then; one that tells the end
\* tells it right, and after a push of the end only aster's word about the key follows.
Pushed ==
  /\ pushes \in Seq(PushRecord)
  /\ \A i \in DOMAIN pushes :
       /\ pushes[i].n <= traded
       /\ pushes[i].event \in Ended =>
            /\ pushes[i].event = book /\ pushes[i].n = traded
            /\ \A j \in DOMAIN pushes : i < j => pushes[j].event = "key"
       /\ pushes[i].event = "key" => ex = "aster" /\ expiries > 0

Served ==
  \A a \in answers : a.n <= traded /\ (a.b \in Ended => a.b = book /\ a.n = traded)

-----------------------------------------------------------------------------
(* The feed                                                                 *)

\* While no key has expired, the one key there is lives, and the connection is
\* made with it.
KeyLives ==
  ex \in {"aster", "toobit"} /\ expiries = 0 =>
    /\ key # 0 => live
    /\ conn # "down" => path = 1 /\ live
    /\ fetches.renew = 0

\* A connection that nobody closed is up and fed, or comes up; on phemex and
\* hyperliquid only while it has been up since the subscription was sent.
Fed ==
  /\ conn = "closing" => stopping
  /\ ex = "phemex" => broken # "unsent"
  /\ broken = "unbound" => conn = "down"
  /\ ex \in {"aster", "toobit", "edgex"} /\ ~stopping /\ expiries = 0 /\ conn = "up" => feeds
  /\ wants /\ ~Silenced =>
       /\ handler
       /\ \/ conn \in {"opening", "connecting"} /\ ex \notin {"phemex", "hyperliquid"}
          \/ conn = "up" /\ feeds

-----------------------------------------------------------------------------
(* The end of the order                                                     *)

\* The amount is what traded, where it is told and can be scaled.
AmountShown(o) == o.cum = traded \/ ex = "hyperliquid" \/ (ex = "toobit" /\ tableLost)

\* The order is not ahead of the exchange, and a failure was written to it by a failure.
Honest(o) ==
  /\ o.cum <= traded
  /\ o.status = "Failed" => failed
  /\ o.status \in Finished => book \in Ended /\ o.status = EndStatus /\ AmountShown(o)

\* The end is shown, as far as SettledAgrees asks for it.
EndShown(o, r) ==
  /\ \/ o.status = EndStatus
     \/ r /\ ~(ex = "aster" /\ book = "filled")
     \/ ex = "hyperliquid" /\ book = "expired" /\ o.status \notin Finished
  /\ AmountShown(o)

\* The end is under way to the order, or has come and nothing overtakes it.
EndComes ==
  book \in Ended /\ ~(missed \/ failed \/ crashed) =>
    \/ \E i \in DOMAIN pushes : pushes[i].event = book
    \/ EndShown(order, reopened) /\ \A i \in DOMAIN pushes : pushes[i].event = "key"

\* What an order and those who tell it about the exchange know.
Told ==
  /\ OrderTyped /\ MarketTyped /\ TablesTyped /\ RequestsTyped
  /\ Pushed /\ Served /\ Honest(order) /\ EndComes

\* What a subscription rests on.
Wired == SubTyped /\ KeysTyped /\ ConnTyped /\ KeyLives /\ Fed


-----------------------------------------------------------------------------
(* Orders and views                                                         *)

\* Naturals are integers; a step of its own for the solvers.
LEMMA NatsAreInts == \A n \in Nat : n \in Int
OBVIOUS

\* An order is put together from its fields.
LEMMA OrderIs ==
  ASSUME NEW st \in OrderStatus, NEW m \in Nat, NEW i \in {"", "oid"}, NEW e \in {"Ok", "Error"},
         NEW c \in Nat, NEW q \in Int, NEW db \in Nat, NEW dq \in Int, NEW p \in Price
  PROVE  [status |-> st, milli |-> m, oid |-> i, ec |-> e, cum |-> c, quote |-> q,
          dbase |-> db, dquote |-> dq, avg |-> p] \in Order
BY DEF Order

\* What Order::update makes of the status and the amount.
LEMMA UpdatedIs ==
  ASSUME NEW o \in Order, NEW v \in Order
  PROVE  /\ Updated(o, v) \in Order
         /\ \/ /\ o.status \notin {"Failed", "Filled"}
               /\ Updated(o, v).status = v.status /\ Updated(o, v).cum = Larger(o.cum, v.cum)
            \/ /\ Updated(o, v).status = o.status /\ Updated(o, v).cum = o.cum
               /\ \/ o.status \in {"Failed", "Filled"}
                  \/ o.status = "Canceled" /\ v.status = "Amending"
                  \/ o.status = "Amending" /\ v.status \in {"Created", "New"}
                  \/ o.status = v.status /\ v.cum <= o.cum
<1>1. /\ o.cum \in Nat /\ v.cum \in Nat /\ o.quote \in Int /\ v.quote \in Int
      /\ o.milli \in Nat /\ v.milli \in Nat
  BY DEF Order
<1>4. v.cum > o.cum \/ v.cum <= o.cum
  BY <1>1
<1>2. CASE Transits(o, v)
  <2>1. Updated(o, v) = Absorbed(o, v)
    BY <1>2 DEF Updated
  <2>2. PICK c \in Nat : c = Larger(o.cum, v.cum)
    BY <1>1 DEF Larger
  <2>3. PICK q \in Int : q = Larger(o.quote, v.quote)
    BY <1>1 DEF Larger
  <2>4. PICK db \in Nat : db = IF v.cum > o.cum THEN v.cum - o.cum ELSE 0
    BY <1>1
  <2>5. PICK dq \in Int : dq = IF v.cum > o.cum THEN v.quote - o.quote ELSE 0
    BY <1>1
  <2>6. PICK m \in Nat : m = IF v.milli # 0 THEN v.milli ELSE o.milli
    BY <1>1
  <2>7. PICK oid \in {"", "oid"} : oid = IF v.oid # "" THEN v.oid ELSE o.oid
    BY DEF Order
  <2>8. PICK avg \in Price : avg = IF v.avg # NoPrice THEN v.avg ELSE o.avg
    BY DEF Order
  <2>9. Absorbed(o, v) = [status |-> v.status, milli |-> m, oid |-> oid, ec |-> v.ec, cum |-> c,
                          quote |-> q, dbase |-> db, dquote |-> dq, avg |-> avg]
    BY <2>2, <2>3, <2>4, <2>5, <2>6, <2>7, <2>8 DEF Absorbed
  <2>10. PICK st \in OrderStatus, e \in {"Ok", "Error"} : st = v.status /\ e = v.ec
    BY DEF Order
  <2>11. PICK k : k = [status |-> st, milli |-> m, oid |-> oid, ec |-> e, cum |-> c,
                      quote |-> q, dbase |-> db, dquote |-> dq, avg |-> avg]
    OBVIOUS
  <2>12. k \in Order
    BY <2>11, OrderIs
  <2>14. k.status = st /\ k.cum = c /\ k = Absorbed(o, v)
    BY <2>9, <2>10, <2>11
  <2>13. o.status \notin {"Failed", "Filled"}
    BY <1>2 DEF Transits, Refuses
  <2> QED BY <2>1, <2>2, <2>10, <2>12, <2>14, <2>13
<1>3. CASE ~Transits(o, v)
  <2>1. Updated(o, v) = [o EXCEPT !.dbase = 0, !.dquote = 0, !.ec = v.ec]
    BY <1>3 DEF Updated
  <2>8. /\ o.status \in OrderStatus /\ o.oid \in {"", "oid"} /\ v.ec \in {"Ok", "Error"}
        /\ o.avg \in Price
    BY DEF Order
  <2>9. PICK st \in OrderStatus : st = o.status
    BY <2>8
  <2>10. PICK i \in {"", "oid"} : i = o.oid
    BY <2>8
  <2>11. PICK e \in {"Ok", "Error"} : e = v.ec
    BY <2>8
  <2>12. PICK p \in Price : p = o.avg
    BY <2>8
  <2>13. PICK q \in Int : q = o.quote
    BY <1>1
  <2>15. PICK m \in Nat : m = o.milli
    BY <1>1
  <2>16. PICK c \in Nat : c = o.cum
    BY <1>1
  <2>14. PICK z \in Nat : z = 0
    OBVIOUS
  <2>17. PICK zz \in Nat : zz = 0
    OBVIOUS
  <2>3. PICK k : k = [status |-> st, milli |-> m, oid |-> i, ec |-> e, cum |-> c,
                      quote |-> q, dbase |-> z, dquote |-> zz, avg |-> p]
    OBVIOUS
  <2>5. k = Updated(o, v)
    <3>1. o = [status |-> o.status, milli |-> o.milli, oid |-> o.oid, ec |-> o.ec,
               cum |-> o.cum, quote |-> o.quote, dbase |-> o.dbase, dquote |-> o.dquote,
               avg |-> o.avg]
      BY DEF Order
    <3>2. PICK w : w = [o EXCEPT !.dbase = z, !.dquote = zz, !.ec = e]
      OBVIOUS
    <3>3. w = [status |-> o.status, milli |-> o.milli, oid |-> o.oid, ec |-> e,
               cum |-> o.cum, quote |-> o.quote, dbase |-> z, dquote |-> zz,
               avg |-> o.avg]
      BY <3>1, <3>2
    <3>4. w = Updated(o, v)
      BY <2>1, <2>11, <2>14, <2>17, <3>2
    <3>5. k = w
      BY <2>3, <2>9, <2>10, <2>12, <2>13, <2>15, <2>16, <3>3
    <3> QED BY <3>4, <3>5
  <2>6. k \in Order
    <3>1. zz \in Int
      BY NatsAreInts
    <3> QED BY <2>3, <3>1, OrderIs
  <2>7. k.status = st /\ k.cum = o.cum
    BY <2>3, <2>9, <2>16
  <2>4. Refuses(o, v) \/ (v.status = o.status /\ ~(v.cum > o.cum))
    BY <1>3 DEF Transits
  <2>18. \/ o.status \in {"Failed", "Filled"}
         \/ o.status = "Canceled" /\ v.status = "Amending"
         \/ o.status = "Amending" /\ v.status \in {"Created", "New"}
         \/ o.status = v.status /\ v.cum <= o.cum
    BY <1>4, <2>4 DEF Refuses
  <2>19. PICK u : u = Updated(o, v)
    OBVIOUS
  <2>20. u \in Order /\ u.status = o.status /\ u.cum = o.cum
    BY <2>5, <2>6, <2>7, <2>9, <2>19
  <2> QED BY <2>18, <2>19, <2>20
<1> QED BY <1>2, <1>3

\* A view is an order; nothing but status and amount is asked of it.
LEMMA ViewIs ==
  ASSUME NEW s \in OrderStatus, NEW n \in Nat, NEW oid \in {"", "oid"}, NEW t \in Times
  PROVE  View(s, n, oid, t) \in Order /\ View(s, n, oid, t).status = s /\ View(s, n, oid, t).cum = n
<1>1. t \in Nat
  BY TimesAssumption
<1>2. NoPrice \in Price
  BY DEF NoPrice, Price
<1>3. PICK z \in Nat : z = 0
  OBVIOUS
<1>9. PICK zz \in Nat : zz = 0
  OBVIOUS
<1>4. PICK q \in Nat : q = n
  OBVIOUS
<1>10. PICK p \in Price : p = NoPrice
  BY <1>2
<1>11. PICK e \in {"Ok", "Error"} : e = "Ok"
  OBVIOUS
<1>5. PICK k : k = [status |-> s, milli |-> t, oid |-> oid, ec |-> e, cum |-> n, quote |-> q,
                    dbase |-> z, dquote |-> zz, avg |-> p]
  OBVIOUS
<1>6. k \in Order
  <2>1. zz \in Int /\ q \in Int
    BY NatsAreInts
  <2> QED BY <1>1, <1>5, <2>1, OrderIs
<1>8. k.status = s /\ k.cum = n
  BY <1>5
<1>7. k = View(s, n, oid, t)
  BY <1>3, <1>4, <1>5, <1>9, <1>10, <1>11 DEF View
<1> QED BY <1>6, <1>7, <1>8

\* What an order is told of the state b with n units traded.
Shows(v, b, n) ==
  /\ v \in Order /\ v.cum <= n
  /\ b \notin Ended => v.status \in {"New", "PartiallyFilled"}
  /\ (b \in Ended /\ b = book) =>
       (v.status = EndStatus \/ (ex = "hyperliquid" /\ b = "expired" /\ v.status = "New"))
  /\ v.cum = n \/ ex = "hyperliquid" \/ (ex = "toobit" /\ ~pairs)

\* An answer's order is told the state, or put back to one that is not finished.
Fits(o, a) ==
  /\ o \in Order
  /\ \/ /\ ex # "aster" /\ o.status \in {"New", "Canceling", "PartiallyFilled"}
        /\ o.cum = order.cum \/ (ex = "hyperliquid" /\ o.cum = a.n)
     \/ \E v : /\ Shows(v, a.b, a.n)
               /\ o.status = Updated(order, v).status /\ o.cum = Updated(order, v).cum

\* The five tables of statuses: the end has its own status, and only it is final.
LEMMA StatusIs ==
  ASSUME NEW b, NEW n \in Nat
  PROVE  /\ ToOrderStatus(b, n) \in OrderStatus /\ AsterStatus(b, n) \in OrderStatus
         /\ EdgexStatus(b, n) \in OrderStatus /\ HyperliquidStatus(b) \in OrderStatus
         /\ b \notin Ended =>
              /\ ToOrderStatus(b, n) \in {"New", "PartiallyFilled"}
              /\ AsterStatus(b, n) \in {"New", "PartiallyFilled"}
              /\ EdgexStatus(b, n) \in {"New", "PartiallyFilled"}
              /\ HyperliquidStatus(b) \in {"New", "PartiallyFilled"}
BY DEF ToOrderStatus, AsterStatus, EdgexStatus, HyperliquidStatus, OrderStatus, Ended

\* The status in which the order ends on each exchange.
LEMMA EndStatusIs ==
  ASSUME book \in Ended
  PROVE  /\ EndStatus \in Finished
         /\ ex = "aster" /\ book = "filled" => EndStatus = "Filled"
         /\ ex \in {"aster", "toobit"} => \A n : AsterStatus(book, n) = EndStatus
         /\ ex \notin {"aster", "toobit"} => \A n : ToOrderStatus(book, n) = EndStatus
<1>1. CASE ex = "aster"
  BY <1>1 DEF EndStatus, AsterStatus, ToOrderStatus, Finished, Ended
<1>2. CASE ex = "toobit"
  BY <1>2 DEF EndStatus, AsterStatus, ToobitStatus, ToOrderStatus, Finished, Ended
<1>3. CASE ex \notin {"aster", "toobit"}
  <2>1. EndStatus = ToOrderStatus(book, traded)
    BY <1>3 DEF EndStatus
  <2> QED BY <1>3, <2>1 DEF ToOrderStatus, Finished, Ended
<1> QED BY <1>1, <1>2, <1>3

\* Aster tells the amount, and a final status only of the end.
LEMMA AsterShows ==
  ASSUME ex = "aster", NEW b, NEW n \in Nat, NEW t \in Times
  PROVE  Shows(AsterView(b, n, t), b, n)
<1>1. PICK v : v = View(AsterStatus(b, n), n, "oid", t)
  OBVIOUS
<1>2. v \in Order /\ v.status = AsterStatus(b, n) /\ v.cum = n
  BY <1>1, ViewIs, StatusIs
<1>3. b \in Ended /\ b = book => v.status = EndStatus
  BY <1>2, EndStatusIs
<1>4. Shows(v, b, n)
  BY <1>2, <1>3, StatusIs DEF Shows
<1> QED BY <1>1, <1>4 DEF AsterView

\* Toobit: the amount is missing once the tables are.
LEMMA ToobitShows ==
  ASSUME ex = "toobit", NEW b, NEW n \in Nat, NEW t \in Times
  PROVE  Shows(ToobitView(b, n, t), b, n)
<1>1. PICK m \in Nat : m = ToobitAmount(n) /\ m <= n /\ (pairs => m = n)
  BY DEF ToobitAmount
<1>2. ToobitStatus(b, n) = AsterStatus(b, n)
  BY DEF ToobitStatus, AsterStatus
<1>3. PICK v : v = View(AsterStatus(b, n), m, "oid", t)
  OBVIOUS
<1>4. v \in Order /\ v.status = AsterStatus(b, n) /\ v.cum = m
  <2>1. AsterStatus(b, n) \in OrderStatus
    BY StatusIs
  <2> QED BY <1>3, <2>1, ViewIs
<1>5. b \in Ended /\ b = book => v.status = EndStatus
  BY <1>4, EndStatusIs
<1>6. Shows(v, b, n)
  BY <1>1, <1>4, <1>5, StatusIs DEF Shows
<1> QED BY <1>1, <1>2, <1>3, <1>6 DEF ToobitView

\* Phemex: as aster, with a table of its own.
LEMMA PhemexShows ==
  ASSUME ex = "phemex", NEW b, NEW n \in Nat, NEW t \in Times
  PROVE  Shows(PhemexView(b, n, t), b, n)
<1>1. PICK v : v = View(ToOrderStatus(b, n), n, "oid", t)
  OBVIOUS
<1>2. v \in Order /\ v.status = ToOrderStatus(b, n) /\ v.cum = n
  BY <1>1, ViewIs, StatusIs
<1>3. b \in Ended /\ b = book => v.status = EndStatus
  BY <1>2, EndStatusIs
<1>4. Shows(v, b, n)
  BY <1>2, <1>3, StatusIs DEF Shows
<1> QED BY <1>1, <1>4 DEF PhemexView, PhemexStatus

\* edgeX: as aster, with a table of its own.
LEMMA EdgexShows ==
  ASSUME ex = "edgex", NEW b, NEW n \in Nat, NEW t \in Times
  PROVE  Shows(EdgexView(b, n, t), b, n)
<1>1. b \in Ended => EdgexStatus(b, n) = ToOrderStatus(b, n)
  BY DEF EdgexStatus, Ended
<1>2. PICK v : v = View(EdgexStatus(b, n), n, "", t)
  OBVIOUS
<1>3. v \in Order /\ v.status = EdgexStatus(b, n) /\ v.cum = n
  BY <1>2, ViewIs, StatusIs
<1>4. b \in Ended /\ b = book => v.status = EndStatus
  BY <1>1, <1>3, EndStatusIs
<1>5. Shows(v, b, n)
  BY <1>3, <1>4, StatusIs DEF Shows
<1> QED BY <1>2, <1>5 DEF EdgexView

\* Hyperliquid tells no amount.
LEMMA HyperliquidShows ==
  ASSUME ex = "hyperliquid", NEW b, NEW n \in Nat, NEW t \in Times
  PROVE  Shows(HyperliquidView(b, t), b, n)
<1>1. b \in Ended => \/ HyperliquidStatus(b) = ToOrderStatus(b, n)
                     \/ b = "expired" /\ HyperliquidStatus(b) = "New"
  BY DEF HyperliquidStatus, ToOrderStatus, Ended
<1>2. PICK z \in Nat : z = 0
  OBVIOUS
<1>6. PICK v : v = View(HyperliquidStatus(b), z, "oid", t)
  OBVIOUS
<1>3. v \in Order /\ v.status = HyperliquidStatus(b) /\ v.cum <= n
  <2>1. HyperliquidStatus(b) \in OrderStatus
    BY StatusIs
  <2>2. v \in Order /\ v.status = HyperliquidStatus(b) /\ v.cum = z
    BY <1>6, <2>1, ViewIs
  <2> QED BY <1>2, <2>2
<1>4. b \in Ended /\ b = book => \/ v.status = EndStatus
                                 \/ b = "expired" /\ v.status = "New"
  BY <1>1, <1>3, EndStatusIs
<1>5. Shows(v, b, n)
  BY <1>3, <1>4, StatusIs DEF Shows
<1> QED BY <1>2, <1>5, <1>6 DEF HyperliquidView

-----------------------------------------------------------------------------
(* Pushes                                                                   *)

\* The pushes after the first was taken.
LEMMA PushTaken ==
  ASSUME pushes \in Seq(PushRecord), pushes # <<>>, pushes' = Tail(pushes)
  PROVE  /\ pushes' \in Seq(PushRecord) /\ 1 \in DOMAIN pushes
         /\ Head(pushes) = pushes[1] /\ pushes[1] \in PushRecord
         /\ \A i \in DOMAIN pushes' : i \in Nat /\ i >= 1 /\ i + 1 \in DOMAIN pushes /\ pushes'[i] = pushes[i + 1]
         /\ \A i \in DOMAIN pushes : i = 1 \/ (i - 1 \in DOMAIN pushes' /\ pushes'[i - 1] = pushes[i])
<1>1. /\ Len(pushes) \in Nat /\ Len(pushes) # 0 /\ DOMAIN pushes = 1 .. Len(pushes)
      /\ Head(pushes) = pushes[1]
  OBVIOUS
<1>2. /\ Tail(pushes) \in Seq(PushRecord) /\ Len(Tail(pushes)) = Len(pushes) - 1
      /\ \A i \in 1 .. Len(Tail(pushes)) : Tail(pushes)[i] = pushes[i + 1]
  BY HeadTailProperties
<1>3. DOMAIN pushes' = 1 .. (Len(pushes) - 1)
  BY <1>1, <1>2
<1>4. \A i \in DOMAIN pushes' : i \in Nat /\ i >= 1 /\ i + 1 \in DOMAIN pushes /\ pushes'[i] = pushes[i + 1]
  BY <1>1, <1>2, <1>3
<1>5. ASSUME NEW i \in DOMAIN pushes, i # 1
      PROVE  i - 1 \in DOMAIN pushes' /\ pushes'[i - 1] = pushes[i]
  <2>1. i - 1 \in DOMAIN pushes' /\ (i - 1) + 1 = i
    BY <1>1, <1>3, <1>5
  <2> QED BY <1>4, <2>1
<1> QED BY <1>1, <1>2, <1>4, <1>5

\* The pushes after one more was sent.
LEMMA PushAdded ==
  ASSUME pushes \in Seq(PushRecord), NEW p \in PushRecord, pushes' = Append(pushes, p)
  PROVE  /\ pushes' \in Seq(PushRecord)
         /\ \A i \in DOMAIN pushes : i \in DOMAIN pushes' /\ pushes'[i] = pushes[i]
         /\ \A i \in DOMAIN pushes' : \/ i \in DOMAIN pushes
                                      \/ pushes'[i] = p /\ \A j \in DOMAIN pushes' : ~(i < j)
         /\ \E i \in DOMAIN pushes' : pushes'[i] = p
<1>1. /\ pushes' \in Seq(PushRecord) /\ Len(pushes') = Len(pushes) + 1
      /\ \A i \in 1 .. Len(pushes) : pushes'[i] = pushes[i]
      /\ pushes'[Len(pushes) + 1] = p
  BY AppendProperties
<1>2. /\ DOMAIN pushes' = 1 .. (Len(pushes) + 1) /\ DOMAIN pushes = 1 .. Len(pushes)
      /\ Len(pushes) \in Nat
  BY <1>1
<1> QED BY <1>1, <1>2
-----------------------------------------------------------------------------
(* What an action does to the order and to what it is told by               *)

restVars == <<marketVars, tableVars, feedVars, subVars, keyVars>>

\* A request goes out.
Asks ==
  /\ \E op \in Ops : Request(op) \/ HyperliquidSend(op)
  /\ placed' \in {placed, TRUE}
  /\ UNCHANGED <<order, failed, reopened, crashed, restVars>>

\* The client marks the order it does not send.
Marks ==
  /\ order' \in Order /\ order'.cum = order.cum
  /\ \/ order'.status = order.status /\ failed' = failed
     \/ order'.status = "Failed" /\ failed' = TRUE
  /\ UNCHANGED <<placed, reopened, crashed, requestVars, restVars>>

\* A request has failed.
Fails == \E u \in waiting, t \in Times : FailRequest(u, t)

\* A success is written to the order.
Answers == \E a \in answers : \E o : Absorb(a, o) /\ Fits(o, a)

\* A push reaches the client, and the strategy when it has subscribed.
Hears ==
  /\ NextPush /\ Head(pushes).event # "key"
  /\ \E v : Dispatch(v) /\ Shows(v, Head(pushes).event, Head(pushes).n)
  /\ UNCHANGED keyVars

\* A null order is used; nothing comes after.
Nulls ==
  /\ NullOrder
  /\ NextPush \/ UNCHANGED <<feedVars, requestVars, marketVars, tableVars>>
  /\ UNCHANGED <<subVars, keyVars>>

\* The subscription, its connection or its key.
Rewires ==
  /\ UNCHANGED <<marketVars, tableVars, orderVars, requestVars, pushes, drops, expiries, missed>>
  /\ Wired'

-----------------------------------------------------------------------------
(* An order that is told                                                    *)

\* Amounts are naturals.
LEMMA CumIs == \A o \in Order : o.cum \in Nat
BY DEF Order

\* What the proofs use of the types in Told.
LEMMA ToldIs ==
  ASSUME Told
  PROVE  /\ traded \in Nat /\ traded <= Qty /\ order \in Order /\ order.cum \in Nat
         /\ Honest(order) /\ order.cum <= traded /\ (~pairs => tableLost)
<1>1. /\ order \in Order /\ Honest(order) /\ (~pairs => tableLost)
      /\ traded \in Nat /\ traded <= Qty
  BY SizesAssumption DEF Told, MarketTyped, OrderTyped, TablesTyped, SizesAssumption
<1> QED BY <1>1, CumIs DEF Honest

\* A view of what the exchange has reached keeps the order honest.
LEMMA HonestStays ==
  ASSUME Told, NEW v, NEW b, NEW n \in 0 .. traded, Shows(v, b, n),
         b \in Ended => b = book /\ n = traded,
         NEW o, o.status = Updated(order, v).status, o.cum = Updated(order, v).cum
  PROVE  Honest(o)
<1>1. /\ traded \in Nat /\ order \in Order /\ v \in Order /\ order.cum \in Nat /\ v.cum \in Nat
      /\ Honest(order)
  BY ToldIs, CumIs DEF Shows
<1>2. CASE o.status = order.status /\ o.cum = order.cum
  BY <1>1, <1>2 DEF Honest, AmountShown
<1>3. CASE o.status = v.status /\ o.cum = Larger(order.cum, v.cum)
  <2>1. o.cum <= traded /\ (v.cum = traded => o.cum = traded)
    BY <1>1, <1>3 DEF Larger, Shows, Honest
  <2>2. CASE b \notin Ended
    <3>1. v.status \notin Finished /\ v.status # "Failed"
      BY <2>2 DEF Shows, Finished
    <3> QED BY <1>3, <2>1, <3>1 DEF Honest
  <2>3. CASE b \in Ended
    <3>1. b = book /\ n = traded /\ EndStatus \in Finished
      BY <2>3, EndStatusIs
    <3>2. v.status = EndStatus \/ v.status = "New"
      BY <2>3, <3>1 DEF Shows
    <3>3. v.status # "Failed" /\ (v.status \in Finished => v.status = EndStatus)
      BY <3>1, <3>2 DEF Finished
    <3>4. ~pairs => tableLost
      BY DEF Told, TablesTyped
    <3>5. AmountShown(o)
      BY <2>1, <3>1, <3>4 DEF Shows, AmountShown
    <3> QED BY <1>3, <2>1, <2>3, <3>1, <3>3, <3>5 DEF Honest
  <2> QED BY <2>2, <2>3
<1> QED BY <1>1, <1>2, <1>3, UpdatedIs

\* A view of the end shows it.
LEMMA EndIsShown ==
  ASSUME Told, NEW v, NEW r, book \in Ended, ~failed, Shows(v, book, traded),
         NEW o, o.status = Updated(order, v).status, o.cum = Updated(order, v).cum
  PROVE  EndShown(o, r)
<1>1. /\ traded \in Nat /\ order \in Order /\ v \in Order /\ order.cum \in Nat /\ v.cum \in Nat
      /\ Honest(order) /\ order.cum <= traded
  BY ToldIs, CumIs DEF Shows
<1>2. \/ v.status = EndStatus
      \/ ex = "hyperliquid" /\ book = "expired" /\ v.status = "New"
  BY DEF Shows
<1>3. EndStatus \in Finished
  BY EndStatusIs
<1>4. ~pairs => tableLost
  BY DEF Told, TablesTyped
<1>5. v.cum = traded \/ ex = "hyperliquid" \/ (ex = "toobit" /\ tableLost)
  BY <1>4 DEF Shows
<1>6. CASE o.status = v.status /\ o.cum = Larger(order.cum, v.cum)
  <2>1. v.cum = traded => o.cum = traded
    BY <1>1, <1>6 DEF Larger
  <2>2. "New" \notin Finished
    BY DEF Finished
  <2> QED BY <1>2, <1>5, <1>6, <2>1, <2>2 DEF EndShown, AmountShown
<1>7. CASE o.status = order.status /\ o.cum = order.cum
  <2>1. CASE order.status \in {"Failed", "Filled"}
    <3>1. order.status = "Filled" /\ "Filled" \in Finished
      BY <1>1, <2>1 DEF Honest, Finished
    <3> QED BY <1>1, <1>7, <3>1 DEF Honest, EndShown, AmountShown
  <2>2. CASE order.status = "Amending" /\ v.status \in {"Created", "New"}
    <3>1. {"Amending", "Created"} \cap Finished = {}
      BY DEF Finished
    <3>2. ex = "hyperliquid" /\ book = "expired" /\ "Amending" \notin Finished
      BY <1>2, <1>3, <2>2, <3>1 DEF Finished
    <3> QED BY <1>7, <2>2, <3>2 DEF EndShown, AmountShown
  <2>3. CASE order.status = v.status /\ v.cum <= order.cum
    <3>1. v.cum = traded => order.cum = traded
      BY <1>1, <2>3
    <3>2. "New" \notin Finished
      BY DEF Finished
    <3> QED BY <1>2, <1>5, <1>7, <2>3, <3>1, <3>2 DEF EndShown, AmountShown
  <2>4. v.status # "Amending"
    BY <1>2, <1>3 DEF Finished
  <2>6. CASE o.status = v.status /\ o.cum = Larger(order.cum, v.cum)
    BY <1>6, <2>6
  <2> QED BY <1>1, <2>1, <2>2, <2>3, <2>4, <2>6, UpdatedIs
<1> QED BY <1>1, <1>6, <1>7, UpdatedIs

\* What an older answer undoes, it undoes as reopened.
LEMMA EndStaysShown ==
  ASSUME Told, NEW v, NEW b, NEW n \in 0 .. traded, Shows(v, b, n),
         book \in Ended, b \notin Ended, ~failed, EndShown(order, reopened),
         NEW o, o.status = Updated(order, v).status, o.cum = Updated(order, v).cum,
         NEW r, r = (reopened \/ (order.status \in Finished /\ o.status \notin Finished))
  PROVE  EndShown(o, r)
<1>1. /\ traded \in Nat /\ order \in Order /\ v \in Order /\ order.cum \in Nat /\ v.cum \in Nat
      /\ Honest(order) /\ order.cum <= traded /\ v.cum <= traded
  <2>1. v \in Order /\ v.cum <= n /\ n <= traded /\ n \in Nat
    BY DEF Shows
  <2> QED BY <2>1, ToldIs, CumIs
<1>2. v.status \notin Finished
  BY DEF Shows, Finished
<1>3. EndStatus \in Finished /\ (ex = "aster" /\ book = "filled" => EndStatus = "Filled")
  BY EndStatusIs
<1>4. AmountShown(o)
  <2>1. order.cum = traded => o.cum = traded
    BY <1>1, UpdatedIs DEF Larger
  <2> QED BY <2>1 DEF EndShown, AmountShown
<1>5. CASE o.status = order.status
  BY <1>4, <1>5 DEF EndShown
<1>6. CASE o.status # order.status
  <2>1. o.status = v.status /\ order.status # "Filled"
    BY <1>1, <1>6, UpdatedIs
  <2>2. CASE order.status = EndStatus
    BY <1>2, <1>3, <1>4, <2>1, <2>2 DEF EndShown
  <2>3. CASE order.status # EndStatus
    BY <1>2, <1>4, <2>1, <2>3 DEF EndShown
  <2> QED BY <2>2, <2>3
<1> QED BY <1>5, <1>6
-----------------------------------------------------------------------------
(* What is told stays right                                                 *)

\* As long as nothing happens at the exchange.
LEMMA Carried ==
  ASSUME UNCHANGED marketVars, tableLost => tableLost', failed => failed'
  PROVE  /\ Honest(order') => Honest(order)'
         /\ EndShown(order', reopened') => EndShown(order, reopened)'
<1>1. ex' = ex /\ book' = book /\ traded' = traded
  BY DEF marketVars
<1>2. EndStatus' = EndStatus
  BY <1>1 DEF EndStatus
<1>3. AmountShown(order') => AmountShown(order)'
  BY <1>1 DEF AmountShown
<1> QED BY <1>1, <1>2, <1>3 DEF Honest, EndShown

\* The end of the order, when no push is taken.
LEMMA EndStill ==
  ASSUME EndComes, UNCHANGED <<marketVars, pushes>>, tableLost => tableLost',
         failed => failed', missed => missed', crashed => crashed',
         book \in Ended /\ ~failed /\ EndShown(order, reopened) => EndShown(order', reopened')
  PROVE  EndComes'
<1> SUFFICES ASSUME book \in Ended, ~(missed' \/ failed' \/ crashed')
    PROVE  \/ \E i \in DOMAIN pushes : pushes[i].event = book
           \/ EndShown(order, reopened)' /\ \A i \in DOMAIN pushes : pushes[i].event = "key"
  BY DEF EndComes, marketVars
<1> QED BY Carried DEF EndComes

\* What is on its way stays true while the exchange and the pushes stay as they are.
LEMMA PushedStill ==
  ASSUME Told, UNCHANGED <<marketVars, pushes, answers>>, expiries' \in {expiries, expiries + 1},
         expiries \in Nat
  PROVE  Pushed' /\ Served' /\ MarketTyped'
<1>1. ex' = ex /\ book' = book /\ traded' = traded /\ pushes' = pushes /\ answers' = answers
  BY DEF marketVars
<1>2. expiries > 0 => expiries' > 0
  OBVIOUS
<1>3. Pushed'
  BY <1>1, <1>2 DEF Told, Pushed
<1> QED BY <1>1, <1>3 DEF Told, Served, MarketTyped

\* A request says nothing of the order.
LEMMA AsksKeep == ASSUME RInv, Told, Asks PROVE Told'
<1>1. /\ UNCHANGED <<marketVars, tableVars, feedVars, subVars, keyVars>>
      /\ UNCHANGED <<order, failed, reopened, crashed>>
  BY DEF Asks, restVars
<1>2. PICK op \in Ops : Request(op) \/ HyperliquidSend(op)
  BY DEF Asks
<1>3. uid' = uid + 1 /\ answers' = answers /\ lost' \subseteq lost \cup {uid'}
  BY <1>2 DEF Request, HyperliquidSend
<1>4. uid' \in 1 .. MaxCalls /\ uid \in Nat
  BY <1>2, <1>3, SizesAssumption DEF RInv, Request, HyperliquidSend, MoreCalls, SizesAssumption
<1>5. PICK r : r = [uid |-> uid + 1, op |-> op]
  OBVIOUS
<1>6. r \in [uid : 1 .. MaxCalls, op : Ops]
  BY <1>3, <1>4, <1>5
<1>7. sent' \subseteq sent \cup {r}
  BY <1>2, <1>5 DEF Request, HyperliquidSend
<1>8. RequestsTyped'
  BY <1>3, <1>4, <1>6, <1>7 DEF Told, RequestsTyped
<1>9. OrderTyped'
  BY <1>1 DEF Told, OrderTyped, Asks
<1>10. TablesTyped'
  BY <1>1 DEF Told, TablesTyped, tableVars, feedVars, keyVars
<1>11. Pushed' /\ Served' /\ MarketTyped'
  BY <1>1, <1>3, PushedStill DEF Told, TablesTyped, feedVars, keyVars
<1>12. Honest(order)'
  BY <1>1, Carried DEF Told, tableVars
<1>13. EndComes'
  BY <1>1, EndStill DEF Told, feedVars, subVars, tableVars
<1> QED BY <1>8, <1>9, <1>10, <1>11, <1>12, <1>13 DEF Told

\* Marking an order as failed excuses it.
LEMMA MarksKeep == ASSUME Told, Marks PROVE Told'
<1>1. /\ UNCHANGED <<marketVars, tableVars, feedVars, subVars, keyVars>>
      /\ UNCHANGED <<placed, reopened, crashed, requestVars>>
  BY DEF Marks, restVars
<1>2. /\ order' \in Order /\ order'.cum = order.cum
      /\ \/ order'.status = order.status /\ failed' = failed
         \/ order'.status = "Failed" /\ failed' = TRUE
  BY DEF Marks
<1>3. RequestsTyped'
  BY <1>1 DEF Told, RequestsTyped, requestVars
<1>4. OrderTyped'
  BY <1>1, <1>2 DEF Told, OrderTyped
<1>5. TablesTyped'
  BY <1>1 DEF Told, TablesTyped, tableVars, feedVars, keyVars
<1>6. Pushed' /\ Served' /\ MarketTyped'
  BY <1>1, PushedStill DEF Told, TablesTyped, feedVars, keyVars, requestVars
<1>7. CASE order'.status = order.status /\ failed' = failed
  <2>1. Honest(order') /\ (EndShown(order, reopened) => EndShown(order', reopened'))
    BY <1>1, <1>2, <1>7 DEF Told, Honest, EndShown, AmountShown
  <2>2. Honest(order)'
    BY <1>1, <1>7, <2>1, Carried DEF tableVars
  <2>3. EndComes'
    BY <1>1, <1>7, <2>1, EndStill DEF Told, feedVars, subVars, tableVars
  <2> QED BY <1>3, <1>4, <1>5, <1>6, <2>2, <2>3 DEF Told
<1>8. CASE order'.status = "Failed" /\ failed' = TRUE
  <2>1. Honest(order)'
    BY <1>1, <1>2, <1>8 DEF Told, Honest, Finished, marketVars
  <2>2. EndComes'
    BY <1>8 DEF EndComes
  <2> QED BY <1>3, <1>4, <1>5, <1>6, <2>1, <2>2 DEF Told
<1> QED BY <1>2, <1>7, <1>8

\* A refused order.
LEMMA RefusedIs ==
  ASSUME NEW o \in Order, NEW t \in Times
  PROVE  Refused(o, t) \in Order /\ Refused(o, t).cum = o.cum /\ Refused(o, t).status = "Failed"
<1>1. PICK m \in Nat : m = t
  BY TimesAssumption
<1>2. PICK st \in OrderStatus : st = "Failed"
  BY DEF OrderStatus
<1>3. PICK e \in {"Ok", "Error"} : e = "Error"
  OBVIOUS
<1>4. PICK k : k = [o EXCEPT !.status = st, !.ec = e, !.milli = m]
  OBVIOUS
<1>5. k \in Order /\ k.cum = o.cum /\ k.status = st
  BY <1>4 DEF Order
<1>6. k = Refused(o, t)
  BY <1>1, <1>2, <1>3, <1>4 DEF Refused
<1> QED BY <1>2, <1>5, <1>6

\* A request leaves with its handler; nothing is added.
LEMMA CompletedTyped ==
  ASSUME Told, NEW u, Complete(u)
  PROVE  RequestsTyped' /\ answers' \subseteq answers
BY DEF Told, RequestsTyped, Complete

\* A failed request writes Failed, as failed records.
LEMMA FailsKeep == ASSUME Told, Fails PROVE Told'
<1>1. PICK u \in waiting, t \in Times : FailRequest(u, t)
  BY DEF Fails
<1>2. /\ order' = Refused(order, t) /\ failed' = TRUE /\ Complete(u)
      /\ UNCHANGED <<placed, reopened, crashed>>
      /\ UNCHANGED <<marketVars, tableVars, feedVars, subVars, keyVars>>
  BY <1>1 DEF FailRequest
<1>3. order' \in Order /\ order'.cum = order.cum /\ order'.status = "Failed"
  BY <1>2, RefusedIs DEF Told, OrderTyped
<1>4. OrderTyped'
  BY <1>2, <1>3 DEF Told, OrderTyped
<1>5. TablesTyped'
  BY <1>2 DEF Told, TablesTyped, tableVars, feedVars, keyVars
<1>6. MarketTyped' /\ Pushed'
  BY <1>2 DEF Told, MarketTyped, Pushed, marketVars, feedVars, keyVars
<1>7. RequestsTyped' /\ Served'
  BY <1>2, CompletedTyped DEF Told, Served, marketVars
<1>8. Honest(order)'
  BY <1>2, <1>3 DEF Told, Honest, Finished, marketVars
<1>9. EndComes'
  BY <1>2 DEF EndComes
<1> QED BY <1>4, <1>5, <1>6, <1>7, <1>8, <1>9 DEF Told

\* An answer fits what the exchange has reached; what it undoes is reopened.
LEMMA AnswersKeep == ASSUME Told, Answers PROVE Told'
<1>0. PICK a \in answers : \E o : Absorb(a, o) /\ Fits(o, a)
  BY DEF Answers
<1>1. PICK o : Absorb(a, o) /\ Fits(o, a)
  BY <1>0
<1>2. /\ order' = o /\ Complete(a.uid)
      /\ reopened' = (reopened \/ (order.status \in Finished /\ o.status \notin Finished))
      /\ UNCHANGED <<placed, failed, crashed>>
      /\ UNCHANGED <<marketVars, tableVars, feedVars, subVars, keyVars>>
  BY <1>1 DEF Absorb
<1>3. /\ o \in Order /\ a.n \in 0 .. traded /\ (a.b \in Ended => a.b = book /\ a.n = traded)
      /\ order.cum \in Nat /\ o.cum \in Nat
  <2>1. a.n \in 0 .. Qty /\ a.n <= traded
    BY DEF Told, RequestsTyped, Served
  <2>2. a.n \in 0 .. traded
    BY <2>1, ToldIs
  <2>3. o \in Order
    BY <1>1 DEF Fits
  <2> QED BY <2>2, <2>3, ToldIs, CumIs DEF Told, Served
<1>4. reopened' \in BOOLEAN
  <2>1. reopened \in BOOLEAN
    BY DEF Told, OrderTyped
  <2> QED BY <1>2, <2>1
<1>5. OrderTyped'
  BY <1>2, <1>3, <1>4 DEF Told, OrderTyped
<1>6. TablesTyped'
  BY <1>2 DEF Told, TablesTyped, tableVars, feedVars, keyVars
<1>7. MarketTyped' /\ Pushed'
  BY <1>2 DEF Told, MarketTyped, Pushed, marketVars, feedVars, keyVars
<1>8. RequestsTyped' /\ Served'
  BY <1>2, CompletedTyped DEF Told, Served, marketVars
<1>9. /\ Honest(o)
      /\ book \in Ended /\ ~failed /\ EndShown(order, reopened) => EndShown(o, reopened')
  <2>1. CASE /\ ex # "aster" /\ o.status \in {"New", "Canceling", "PartiallyFilled"}
             /\ o.cum = order.cum \/ (ex = "hyperliquid" /\ o.cum = a.n)
    <3>1. o.status # "Failed" /\ o.status \notin Finished
      BY <2>1 DEF Finished
    <3>2. o.cum <= traded /\ (AmountShown(order) => AmountShown(o))
      BY <1>3, <2>1, ToldIs DEF AmountShown
    <3>3. Honest(o)
      BY <3>1, <3>2 DEF Honest
    <3>4. book \in Ended => EndStatus \in Finished
      BY EndStatusIs
    <3>5. ASSUME book \in Ended, EndShown(order, reopened) PROVE EndShown(o, reopened')
      BY <1>2, <2>1, <3>1, <3>2, <3>4, <3>5 DEF EndShown
    <3> QED BY <3>3, <3>5
  <2>2. ASSUME NEW v, Shows(v, a.b, a.n),
               o.status = Updated(order, v).status, o.cum = Updated(order, v).cum
        PROVE  /\ Honest(o)
               /\ book \in Ended /\ ~failed /\ EndShown(order, reopened) => EndShown(o, reopened')
    <3>1. Honest(o)
      BY <1>3, <2>2, HonestStays
    <3>2. ASSUME book \in Ended, ~failed, EndShown(order, reopened) PROVE EndShown(o, reopened')
      <4>1. CASE a.b \in Ended
        <5>1. Shows(v, book, traded)
          BY <1>3, <2>2, <4>1
        <5> QED BY <2>2, <3>2, <5>1, EndIsShown
      <4>2. CASE a.b \notin Ended
        BY <1>2, <1>3, <2>2, <3>2, <4>2, EndStaysShown
      <4> QED BY <4>1, <4>2
    <3> QED BY <3>1, <3>2
  <2> QED BY <1>1, <2>1, <2>2 DEF Fits
<1>10. Honest(order)'
  BY <1>2, <1>9, Carried DEF tableVars
<1>11. EndComes'
  BY <1>2, <1>9, EndStill DEF Told, feedVars, subVars, tableVars
<1> QED BY <1>5, <1>6, <1>7, <1>8, <1>10, <1>11 DEF Told

\* What is on its way, after a push was taken.
LEMMA PushedTaken ==
  ASSUME Told, NextPush, UNCHANGED keyVars
  PROVE  Pushed'
<1>1. /\ pushes' \in Seq(PushRecord)
      /\ \A i \in DOMAIN pushes' : i \in Nat /\ i + 1 \in DOMAIN pushes /\ pushes'[i] = pushes[i + 1]
  BY PushTaken DEF Told, Pushed, NextPush
<1>2. ex' = ex /\ book' = book /\ traded' = traded /\ expiries' = expiries
  BY DEF NextPush, marketVars, keyVars
<1>3. ASSUME NEW i \in DOMAIN pushes'
      PROVE  /\ pushes'[i].n <= traded
             /\ pushes'[i].event \in Ended =>
                  /\ pushes'[i].event = book /\ pushes'[i].n = traded
                  /\ \A j \in DOMAIN pushes' : i < j => pushes'[j].event = "key"
             /\ pushes'[i].event = "key" => ex = "aster" /\ expiries > 0
  <2>1. i \in Nat /\ i + 1 \in DOMAIN pushes /\ pushes'[i] = pushes[i + 1]
    BY <1>1
  <2>2. ASSUME pushes'[i].event \in Ended, NEW j \in DOMAIN pushes', i < j
        PROVE  pushes'[j].event = "key"
    <3>1. j \in Nat /\ j + 1 \in DOMAIN pushes /\ pushes'[j] = pushes[j + 1] /\ i + 1 < j + 1
      BY <1>1, <2>1, <2>2
    <3>2. pushes[j + 1].event = "key"
      BY <2>1, <2>2, <3>1 DEF Told, Pushed
    <3> QED BY <3>1, <3>2
  <2> QED BY <2>1, <2>2 DEF Told, Pushed
<1> QED BY <1>1, <1>2, <1>3 DEF Pushed

\* A push: the end is still under way, or has just come.
LEMMA HearsKeep == ASSUME Told, Hears PROVE Told'
<1>0. PICK v : Dispatch(v) /\ Shows(v, Head(pushes).event, Head(pushes).n)
  BY DEF Hears
<1>1. /\ order' = IF handler THEN Updated(order, v) ELSE order
      /\ missed' = (missed \/ ~handler)
      /\ UNCHANGED <<placed, failed, reopened, crashed>>
      /\ UNCHANGED <<marketVars, tableVars, requestVars, drops, keyVars>>
      /\ pushes # <<>> /\ pushes' = Tail(pushes) /\ Head(pushes).event # "key"
  BY <1>0 DEF Hears, Dispatch, NextPush
<1>2. /\ 1 \in DOMAIN pushes /\ Head(pushes) = pushes[1] /\ pushes[1] \in PushRecord
      /\ \A i \in DOMAIN pushes' : i \in Nat /\ i >= 1 /\ i + 1 \in DOMAIN pushes /\ pushes'[i] = pushes[i + 1]
      /\ \A i \in DOMAIN pushes : i = 1 \/ (i - 1 \in DOMAIN pushes' /\ pushes'[i - 1] = pushes[i])
  BY <1>1, PushTaken DEF Told, Pushed
<1>3. PICK b, n : b = pushes[1].event /\ n = pushes[1].n
  OBVIOUS
<1>4. /\ n \in 0 .. traded /\ (b \in Ended => b = book /\ n = traded) /\ b # "key"
      /\ Shows(v, b, n)
  <2>1. n \in 0 .. Qty /\ n <= traded /\ (b \in Ended => b = book /\ n = traded)
    BY <1>2, <1>3 DEF Told, Pushed, PushRecord
  <2>2. n \in 0 .. traded
    BY <2>1, ToldIs
  <2> QED BY <1>0, <1>1, <1>2, <1>3, <2>1, <2>2
<1>5. /\ Honest(order') /\ order' \in Order
  <2>1. CASE handler
    <3>1. order' = Updated(order, v) /\ v \in Order /\ order \in Order
      BY <1>1, <1>4, <2>1, ToldIs DEF Shows
    <3> QED BY <1>4, <3>1, HonestStays, UpdatedIs
  <2>2. CASE ~handler
    BY <1>1, <2>2, ToldIs
  <2> QED BY <2>1, <2>2
<1>6. OrderTyped'
  BY <1>1, <1>5 DEF Told, OrderTyped
<1>7. TablesTyped'
  BY <1>1 DEF Told, TablesTyped, tableVars, keyVars
<1>8. MarketTyped' /\ Served' /\ RequestsTyped'
  BY <1>1 DEF Told, MarketTyped, Served, RequestsTyped, marketVars, requestVars
<1>9. Pushed'
  BY PushedTaken DEF Hears
<1>10. Honest(order)'
  BY <1>1, <1>5, Carried DEF tableVars
<1>11. ASSUME book \in Ended, ~missed, handler, ~failed, ~crashed
       PROVE  \/ \E i \in DOMAIN pushes' : pushes'[i].event = book
              \/ EndShown(order', reopened') /\ \A i \in DOMAIN pushes' : pushes'[i].event = "key"
  <2>1. PICK i \in DOMAIN pushes : pushes[i].event = book
    BY <1>1, <1>2, <1>11 DEF Told, EndComes
  <2>2. CASE i = 1
    <3>1. b = book /\ n = traded
      BY <1>3, <1>4, <1>11, <2>1, <2>2
    <3>2. order' = Updated(order, v)
      BY <1>1, <1>11
    <3>3. EndShown(order', reopened')
      BY <1>4, <1>11, <3>1, <3>2, EndIsShown
    <3>4. ASSUME NEW j \in DOMAIN pushes' PROVE pushes'[j].event = "key"
      <4>1. j \in Nat /\ j >= 1 /\ j + 1 \in DOMAIN pushes /\ pushes'[j] = pushes[j + 1] /\ 1 < j + 1
        BY <1>2
      <4>2. pushes[1].event \in Ended
        BY <1>3, <1>11, <3>1
      <4> QED BY <1>2, <4>1, <4>2 DEF Told, Pushed
    <3> QED BY <3>3, <3>4
  <2>3. CASE i # 1
    BY <1>2, <2>1, <2>3
  <2> QED BY <2>2, <2>3
<1>12. EndComes'
  <2> SUFFICES ASSUME book' \in Ended, ~(missed' \/ failed' \/ crashed')
      PROVE  \/ \E i \in DOMAIN pushes' : pushes'[i].event = book'
             \/ EndShown(order, reopened)' /\ \A i \in DOMAIN pushes' : pushes'[i].event = "key"
    BY DEF EndComes
  <2>1. book' = book /\ ~missed /\ handler /\ ~failed /\ ~crashed
    BY <1>1 DEF marketVars
  <2>2. EndShown(order', reopened') => EndShown(order, reopened)'
    BY <1>1, Carried DEF tableVars
  <2> QED BY <1>11, <2>1, <2>2
<1> QED BY <1>6, <1>7, <1>8, <1>9, <1>10, <1>12 DEF Told

\* Nothing is claimed after a null order.
LEMMA NullsKeep == ASSUME Told, Nulls PROVE Told'
<1>1. /\ crashed' = TRUE /\ UNCHANGED <<order, placed, failed, reopened>>
      /\ UNCHANGED <<marketVars, tableVars, requestVars, drops, keyVars>>
  BY DEF Nulls, NullOrder, NextPush, feedVars
<1>2. OrderTyped'
  BY <1>1 DEF Told, OrderTyped
<1>3. TablesTyped' /\ MarketTyped' /\ Served' /\ RequestsTyped'
  BY <1>1 DEF Told, TablesTyped, MarketTyped, Served, RequestsTyped, marketVars, requestVars,
              tableVars, keyVars
<1>4. Pushed'
  <2>1. CASE NextPush
    BY <1>1, <2>1, PushedTaken
  <2>2. CASE pushes' = pushes
    BY <1>1, <2>2 DEF Told, Pushed, marketVars, keyVars
  <2> QED BY <2>1, <2>2 DEF Nulls, feedVars
<1>5. Honest(order)'
  BY <1>1, Carried DEF Told, tableVars
<1>6. EndComes'
  BY <1>1 DEF EndComes
<1> QED BY <1>2, <1>3, <1>4, <1>5, <1>6 DEF Told

\* The word about the key is no word about the order.
LEMMA KeyPushKeeps ==
  ASSUME Told, Wired, AsterKeyExpired
  PROVE  Told' /\ Wired'
<1>1. /\ pushes # <<>> /\ pushes' = Tail(pushes) /\ Head(pushes).event = "key" /\ ex = "aster"
      /\ fetches' = [fetches EXCEPT !.renew = @ + 1]
      /\ UNCHANGED <<key, path, live, expiries, orderVars, subVars>>
      /\ UNCHANGED <<conn, stopping, feeds, drops, marketVars, tableVars, requestVars>>
  BY DEF AsterKeyExpired, NextPush
<1>2. /\ 1 \in DOMAIN pushes /\ Head(pushes) = pushes[1] /\ pushes' \in Seq(PushRecord)
      /\ \A i \in DOMAIN pushes' : i \in Nat /\ i >= 1 /\ i + 1 \in DOMAIN pushes /\ pushes'[i] = pushes[i + 1]
      /\ \A i \in DOMAIN pushes : i = 1 \/ (i - 1 \in DOMAIN pushes' /\ pushes'[i - 1] = pushes[i])
  BY <1>1, PushTaken DEF Told, Pushed
<1>3. expiries > 0 /\ expiries' > 0 /\ "key" \notin Ended
  BY <1>1, <1>2 DEF Told, Pushed, Ended
<1>4. OrderTyped'
  BY <1>1 DEF Told, OrderTyped, orderVars
<1>5. TablesTyped' /\ MarketTyped' /\ Served' /\ RequestsTyped'
  BY <1>1 DEF Told, TablesTyped, MarketTyped, Served, RequestsTyped, marketVars, requestVars,
              tableVars
<1>6. Pushed'
  <2>1. ex' = ex /\ book' = book /\ traded' = traded
    BY <1>1 DEF marketVars
  <2>2. ASSUME NEW i \in DOMAIN pushes'
        PROVE  /\ pushes'[i].n <= traded
               /\ pushes'[i].event \in Ended =>
                    /\ pushes'[i].event = book /\ pushes'[i].n = traded
                    /\ \A j \in DOMAIN pushes' : i < j => pushes'[j].event = "key"
    <3>1. i \in Nat /\ i + 1 \in DOMAIN pushes /\ pushes'[i] = pushes[i + 1]
      BY <1>2
    <3>2. ASSUME pushes'[i].event \in Ended, NEW j \in DOMAIN pushes', i < j
          PROVE  pushes'[j].event = "key"
      <4>1. j \in Nat /\ j + 1 \in DOMAIN pushes /\ pushes'[j] = pushes[j + 1] /\ i + 1 < j + 1
        BY <1>2, <3>1, <3>2
      <4>2. pushes[j + 1].event = "key"
        BY <3>1, <3>2, <4>1 DEF Told, Pushed
      <4> QED BY <4>1, <4>2
    <3> QED BY <3>1, <3>2 DEF Told, Pushed
  <2> QED BY <1>1, <1>2, <1>3, <2>1, <2>2 DEF Pushed
<1>7. Honest(order)'
  BY <1>1, Carried DEF Told, tableVars, orderVars
<1>8. EndComes'
  <2> SUFFICES ASSUME book' \in Ended, ~(missed' \/ failed' \/ crashed')
      PROVE  \/ \E i \in DOMAIN pushes' : pushes'[i].event = book'
             \/ EndShown(order, reopened)' /\ \A i \in DOMAIN pushes' : pushes'[i].event = "key"
    BY DEF EndComes
  <2>1. book' = book /\ order' = order /\ reopened' = reopened /\ ~missed /\ ~failed /\ ~crashed
    BY <1>1 DEF marketVars, orderVars, subVars
  <2>2. CASE \E i \in DOMAIN pushes : pushes[i].event = book
    <3>1. PICK i \in DOMAIN pushes : pushes[i].event = book
      BY <2>2
    <3>2. i # 1
      BY <1>1, <1>2, <1>3, <2>1, <3>1
    <3> QED BY <1>2, <2>1, <3>1, <3>2
  <2>3. CASE EndShown(order, reopened) /\ \A i \in DOMAIN pushes : pushes[i].event = "key"
    <3>1. EndShown(order, reopened)'
      BY <1>1, <2>1, <2>3, Carried DEF tableVars
    <3>2. \A i \in DOMAIN pushes' : pushes'[i].event = "key"
      BY <1>2, <2>3
    <3> QED BY <3>1, <3>2
  <2> QED BY <2>1, <2>2, <2>3 DEF Told, EndComes
<1>9. SubTyped' /\ ConnTyped'
  BY <1>1 DEF Wired, SubTyped, ConnTyped, subVars
<1>10. KeysTyped'
  <2>1. fetches \in [plain : Nat, renew : Nat]
    BY DEF Wired, KeysTyped
  <2>2. fetches' \in [plain : Nat, renew : Nat]
    BY <1>1, <2>1
  <2> QED BY <1>1, <2>2 DEF Wired, KeysTyped
<1>11. KeyLives'
  BY <1>1, <1>3 DEF KeyLives
<1>12. Fed'
  BY <1>1 DEF Wired, Fed, Silenced, subVars, marketVars
<1> QED BY <1>4, <1>5, <1>6, <1>7, <1>8, <1>9, <1>10, <1>11, <1>12 DEF Told, Wired

\* The subscription is no part of what the order knows.
LEMMA RewiresKeep == ASSUME Told, Rewires PROVE Told'
<1>1. UNCHANGED <<marketVars, tableVars, orderVars, requestVars, pushes, drops, expiries, missed>>
  BY DEF Rewires
<1>2. OrderTyped'
  BY <1>1 DEF Told, OrderTyped, orderVars
<1>3. TablesTyped' /\ RequestsTyped'
  BY <1>1 DEF Told, TablesTyped, RequestsTyped, requestVars, tableVars
<1>4. Pushed' /\ Served' /\ MarketTyped'
  BY <1>1 DEF Told, Pushed, Served, MarketTyped, marketVars, requestVars
<1>5. Honest(order)'
  BY <1>1, Carried DEF Told, tableVars, orderVars
<1>6. EndComes'
  BY <1>1, EndStill DEF Told, tableVars, orderVars
<1> QED BY <1>2, <1>3, <1>4, <1>5, <1>6 DEF Told

\* What does not touch the subscription.
LEMMA WiresStay ==
  ASSUME Wired,
         UNCHANGED <<ex, conn, stopping, feeds, handler, wants, broken, keyVars>>,
         missed' \in BOOLEAN
  PROVE  Wired'
BY DEF Wired, SubTyped, KeysTyped, ConnTyped, KeyLives, Fed, Silenced, keyVars

\* Requests, answers and pushes of the order leave the subscription alone.
LEMMA StepWires ==
  ASSUME Wired, Asks \/ Marks \/ Fails \/ Answers \/ Hears \/ Nulls
  PROVE  Wired'
<1>1. UNCHANGED <<ex, conn, stopping, feeds, handler, wants, broken, keyVars>>
  BY DEF Asks, Marks, Fails, FailRequest, Answers, Absorb, Hears, NextPush, Dispatch, Nulls,
         restVars, marketVars, feedVars, subVars
<1>2. missed \in BOOLEAN
  BY DEF Wired, SubTyped
<1>3. missed' = missed \/ missed' = (missed \/ ~handler)
  BY DEF Asks, Marks, Fails, FailRequest, Answers, Absorb, Hears, Dispatch, Nulls, restVars,
         subVars
<1> QED BY <1>1, <1>2, <1>3, WiresStay

-----------------------------------------------------------------------------
(* The exchange's own steps                                                 *)

\* A push is typed and tells no more than traded.
LEMMA PushIs ==
  ASSUME Told, NEW i \in DOMAIN pushes
  PROVE  /\ pushes[i].n \in Nat /\ pushes[i].n <= traded
         /\ pushes[i].event \in Ended => pushes[i].event = book
         /\ pushes[i].event = "key" => ex = "aster" /\ expiries > 0
<1>1. pushes \in Seq(PushRecord)
  BY DEF Told, Pushed
<1>2. pushes[i] \in PushRecord
  BY <1>1
<1>3. pushes[i].n \in Nat
  BY <1>2, SizesAssumption DEF PushRecord, SizesAssumption
<1> QED BY <1>3 DEF Told, Pushed

\* The order changes at the exchange, which may also answer a request.
LEMMA BecomesKeeps ==
  ASSUME Told, NEW b \in BookStates \ {"none"}, NEW n \in traded .. Qty, Becomes(b, n),
         book \notin Ended, b = "open" => n < Qty,
         UNCHANGED <<tableVars, orderVars, keyVars>>,
         RequestsTyped', \A a \in answers' : a \in answers \/ (a.b = b /\ a.n = n)
  PROVE  Told'
<1>1. /\ book' = b /\ traded' = n /\ ex' = ex /\ drops' = drops
      /\ pushes' = IF feeds THEN Append(pushes, [event |-> b, n |-> n]) ELSE pushes
      /\ missed' = (missed \/ ~feeds)
  BY DEF Becomes
<1>2. traded \in Nat /\ Qty \in Nat /\ n \in Nat /\ traded <= n /\ n <= Qty
  BY ToldIs, SizesAssumption DEF SizesAssumption
<1>3. PICK p : p = [event |-> b, n |-> n]
  OBVIOUS
<1>4. p \in PushRecord /\ p.event = b /\ p.n = n /\ b # "key"
  BY <1>2, <1>3 DEF PushRecord, BookStates, Ended
<1>5. OrderTyped' /\ TablesTyped'
  BY <1>1 DEF Told, OrderTyped, TablesTyped, orderVars, tableVars, keyVars
<1>6. MarketTyped'
  BY <1>1, <1>2 DEF Told, MarketTyped
<1>7. Served'
  BY <1>1, <1>2 DEF Told, Served, RequestsTyped
<1>8. Honest(order)'
  <2>1. order.cum <= n
    BY <1>2, ToldIs
  <2>2. order.status \notin Finished /\ (order.status = "Failed" => failed)
    BY ToldIs DEF Honest
  <2> QED BY <1>1, <2>1, <2>2 DEF Honest, orderVars
<1>9. CASE ~feeds
  <2>1. Pushed'
    <3>1. \A i \in DOMAIN pushes : pushes[i].event \notin Ended /\ pushes[i].n <= n
      BY <1>2, PushIs
    <3> QED BY <1>1, <1>9, <3>1 DEF Told, Pushed, keyVars
  <2>2. EndComes'
    BY <1>1, <1>9 DEF EndComes
  <2> QED BY <1>5, <1>6, <1>7, <1>8, <2>1, <2>2 DEF Told
<1>10. CASE feeds
  <2>1. /\ pushes' \in Seq(PushRecord)
        /\ \A i \in DOMAIN pushes' : \/ i \in DOMAIN pushes /\ pushes'[i] = pushes[i]
                                     \/ pushes'[i] = p /\ \A j \in DOMAIN pushes' : ~(i < j)
        /\ \E i \in DOMAIN pushes' : pushes'[i] = p
    BY <1>1, <1>3, <1>4, <1>10, PushAdded DEF Told, Pushed
  <2>2. ASSUME NEW i \in DOMAIN pushes'
        PROVE  /\ pushes'[i].n <= n
               /\ pushes'[i].event \in Ended =>
                    /\ pushes'[i].event = b /\ pushes'[i].n = n
                    /\ \A j \in DOMAIN pushes' : i < j => pushes'[j].event = "key"
               /\ pushes'[i].event = "key" => ex = "aster" /\ expiries > 0
    <3>1. CASE i \in DOMAIN pushes /\ pushes'[i] = pushes[i]
      <4>1. pushes[i].event \notin Ended /\ pushes[i].n <= traded /\ pushes[i].n \in Nat
        BY <3>1, PushIs
      <4> QED BY <1>2, <3>1, <4>1 DEF Told, Pushed
    <3>2. CASE pushes'[i] = p /\ \A j \in DOMAIN pushes' : ~(i < j)
      BY <1>2, <1>4, <3>2
    <3> QED BY <2>1, <3>1, <3>2
  <2>3. Pushed'
    BY <1>1, <2>1, <2>2 DEF Pushed, keyVars
  <2>4. EndComes'
    BY <1>1, <1>4, <2>1 DEF EndComes
  <2> QED BY <1>5, <1>6, <1>7, <1>8, <2>3, <2>4 DEF Told
<1> QED BY <1>9, <1>10

\* The exchange does not touch the subscription.
LEMMA BecomesWires ==
  ASSUME Wired, NEW b, NEW n, Becomes(b, n), UNCHANGED keyVars
  PROVE  Wired'
<1>1. UNCHANGED <<ex, conn, stopping, feeds, handler, wants, broken, keyVars>>
  BY DEF Becomes
<1>2. missed' \in BOOLEAN
  <2>1. missed \in BOOLEAN /\ missed' = (missed \/ ~feeds)
    BY DEF Becomes, Wired, SubTyped
  <2> QED BY <2>1
<1> QED BY <1>1, <1>2, WiresStay

\* An answer carries the state of the order as it is then.
LEMMA AnswerTyped ==
  ASSUME Told, NEW r \in sent, NEW ok \in BOOLEAN, Answer(r, ok),
         book' \in BookStates, traded' \in 0 .. Qty
  PROVE  /\ RequestsTyped'
         /\ \A a \in answers' : a \in answers \/ (a.b = book' /\ a.n = traded')
<1>1. PICK a : a = [uid |-> r.uid, op |-> r.op, ok |-> ok, b |-> book', n |-> traded']
  OBVIOUS
<1>2. r.uid \in 1 .. MaxCalls /\ r.op \in Ops
  BY DEF Told, RequestsTyped
<1>3. a \in [uid : 1 .. MaxCalls, op : Ops, ok : BOOLEAN, b : BookStates, n : 0 .. Qty]
  BY <1>1, <1>2
<1>4. a.b = book' /\ a.n = traded'
  BY <1>1
<1>5. /\ sent' = sent \ {r} /\ answers' = answers \cup {a} /\ uid' = uid /\ lost' = lost
  BY <1>1 DEF Answer
<1>6. RequestsTyped'
  BY <1>3, <1>5 DEF Told, RequestsTyped
<1> QED BY <1>4, <1>5, <1>6

\* An answer while the order stays as it is.
LEMMA AnswerTells ==
  ASSUME Told, NEW r \in sent, NEW ok \in BOOLEAN, Answer(r, ok),
         UNCHANGED <<marketVars, feedVars, subVars, tableVars, orderVars, keyVars>>
  PROVE  Told'
<1>1. ex' = ex /\ book' = book /\ traded' = traded /\ traded \in 0 .. Qty /\ book \in BookStates
  BY DEF Told, MarketTyped, marketVars
<1>2. RequestsTyped' /\ \A a \in answers' : a \in answers \/ (a.b = book /\ a.n = traded)
  BY <1>1, AnswerTyped
<1>3. OrderTyped' /\ TablesTyped' /\ MarketTyped' /\ Pushed'
  BY <1>1 DEF Told, OrderTyped, TablesTyped, MarketTyped, Pushed, orderVars, tableVars, feedVars,
              keyVars
<1>4. Served'
  BY <1>1, <1>2, ToldIs DEF Told, Served
<1>5. Honest(order)'
  BY Carried DEF Told, tableVars, orderVars
<1>6. EndComes'
  BY EndStill DEF Told, feedVars, subVars, tableVars, orderVars
<1> QED BY <1>2, <1>3, <1>4, <1>5, <1>6 DEF Told

\* Every step of the exchange's own.
LEMMA MarketKeeps ==
  ASSUME Told, Wired, RequestsAtExchange \/ Match \/ \E b \in {"canceled", "expired"} : End(b)
  PROVE  Told' /\ Wired'
<1>1. /\ traded \in Nat /\ Qty \in Nat /\ traded <= Qty /\ Qty # 0
      /\ book = "open" => traded < Qty
      /\ book = "none" => traded = 0
  BY ToldIs, SizesAssumption DEF Told, MarketTyped, SizesAssumption
<1>2. "open" \notin Ended /\ "none" \notin Ended
  BY DEF Ended
<1>3. ASSUME NEW r \in sent, NEW n \in 0 .. Qty, AcceptOrder(r, n)
      PROVE  Told' /\ Wired'
  <2>1. PICK b : b = IF n = Qty THEN "filled" ELSE "open"
    OBVIOUS
  <2>2. /\ Becomes(b, n) /\ Answer(r, TRUE) /\ book = "none"
        /\ UNCHANGED <<tableVars, orderVars, keyVars>>
    BY <1>3, <2>1 DEF AcceptOrder
  <2>3. b \in BookStates \ {"none"} /\ n \in traded .. Qty /\ (b = "open" => n < Qty)
    BY <1>1, <2>1, <2>2 DEF BookStates
  <2>4. book' = b /\ traded' = n
    BY <2>2 DEF Becomes
  <2>5. RequestsTyped' /\ \A a \in answers' : a \in answers \/ (a.b = b /\ a.n = n)
    BY <2>2, <2>3, <2>4, AnswerTyped
  <2> QED BY <1>2, <2>2, <2>3, <2>5, BecomesKeeps, BecomesWires
<1>4. ASSUME NEW r \in sent, AcceptCancel(r)
      PROVE  Told' /\ Wired'
  <2>1. PICK b : b = "canceled"
    OBVIOUS
  <2>2. /\ Becomes(b, traded) /\ Answer(r, TRUE) /\ book = "open"
        /\ UNCHANGED <<tableVars, orderVars, keyVars>>
    BY <1>4, <2>1 DEF AcceptCancel
  <2>3. b \in BookStates \ {"none"} /\ traded \in traded .. Qty /\ b # "open"
    BY <1>1, <2>1 DEF BookStates
  <2>4. book' = b /\ traded' = traded /\ traded \in 0 .. Qty
    BY <1>1, <2>2 DEF Becomes
  <2>5. RequestsTyped' /\ \A a \in answers' : a \in answers \/ (a.b = b /\ a.n = traded)
    BY <2>2, <2>3, <2>4, AnswerTyped
  <2> QED BY <1>2, <2>2, <2>3, <2>5, BecomesKeeps, BecomesWires
<1>5. ASSUME NEW r \in sent, AnswerQuery(r) \/ Refuse(r)
      PROVE  Told' /\ Wired'
  <2>1. PICK ok \in BOOLEAN : Answer(r, ok)
    BY <1>5 DEF AnswerQuery, Refuse
  <2>2. UNCHANGED <<marketVars, feedVars, subVars, tableVars, orderVars, keyVars>>
    BY <1>5 DEF AnswerQuery, Refuse
  <2>3. Wired'
    <3>1. UNCHANGED <<ex, conn, stopping, feeds, handler, wants, broken, keyVars>> /\ missed' = missed
      BY <2>2 DEF marketVars, feedVars, subVars
    <3>2. missed \in BOOLEAN
      BY DEF Wired, SubTyped
    <3> QED BY <3>1, <3>2, WiresStay
  <2> QED BY <2>1, <2>2, <2>3, AnswerTells
<1>6. ASSUME NEW b \in {"open", "filled", "canceled", "expired"}, NEW n \in traded .. Qty,
             Becomes(b, n), book = "open", b = "open" => n < Qty,
             UNCHANGED <<tableVars, orderVars, requestVars, keyVars>>
      PROVE  Told' /\ Wired'
  <2>1. b \in BookStates \ {"none"}
    BY DEF BookStates
  <2>2. RequestsTyped' /\ answers' = answers
    BY <1>6 DEF Told, RequestsTyped, requestVars
  <2> QED BY <1>2, <1>6, <2>1, <2>2, BecomesKeeps, BecomesWires
<1>7. CASE Match
  <2>1. PICK b, n : n = traded + 1 /\ b = IF n = Qty THEN "filled" ELSE "open"
    OBVIOUS
  <2>2. book = "open" /\ Becomes(b, n) /\ UNCHANGED <<tableVars, orderVars, requestVars, keyVars>>
    BY <1>7, <2>1 DEF Match
  <2>3. /\ b \in {"open", "filled", "canceled", "expired"} /\ n \in traded .. Qty
        /\ b = "open" => n < Qty
    BY <1>1, <2>1, <2>2
  <2> QED BY <1>6, <2>2, <2>3
<1>8. CASE \E b \in {"canceled", "expired"} : End(b)
  <2>1. PICK b \in {"canceled", "expired"} : End(b)
    BY <1>8
  <2>2. /\ book = "open" /\ Becomes(b, traded)
        /\ UNCHANGED <<tableVars, orderVars, requestVars, keyVars>>
    BY <2>1 DEF End
  <2>3. traded \in traded .. Qty /\ b # "open" /\ b \in {"open", "filled", "canceled", "expired"}
    BY <1>1
  <2> QED BY <1>6, <2>2, <2>3
<1> QED BY <1>3, <1>4, <1>5, <1>7, <1>8 DEF RequestsAtExchange

-----------------------------------------------------------------------------
(* The tables, the connection and the key                                   *)

\* A fault is counted within the bound.
LEMMA FaultsCount ==
  ASSUME Told, MoreFaults
  PROVE  /\ refreshes + 1 \in Nat /\ drops + 1 \in Nat /\ expiries + 1 \in Nat
         /\ refreshes \in Nat /\ drops \in Nat /\ expiries \in Nat
         /\ refreshes + drops + expiries + 1 <= MaxFaults
BY SizesAssumption DEF Told, TablesTyped, MoreFaults, SizesAssumption

\* Emptied tables spoil only what is told afterwards.
LEMMA RefreshKeeps == ASSUME Told, Wired, RefreshPairs PROVE Told' /\ Wired'
<1>1. /\ refreshes' = refreshes + 1 /\ pairs' \in BOOLEAN /\ tableLost' = (tableLost \/ ~pairs')
      /\ UNCHANGED <<marketVars, orderVars, requestVars, feedVars, subVars, keyVars>>
      /\ MoreFaults
  BY DEF RefreshPairs
<1>2. TablesTyped'
  <2>1. tableLost' \in BOOLEAN
    <3>1. tableLost \in BOOLEAN
      BY DEF Told, TablesTyped
    <3> QED BY <1>1, <3>1
  <2>2. drops' = drops /\ expiries' = expiries
    BY <1>1 DEF feedVars, keyVars
  <2>3. ~tableLost' => pairs'
    BY <1>1
  <2>4. {refreshes', drops', expiries'} \subseteq Nat /\ refreshes' + drops' + expiries' <= MaxFaults
    BY <1>1, <2>2, FaultsCount
  <2> QED BY <1>1, <2>1, <2>3, <2>4 DEF TablesTyped
<1>3. OrderTyped' /\ RequestsTyped'
  BY <1>1 DEF Told, OrderTyped, RequestsTyped, orderVars, requestVars
<1>4. Pushed' /\ Served' /\ MarketTyped'
  BY <1>1 DEF Told, Pushed, Served, MarketTyped, marketVars, requestVars, feedVars, keyVars
<1>5. Honest(order)'
  BY <1>1, Carried DEF Told, Honest, AmountShown, orderVars
<1>6. EndComes'
  BY <1>1, EndStill DEF Told, feedVars, subVars, orderVars
<1>7. Wired'
  <2>1. UNCHANGED <<ex, conn, stopping, feeds, handler, wants, broken, keyVars>> /\ missed' = missed
    BY <1>1 DEF marketVars, feedVars, subVars
  <2> QED BY <2>1, WiresStay DEF Wired, SubTyped
<1> QED BY <1>2, <1>3, <1>4, <1>5, <1>6, <1>7 DEF Told

\* The connection comes up, fed where the path or the header tells whose it is.
LEMMA ConnectedRewires == ASSUME Told, Wired, Connected PROVE Rewires
<1>1. /\ conn \in {"opening", "connecting"} /\ conn' = "up" /\ feeds' = FeedsNewConnection
      /\ UNCHANGED <<stopping, pushes, drops>>
      /\ UNCHANGED <<marketVars, tableVars, orderVars, requestVars, subVars, keyVars>>
  BY DEF Connected
<1>2. UNCHANGED <<ex, handler, wants, broken, missed, key, path, live, expiries, fetches>>
  BY <1>1 DEF marketVars, subVars, keyVars
<1>3. /\ ex = "edgex" => feeds' = TRUE
      /\ ex \in {"aster", "toobit"} => feeds' = ValidKey(path)
      /\ ex \notin {"aster", "toobit", "edgex"} => feeds' = FALSE
  <2>1. ex = "edgex" => FeedsNewConnection = TRUE
    BY DEF FeedsNewConnection
  <2>2. ASSUME ex \in {"aster", "toobit"} PROVE FeedsNewConnection = ValidKey(path)
    <3>1. ex # "edgex"
      BY <2>2
    <3> QED BY <2>2, <3>1 DEF FeedsNewConnection
  <2>3. ex \notin {"aster", "toobit", "edgex"} => FeedsNewConnection = FALSE
    BY DEF FeedsNewConnection
  <2> QED BY <1>1, <2>1, <2>2, <2>3
<1>4. ex \in {"aster", "toobit"} /\ expiries = 0 => ValidKey(path)
  <2> SUFFICES ASSUME ex \in {"aster", "toobit"}, expiries = 0 PROVE ValidKey(path)
    OBVIOUS
  <2>1. path = 1 /\ live
    BY <1>1 DEF Wired, KeyLives
  <2>2. path = expiries + 1
    BY <2>1
  <2> QED BY <2>1, <2>2 DEF ValidKey
<1>5. ConnTyped'
  <2>1. live \in BOOLEAN /\ ValidKey(path) \in BOOLEAN
    BY DEF Wired, KeysTyped, ValidKey
  <2>2. feeds' \in BOOLEAN
    BY <1>3, <2>1
  <2> QED BY <1>1, <2>2 DEF Wired, ConnTyped
<1>6. SubTyped' /\ KeysTyped' /\ KeyLives'
  BY <1>1, <1>2 DEF Wired, SubTyped, KeysTyped, KeyLives
<1>7. Fed'
  <2>1. ASSUME wants, ~Silenced PROVE handler /\ ex \notin {"phemex", "hyperliquid"} /\ feeds'
    <3>1. ex \in Exchanges
      BY DEF Told, MarketTyped
    <3>2. handler /\ ex \notin {"phemex", "hyperliquid"} /\ ~(expiries > 0)
      BY <1>1, <2>1 DEF Wired, Fed, Silenced
    <3>3. expiries = 0
      BY <3>2 DEF Wired, KeysTyped
    <3> QED BY <1>3, <1>4, <3>1, <3>2, <3>3, ExchangesAssumption DEF ExchangesAssumption
  <2>2. Silenced' <=> Silenced
    BY <1>1, <1>2 DEF Silenced
  <2>3. feeds' \in BOOLEAN
    BY <1>5 DEF ConnTyped
  <2> QED BY <1>1, <1>2, <1>3, <1>4, <2>1, <2>2, <2>3 DEF Wired, Fed
<1> QED BY <1>1, <1>2, <1>5, <1>6, <1>7 DEF Rewires, Wired

\* A connection that does not come up is given up by its owner or, silenced, by
\* the library.
LEMMA ConnectFailsRewires == ASSUME Wired, ConnectFails PROVE Rewires
<1>1. /\ \/ stopping /\ conn' = "down" /\ broken' = broken
         \/ conn' = "dead" /\ broken' = broken
         \/ conn' = "down" /\ broken' = "unbound"
      /\ conn \in {"opening", "connecting"}
      /\ UNCHANGED <<stopping, feeds, pushes, drops, handler, wants, missed, subscribes>>
      /\ UNCHANGED <<marketVars, tableVars, orderVars, requestVars, keyVars>>
  BY DEF ConnectFails
<1>2. UNCHANGED <<ex, key, path, live, expiries, fetches>>
  BY <1>1 DEF marketVars, keyVars
<1>3. SubTyped' /\ KeysTyped' /\ ConnTyped' /\ KeyLives'
  BY <1>1, <1>2 DEF Wired, SubTyped, KeysTyped, ConnTyped, KeyLives
<1>4. Silenced'
  BY <1>1, <1>2 DEF Silenced
<1>5. Fed'
  BY <1>1, <1>2, <1>4 DEF Wired, Fed
<1> QED BY <1>1, <1>2, <1>3, <1>5 DEF Rewires, Wired

\* With the connection everything goes that was on it.
LEMMA DisconnectKeeps ==
  ASSUME RInv, Told, NEW next, Disconnect(next), {drops'} \subseteq Nat,
         refreshes + drops' + expiries <= MaxFaults
  PROVE  Told'
<1>1. /\ pushes' = <<>> /\ missed' = (missed \/ pushes # <<>>) /\ uid' = uid
      /\ sent' \subseteq sent /\ answers' \subseteq answers
      /\ UNCHANGED <<marketVars, tableVars, orderVars, keyVars>>
  BY DEF Disconnect
<1>2. RequestsTyped'
  <2>1. \A r \in sent \cup answers : r.uid \in 1 .. uid
    BY DEF RInv
  <2>2. \A u \in lost' : u \in lost \/ \E r \in sent \cup answers : u = r.uid
    BY DEF Disconnect
  <2>3. lost' \subseteq 1 .. uid'
    BY <1>1, <2>1, <2>2 DEF Told, RequestsTyped
  <2> QED BY <1>1, <2>3 DEF Told, RequestsTyped
<1>3. OrderTyped' /\ TablesTyped' /\ MarketTyped' /\ Served'
  BY <1>1 DEF Told, OrderTyped, TablesTyped, MarketTyped, Served, orderVars, tableVars, keyVars,
              marketVars
<1>4. Pushed'
  <2>1. PICK e \in Seq(PushRecord) : e = <<>>
    BY EmptySeq
  <2>2. DOMAIN e = {}
    BY <2>1
  <2> QED BY <1>1, <2>1, <2>2 DEF Pushed
<1>5. Honest(order)'
  BY <1>1, Carried DEF Told, tableVars, orderVars
<1>6. EndComes'
  <2> SUFFICES ASSUME book' \in Ended, ~(missed' \/ failed' \/ crashed')
      PROVE  EndShown(order, reopened)' /\ DOMAIN pushes' = {}
    BY DEF EndComes
  <2>1. /\ book \in Ended /\ ~missed /\ ~failed /\ ~crashed /\ pushes = <<>>
        /\ order' = order /\ reopened' = reopened
    BY <1>1 DEF orderVars, marketVars
  <2>2. DOMAIN pushes = {} /\ DOMAIN pushes' = {}
    BY <1>1, <2>1
  <2>3. EndShown(order, reopened)
    BY <2>1, <2>2 DEF Told, EndComes
  <2> QED BY <1>1, <2>1, <2>2, <2>3, Carried DEF tableVars, orderVars
<1> QED BY <1>2, <1>3, <1>4, <1>5, <1>6 DEF Told

\* A lost connection excuses the subscription, or its owner closed it.
LEMMA DisconnectWires ==
  ASSUME Told, Wired, Drop \/ Closed
  PROVE  Wired'
<1>1. PICK next : Disconnect(next) /\ conn' = next
  BY DEF Drop, Closed, Disconnect
<1>2. /\ feeds' = FALSE /\ missed' = (missed \/ pushes # <<>>)
      /\ UNCHANGED <<ex, stopping, handler, wants, key, path, live, expiries, fetches>>
  BY <1>1 DEF Disconnect, marketVars, keyVars
<1>3. \/ conn = "up" /\ conn' = (IF stopping THEN "down" ELSE "connecting") /\ broken' = "drop"
      \/ conn = "closing" /\ conn' = "down" /\ broken' = broken
  BY DEF Drop, Closed, Disconnect
<1>4. SubTyped'
  <2>1. missed' \in BOOLEAN
    <3>1. missed \in BOOLEAN
      BY DEF Wired, SubTyped
    <3> QED BY <1>2, <3>1
  <2> QED BY <1>2, <1>3, <2>1 DEF Wired, SubTyped
<1>5. KeysTyped' /\ ConnTyped' /\ KeyLives'
  BY <1>2, <1>3 DEF Wired, KeysTyped, ConnTyped, KeyLives
<1>6. Fed'
  <2>1. CASE conn = "up" /\ ~stopping /\ conn' = "connecting" /\ broken' = "drop"
    BY <1>2, <2>1 DEF Wired, Fed, Silenced
  <2>2. CASE stopping /\ conn' = "down" /\ broken' \in {broken, "drop"}
    BY <1>2, <2>2 DEF Wired, Fed, Silenced
  <2> QED BY <1>3, <2>1, <2>2 DEF Wired, Fed
<1> QED BY <1>4, <1>5, <1>6 DEF Wired

\* A push that goes down with the connection is missed.
LEMMA ConnectionKeeps == ASSUME RInv, Told, Wired, Drop \/ Closed PROVE Told'
<1>1. CASE Drop
  <2>1. PICK next : Disconnect(next)
    BY <1>1 DEF Drop
  <2>2. MoreFaults /\ drops' = drops + 1
    BY <1>1 DEF Drop
  <2>3. drops' \in Nat /\ refreshes + drops' + expiries <= MaxFaults
    BY <2>2, FaultsCount, SizesAssumption DEF SizesAssumption
  <2> QED BY <2>1, <2>3, DisconnectKeeps
<1>2. CASE Closed
  <2>1. Disconnect("down") /\ drops' = drops
    BY <1>2 DEF Closed
  <2>2. drops' \in Nat /\ refreshes + drops' + expiries <= MaxFaults
    BY <2>1 DEF Told, TablesTyped
  <2> QED BY <2>1, <2>2, DisconnectKeeps
<1> QED BY <1>1, <1>2

\* A key expires: aster is told on the feed, toobit is not.
LEMMA ExpireKeeps == ASSUME Told, Wired, ExpireKey PROVE Told' /\ Wired'
<1>1. /\ live /\ MoreFaults /\ live' = FALSE /\ expiries' = expiries + 1 /\ feeds' = FALSE
      /\ pushes' = IF feeds /\ ex = "aster" THEN Append(pushes, [event |-> "key", n |-> 0])
                   ELSE pushes
      /\ UNCHANGED <<key, path, fetches, conn, stopping, drops>>
      /\ UNCHANGED <<marketVars, tableVars, orderVars, requestVars, subVars>>
  BY DEF ExpireKey
<1>2. /\ expiries \in Nat /\ expiries' \in Nat /\ expiries' > 0
      /\ refreshes' = refreshes /\ drops' = drops
      /\ refreshes' + drops' + expiries' <= MaxFaults
  <2>1. refreshes' = refreshes /\ drops' = drops
    BY <1>1 DEF tableVars
  <2>2. /\ expiries \in Nat /\ drops \in Nat /\ refreshes \in Nat
        /\ refreshes + drops + expiries + 1 <= MaxFaults
    BY <1>1, FaultsCount
  <2>3. expiries' \in Nat /\ expiries' > 0
    BY <1>1, <2>2
  <2>4. refreshes + drops + (expiries + 1) <= MaxFaults
    BY <2>2, SizesAssumption DEF SizesAssumption
  <2> QED BY <1>1, <2>1, <2>2, <2>3, <2>4
<1>3. OrderTyped' /\ RequestsTyped' /\ MarketTyped' /\ Served'
  BY <1>1 DEF Told, OrderTyped, RequestsTyped, MarketTyped, Served, orderVars, requestVars,
              marketVars
<1>4. TablesTyped'
  BY <1>1, <1>2 DEF Told, TablesTyped, tableVars
<1>5. Honest(order)'
  BY <1>1, Carried DEF Told, tableVars, orderVars
<1>6. ex' = ex /\ book' = book /\ traded' = traded
  BY <1>1 DEF marketVars
<1>7. Pushed' /\ EndComes'
  <2>1. CASE pushes' = pushes
    <3>1. Pushed'
      BY <1>2, <1>6, <2>1 DEF Told, Pushed
    <3> QED BY <1>1, <2>1, <3>1, EndStill DEF Told, tableVars, orderVars, subVars
  <2>2. CASE ex = "aster" /\ pushes' = Append(pushes, [event |-> "key", n |-> 0])
    <3>1. PICK z \in 0 .. Qty : z = 0
      BY SizesAssumption DEF SizesAssumption
    <3>2. PICK p : p = [event |-> "key", n |-> z]
      OBVIOUS
    <3>3. p \in PushRecord /\ p.event = "key" /\ p.n = 0
      BY <3>1, <3>2 DEF PushRecord
    <3>4. /\ pushes' \in Seq(PushRecord)
          /\ \A i \in DOMAIN pushes : i \in DOMAIN pushes' /\ pushes'[i] = pushes[i]
          /\ \A i \in DOMAIN pushes' : \/ i \in DOMAIN pushes
                                       \/ pushes'[i] = p /\ \A j \in DOMAIN pushes' : ~(i < j)
      BY <2>2, <3>1, <3>2, <3>3, PushAdded DEF Told, Pushed
    <3>5. ASSUME NEW i \in DOMAIN pushes'
          PROVE  /\ pushes'[i].n <= traded
                 /\ pushes'[i].event \in Ended =>
                      /\ pushes'[i].event = book /\ pushes'[i].n = traded
                      /\ \A j \in DOMAIN pushes' : i < j => pushes'[j].event = "key"
      <4>1. CASE pushes'[i] = p /\ \A j \in DOMAIN pushes' : ~(i < j)
        BY <3>3, <4>1, ToldIs DEF Ended
      <4>2. CASE i \in DOMAIN pushes
        <5>1. ASSUME pushes'[i].event \in Ended, NEW j \in DOMAIN pushes', i < j
              PROVE  pushes'[j].event = "key"
          BY <3>3, <3>4, <4>2, <5>1 DEF Told, Pushed
        <5> QED BY <3>4, <4>2, <5>1 DEF Told, Pushed
      <4> QED BY <3>4, <4>1, <4>2
    <3>6. Pushed'
      BY <1>2, <1>6, <2>2, <3>4, <3>5 DEF Pushed
    <3>7. EndComes'
      <4> SUFFICES ASSUME book' \in Ended, ~(missed' \/ failed' \/ crashed')
          PROVE  \/ \E i \in DOMAIN pushes' : pushes'[i].event = book'
                 \/ EndShown(order, reopened)' /\ \A i \in DOMAIN pushes' : pushes'[i].event = "key"
        BY DEF EndComes
      <4>1. book \in Ended /\ ~(missed \/ failed \/ crashed) /\ order' = order /\ reopened' = reopened
        BY <1>1, <1>6 DEF orderVars, subVars
      <4>2. CASE \E i \in DOMAIN pushes : pushes[i].event = book
        BY <1>6, <3>4, <4>2
      <4>3. CASE EndShown(order, reopened) /\ \A i \in DOMAIN pushes : pushes[i].event = "key"
        <5>1. EndShown(order, reopened)'
          BY <1>1, <4>1, <4>3, Carried DEF tableVars, orderVars
        <5> QED BY <3>3, <3>4, <4>3, <5>1
      <4> QED BY <4>1, <4>2, <4>3 DEF Told, EndComes
    <3> QED BY <3>6, <3>7
  <2> QED BY <1>1, <2>1, <2>2
<1>8. SubTyped' /\ ConnTyped'
  BY <1>1 DEF Wired, SubTyped, ConnTyped, subVars
<1>11. KeyLives'
  BY <1>2 DEF KeyLives
<1>9. KeysTyped'
  <2>1. /\ key \in 0 .. expiries + 1 /\ path \in 0 .. expiries + 1
        /\ fetches \in [plain : Nat, renew : Nat]
    BY DEF Wired, KeysTyped
  <2>2. key \in 0 .. expiries' + 1 /\ path \in 0 .. expiries' + 1
    BY <1>1, <1>2, <2>1
  <2> QED BY <1>1, <1>2, <2>1, <2>2 DEF KeysTyped
<1>10. Fed'
  BY <1>1, <1>2, <1>6 DEF Wired, Fed, Silenced, subVars
<1> QED BY <1>3, <1>4, <1>5, <1>7, <1>8, <1>9, <1>10, <1>11 DEF Told, Wired

\* The actions that the exchanges share.
LEMMA CommonKeeps == ASSUME RInv, Told, Wired, CommonNext PROVE Told' /\ Wired'
<1>1. CASE RefreshPairs
  BY <1>1, RefreshKeeps
<1>2. CASE Connected \/ ConnectFails
  BY <1>2, ConnectedRewires, ConnectFailsRewires, RewiresKeep DEF Rewires
<1>3. CASE Drop \/ Closed
  BY <1>3, ConnectionKeeps, DisconnectWires
<1>4. CASE RequestsAtExchange \/ Match \/ \E b \in {"canceled", "expired"} : End(b)
  BY <1>4, MarketKeeps
<1>5. CASE ExpireKey
  BY <1>5, ExpireKeeps
<1>6. CASE \/ \E u \in waiting, t \in Times : RestFails(u, t)
           \/ \E a \in answers, t \in Times : AnswerRefuses(a, t)
  <2>1. Fails
    BY <1>6 DEF RestFails, AnswerRefuses, Fails, RInv
  <2> QED BY <2>1, FailsKeep, StepWires
<1> QED BY <1>1, <1>2, <1>3, <1>4, <1>5, <1>6 DEF CommonNext

-----------------------------------------------------------------------------
(* Requests and answers of a client                                         *)

\* The set of a market_oid's two values has a name of its own here: the SMT
\* backend takes no empty string.
Oid == {"", "oid"}

\* The type of an order without its literals, which the SMT solver does not read.
LEMMA OrderSets ==
  /\ Order = [status : OrderStatus, milli : Nat, oid : Oid, ec : {"Ok", "Error"},
              cum : Nat, quote : Int, dbase : Nat, dquote : Int, avg : Price]
  /\ "oid" \in Oid
BY Zenon DEF Order, Oid

\* A request over REST is one of Asks.
LEMMA RestAsks ==
  ASSUME PlaceOverRest \/ OverRest("cancel") \/ OverRest("query")
  PROVE  Asks
<1>1. "place" \in Ops /\ "cancel" \in Ops /\ "query" \in Ops
  BY DEF Ops
<1>2. CASE PlaceOverRest
  BY <1>1, <1>2 DEF PlaceOverRest, Asks, restVars
<1>3. CASE OverRest("cancel")
  <2>1. Request("cancel") /\ UNCHANGED <<marketVars, tableVars, orderVars, feedVars, subVars, keyVars>>
    BY <1>3, Zenon DEF OverRest
  <2> QED BY <1>1, <2>1 DEF Asks, restVars, orderVars
<1>4. CASE OverRest("query")
  <2>1. Request("query") /\ UNCHANGED <<marketVars, tableVars, orderVars, feedVars, subVars, keyVars>>
    BY <1>4, Zenon DEF OverRest
  <2> QED BY <1>1, <2>1 DEF Asks, restVars, orderVars
<1> QED BY <1>2, <1>3, <1>4

\* A pair that is not known marks the order.
LEMMA UnknownMarks == ASSUME Told, PairUnknown PROVE Marks
<1>1. PICK st \in OrderStatus : st = "Failed"
  BY DEF OrderStatus
<1>2. PICK e \in {"Ok", "Error"} : e = "Error"
  OBVIOUS
<1>3. PICK k : k = [order EXCEPT !.status = st, !.ec = e]
  OBVIOUS
<1>4. order \in Order
  BY DEF Told, OrderTyped
<1>5. k \in Order /\ k.cum = order.cum /\ k.status = st
  BY <1>3, <1>4, OrderSets
<1>6. order' = k
  BY <1>1, <1>2, <1>3 DEF PairUnknown
<1> QED BY <1>1, <1>5, <1>6 DEF PairUnknown, Marks, restVars

\* The local time is written to an order that fits.
LEMMA MilliIs ==
  ASSUME NEW w \in Order, NEW t \in Times
  PROVE  /\ [w EXCEPT !.milli = t] \in Order
         /\ [w EXCEPT !.milli = t].status = w.status /\ [w EXCEPT !.milli = t].cum = w.cum
<1>1. PICK m \in Nat : m = t
  BY TimesAssumption
<1>2. PICK k : k = [w EXCEPT !.milli = m]
  OBVIOUS
<1>3. k \in Order /\ k.status = w.status /\ k.cum = w.cum
  BY <1>2, OrderSets
<1> QED BY <1>1, <1>2, <1>3

\* What the clients other than aster write after place and cancel.
LEMMA StatusSet ==
  ASSUME NEW o \in Order, NEW s \in OrderStatus
  PROVE  /\ [o EXCEPT !.status = s] \in Order
         /\ [o EXCEPT !.status = s].status = s /\ [o EXCEPT !.status = s].cum = o.cum
<1>1. PICK w : w = [o EXCEPT !.status = s]
  OBVIOUS
<1>2. w \in Order /\ w.status = s /\ w.cum = o.cum
  BY <1>1, OrderSets
<1> QED BY <1>1, <1>2

\* An answer that puts the status back fits, for it is recorded as reopened.
LEMMA PutBackFits ==
  ASSUME Told, ex # "aster", NEW a \in answers, NEW t \in Times, NEW w,
         NEW s \in {"New", "Canceling"},
         w = [order EXCEPT !.status = s] \/ w = [order EXCEPT !.oid = "oid", !.status = s]
  PROVE  Fits([w EXCEPT !.milli = t], a)
<1>1. order \in Order
  BY DEF Told, OrderTyped
<1>2. s \in OrderStatus
  BY DEF OrderStatus
<1>3. w \in Order /\ w.cum = order.cum /\ w.status = s
  <2>1. PICK o \in Order, u \in OrderStatus : o = order /\ u = s
    BY <1>1, <1>2
  <2>2. w = [o EXCEPT !.status = u] \/ w = [o EXCEPT !.oid = "oid", !.status = u]
    BY <2>1
  <2>3. w \in Order /\ w.status = u /\ w.cum = o.cum
    <3>1. CASE w = [o EXCEPT !.status = u]
      BY <3>1, StatusSet
    <3>2. CASE w = [o EXCEPT !.oid = "oid", !.status = u]
      <4>1. PICK i \in Oid : i = "oid"
        BY OrderSets
      <4>2. w = [o EXCEPT !.oid = i, !.status = u]
        BY <3>2, <4>1
      <4> QED BY <4>2, OrderSets
    <3> QED BY <2>2, <3>1, <3>2
  <2> QED BY <2>1, <2>3
<1>4. PICK o : o = [w EXCEPT !.milli = t]
  OBVIOUS
<1>5. o \in Order /\ o.cum = order.cum /\ o.status = s
  BY <1>3, <1>4, MilliIs
<1> QED BY <1>4, <1>5 DEF Fits

\* An answer that goes through Order::update fits.
LEMMA UpdateFits ==
  ASSUME Told, NEW a \in answers, NEW t \in Times, NEW v, Shows(v, a.b, a.n)
  PROVE  Fits([Updated(order, v) EXCEPT !.milli = t], a)
<1>1. PICK w : w = Updated(order, v)
  OBVIOUS
<1>2. order \in Order /\ v \in Order
  BY DEF Told, OrderTyped, Shows
<1>3. w \in Order
  BY <1>1, <1>2, UpdatedIs
<1>4. PICK o : o = [w EXCEPT !.milli = t]
  OBVIOUS
<1>5. o \in Order /\ o.status = w.status /\ o.cum = w.cum
  BY <1>3, <1>4, MilliIs
<1> QED BY <1>1, <1>4, <1>5 DEF Fits

\* What a push or an answer carries.
LEMMA CarriedIs ==
  ASSUME Told
  PROVE  /\ \A a \in answers : a.n \in Nat
         /\ pushes # <<>> => /\ Head(pushes).n \in Nat
                             /\ ex # "aster" => Head(pushes).event # "key"
<1>1. \A a \in answers : a.n \in Nat
  BY SizesAssumption DEF Told, RequestsTyped, SizesAssumption
<1>2. ASSUME pushes # <<>>
      PROVE  Head(pushes).n \in Nat /\ (ex # "aster" => Head(pushes).event # "key")
  <2>1. pushes \in Seq(PushRecord)
    BY DEF Told, Pushed
  <2>2. 1 \in DOMAIN pushes /\ Head(pushes) = pushes[1]
    BY <1>2, <2>1
  <2> QED BY <2>2, PushIs
<1> QED BY <1>1, <1>2

-----------------------------------------------------------------------------
(* Keys and connections of a client                                         *)

sameVars == <<marketVars, tableVars, orderVars, requestVars>>

\* subscribe_order, where a connection carries the feed.
LEMMA SubscribesRewires ==
  ASSUME Told, Wired, ex \in {"aster", "toobit", "edgex"},
         NEW k \in 0 .. expiries + 1, ResolveConnect(k),
         handler' = TRUE, wants' = TRUE,
         UNCHANGED <<missed, expiries, fetches, sameVars>>,
         key' \in 0 .. expiries + 1, live' \in BOOLEAN,
         ex # "edgex" /\ expiries = 0 => k = 1 /\ live' = TRUE
  PROVE  Rewires
<1>1. ex' = ex /\ UNCHANGED <<stopping, feeds, pushes, drops>>
  BY DEF ResolveConnect, sameVars, marketVars
<1>2. /\ \/ conn = "down" /\ conn' = "opening" /\ path' = k
         \/ conn = "opening" /\ conn' = conn /\ path' \in {path, k}
         \/ conn # "opening" /\ conn' = conn /\ path' = path
      /\ broken' = (IF conn' = "down" THEN "unbound" ELSE "no")
  BY DEF ResolveConnect
<1>3. SubTyped' /\ ConnTyped'
  BY <1>1, <1>2 DEF Wired, SubTyped, ConnTyped
<1>4. KeysTyped'
  BY <1>2 DEF Wired, KeysTyped
<1>5. KeyLives'
  <2> SUFFICES ASSUME ex \in {"aster", "toobit"}, expiries = 0
      PROVE  (key' # 0 => live') /\ (conn' # "down" => path' = 1 /\ live') /\ fetches'.renew = 0
    BY <1>1 DEF KeyLives
  <2>1. k = 1 /\ live' = TRUE /\ fetches.renew = 0 /\ (conn # "down" => path = 1)
    BY DEF Wired, KeyLives
  <2> QED BY <1>2, <2>1
<1>6. Fed'
  <2>1. conn = "closing" => stopping
    BY DEF Wired, Fed
  <2>2. ~stopping /\ expiries = 0 /\ conn = "up" => feeds
    BY DEF Wired, Fed
  <2>3. expiries \in Nat
    BY DEF Wired, KeysTyped
  <2>4. conn \in {"down", "opening", "connecting", "up", "closing", "dead"}
    BY DEF Wired, ConnTyped
  <2>5. ~Silenced' => stopping = FALSE /\ expiries = 0 /\ conn' # "dead" /\ broken' # "unbound"
    BY <1>1, <1>3, <2>3 DEF Silenced, ConnTyped
  <2>6. ex = "phemex" => broken' # "unsent"
    OBVIOUS
  <2> QED BY <1>1, <1>2, <2>1, <2>2, <2>4, <2>5, <2>6 DEF Fed
<1> QED BY <1>1, <1>3, <1>4, <1>5, <1>6 DEF Rewires, Wired, sameVars

\* A listen key has come, or not.
LEMMA KeyRewires ==
  ASSUME Wired, ex \in {"aster", "toobit"}, fetches.plain > 0,
         fetches' = [fetches EXCEPT !.plain = @ - 1],
         GrantKey \/ UNCHANGED <<key, live, expiries>>,
         UNCHANGED <<path, sameVars, feedVars, subVars>>
  PROVE  Rewires
<1>1. UNCHANGED <<ex, conn, stopping, feeds, pushes, drops, handler, wants, broken, missed, path>>
  BY DEF sameVars, marketVars, feedVars, subVars
<1>2. expiries' = expiries /\ expiries \in Nat
  BY DEF GrantKey, Wired, KeysTyped
<1>3. fetches' \in [plain : Nat, renew : Nat] /\ fetches'.renew = fetches.renew
  <2>1. fetches \in [plain : Nat, renew : Nat]
    BY DEF Wired, KeysTyped
  <2>2. PICK m \in Nat : m = fetches.plain - 1
    BY <2>1
  <2>3. fetches' = [fetches EXCEPT !.plain = m]
    BY <2>2
  <2> QED BY <2>1, <2>3
<1>4. (key' = expiries + 1 /\ live' = TRUE) \/ (key' = key /\ live' = live)
  BY DEF GrantKey
<1>5. KeysTyped'
  <2>1. CASE key' = expiries + 1 /\ live' = TRUE
    BY <1>1, <1>2, <1>3, <2>1 DEF Wired, KeysTyped
  <2>2. CASE key' = key /\ live' = live
    BY <1>1, <1>2, <1>3, <2>2 DEF Wired, KeysTyped
  <2> QED BY <1>4, <2>1, <2>2
<1>6. SubTyped' /\ ConnTyped' /\ Fed'
  BY <1>1, <1>2 DEF Wired, SubTyped, ConnTyped, Fed, Silenced
<1>7. KeyLives'
  BY <1>1, <1>2, <1>3, <1>4 DEF Wired, KeyLives
<1> QED BY <1>1, <1>2, <1>5, <1>6, <1>7 DEF Rewires, Wired, sameVars

\* Nothing is claimed of a subscription that was given up.
LEMMA UnwantedRewires ==
  ASSUME Wired, wants' = FALSE, handler' \in {handler, FALSE}, broken' = broken,
         key' \in {key, 0}, CloseStream \/ UNCHANGED feedVars,
         UNCHANGED <<missed, path, live, expiries, sameVars>>,
         fetches' \in [plain : Nat, renew : Nat], fetches'.renew = fetches.renew
  PROVE  Rewires
<1>1. ex' = ex /\ UNCHANGED <<pushes, drops>>
  BY DEF sameVars, marketVars, feedVars, CloseStream
<1>2. \/ stopping' = TRUE /\ feeds' = FALSE /\ conn' = (IF conn = "up" THEN "closing" ELSE conn)
      \/ stopping' = stopping /\ feeds' = feeds /\ conn' = conn
  BY DEF feedVars, CloseStream
<1>3. SubTyped' /\ ConnTyped'
  BY <1>2 DEF Wired, SubTyped, ConnTyped
<1>4. KeysTyped'
  <2>1. key \in 0 .. expiries + 1 /\ expiries \in Nat
    BY DEF Wired, KeysTyped
  <2>2. key' \in 0 .. expiries + 1
    BY <2>1
  <2> QED BY <2>2 DEF Wired, KeysTyped
<1>5. KeyLives'
  BY <1>1, <1>2 DEF Wired, KeyLives
<1>6. Fed'
  BY <1>1, <1>2 DEF Wired, Fed
<1> QED BY <1>1, <1>3, <1>4, <1>5, <1>6 DEF Rewires, Wired, sameVars

-----------------------------------------------------------------------------
(* The five clients                                                         *)

Moves ==
  \/ Asks \/ Marks \/ Fails \/ Answers \/ Hears \/ Nulls \/ Rewires \/ AsterKeyExpired
  \/ \E a \in answers : HyperliquidUnread(a)

\* Absorbing an answer is a move.
LEMMA AbsorbMoves ==
  ASSUME NEW a \in answers, NEW o, Absorb(a, o), Fits(o, a)
  PROVE  Moves
BY DEF Moves, Answers

\* Dispatching a push is a move.
LEMMA HearMoves ==
  ASSUME NextPush, Head(pushes).event # "key", UNCHANGED keyVars,
         NEW v, Dispatch(v), Shows(v, Head(pushes).event, Head(pushes).n)
  PROVE  Moves
BY DEF Moves, Hears

\* Aster's handlers move the order and the subscription in the named ways.
LEMMA AsterMoves == ASSUME RInv, Told, Wired, AsterNext PROVE Moves
<1>1. CASE AsterPlaceOrder \/ AsterCancelOrder \/ AsterQueryOrder
  BY <1>1, RestAsks DEF AsterPlaceOrder, AsterCancelOrder, AsterQueryOrder, Moves
<1>2. CASE AsterSubscribeWithoutKey
  <2>1. /\ wants' = FALSE /\ fetches' = [fetches EXCEPT !.plain = @ + 1]
        /\ UNCHANGED <<handler, broken, missed, key, path, live, expiries, sameVars, feedVars>>
    BY <1>2 DEF AsterSubscribeWithoutKey, sameVars
  <2>2. fetches' \in [plain : Nat, renew : Nat] /\ fetches'.renew = fetches.renew
    <3>1. fetches \in [plain : Nat, renew : Nat]
      BY DEF Wired, KeysTyped
    <3> QED BY <2>1, <3>1
  <2> QED BY <2>1, <2>2, UnwantedRewires DEF Moves
<1>3. CASE AsterSubscribeOrder
  <2>1. /\ ex = "aster" /\ key # 0 /\ ResolveConnect(key)
        /\ handler' = TRUE /\ wants' = TRUE
        /\ UNCHANGED <<missed, key, live, expiries, fetches, sameVars>>
    BY <1>3 DEF AsterSubscribeOrder, sameVars
  <2>2. key \in 0 .. expiries + 1 /\ live \in BOOLEAN /\ expiries \in Nat
    BY DEF Wired, KeysTyped
  <2>3. expiries = 0 => key = 1 /\ live = TRUE
    BY <2>1, <2>2 DEF Wired, KeyLives
  <2> QED BY <2>1, <2>2, <2>3, SubscribesRewires DEF Moves
<1>4. CASE AsterUnsubscribeOrder
  <2>1. /\ wants' = FALSE /\ handler' = FALSE /\ key' = 0
        /\ UNCHANGED <<broken, missed, path, live, expiries, fetches, sameVars>>
        /\ CloseStream \/ UNCHANGED feedVars
    BY <1>4 DEF AsterUnsubscribeOrder, AsterUnsubscribe, sameVars
  <2>2. fetches \in [plain : Nat, renew : Nat]
    BY DEF Wired, KeysTyped
  <2> QED BY <2>1, <2>2, UnwantedRewires DEF Moves
<1>5. CASE AsterKeyArrives
  BY <1>5, KeyRewires DEF AsterKeyArrives, sameVars, Moves
<1>6. CASE AsterKeyRenewed
  <2>1. /\ fetches.renew > 0 /\ ex = "aster" /\ live' = TRUE /\ key' = 0 /\ handler' = FALSE
        /\ fetches' = [plain |-> fetches.plain + 1, renew |-> fetches.renew - 1]
        /\ UNCHANGED <<wants, broken, missed, path, expiries, sameVars>>
        /\ CloseStream \/ UNCHANGED feedVars
    BY <1>6 DEF AsterKeyRenewed, AsterUnsubscribe, sameVars
  <2>2. fetches \in [plain : Nat, renew : Nat] /\ expiries \in Nat /\ path \in 0 .. expiries + 1
    BY DEF Wired, KeysTyped
  <2>3. expiries > 0
    BY <2>1, <2>2 DEF Wired, KeyLives
  <2>4. fetches' \in [plain : Nat, renew : Nat]
    <3>1. PICK m \in Nat, n \in Nat : m = fetches.plain + 1 /\ n = fetches.renew - 1
      BY <2>1, <2>2
    <3> QED BY <2>1, <3>1
  <2>5. KeysTyped'
    <3>1. key' \in 0 .. expiries + 1
      BY <2>1, <2>2
    <3> QED BY <2>1, <2>2, <2>4, <3>1 DEF KeysTyped
  <2>6. ex' = ex /\ UNCHANGED <<pushes, drops>>
    BY <2>1 DEF sameVars, marketVars, feedVars, CloseStream
  <2>7. \/ stopping' = TRUE /\ feeds' = FALSE /\ conn' = (IF conn = "up" THEN "closing" ELSE conn)
        \/ stopping' = stopping /\ feeds' = feeds /\ conn' = conn
    BY <2>1 DEF feedVars, CloseStream
  <2>8. SubTyped' /\ ConnTyped'
    BY <2>1, <2>7 DEF Wired, SubTyped, ConnTyped
  <2>11. KeyLives'
    BY <2>1, <2>3 DEF KeyLives
  <2>9. Fed'
    BY <2>1, <2>3, <2>6, <2>7 DEF Wired, Fed, Silenced
  <2>10. Rewires
    BY <2>1, <2>5, <2>6, <2>8, <2>9, <2>11 DEF Rewires, Wired, sameVars
  <2> QED BY <2>10 DEF Moves
<1>7. CASE AsterKeyExpired
  BY <1>7 DEF Moves
<1>8. CASE \E t \in Times : AsterReceivePush(t)
  <2>1. PICK t \in Times : AsterReceivePush(t)
    BY <1>8
  <2>2. /\ ex = "aster" /\ NextPush /\ Head(pushes).event # "key" /\ UNCHANGED keyVars
        /\ Dispatch(AsterView(Head(pushes).event, Head(pushes).n, t))
    BY <2>1 DEF AsterReceivePush
  <2>3. Head(pushes).n \in Nat
    BY <2>2, CarriedIs DEF NextPush
  <2> QED BY <2>2, <2>3, AsterShows, HearMoves
<1>9. CASE \E a \in answers, t \in Times : AsterAnswered(a, t)
  <2>1. PICK a \in answers, t \in Times : AsterAnswered(a, t)
    BY <1>9
  <2>2. ex = "aster" /\ a.n \in Nat
    BY <2>1, CarriedIs DEF AsterAnswered
  <2>3. PICK v : v = AsterView(a.b, a.n, t)
    OBVIOUS
  <2>4. Absorb(a, [Updated(order, v) EXCEPT !.milli = t]) /\ Shows(v, a.b, a.n)
    BY <2>1, <2>2, <2>3, AsterShows DEF AsterAnswered
  <2> QED BY <2>4, UpdateFits, AbsorbMoves
<1> QED BY <1>1, <1>2, <1>3, <1>4, <1>5, <1>6, <1>7, <1>8, <1>9 DEF AsterNext

\* Toobit's handlers.
LEMMA ToobitMoves == ASSUME RInv, Told, Wired, ToobitNext PROVE Moves
<1>1. CASE ToobitPlaceOrder \/ ToobitCancelOrder \/ ToobitQueryOrder
  BY <1>1, RestAsks DEF ToobitPlaceOrder, ToobitCancelOrder, ToobitQueryOrder, Moves
<1>2. CASE ToobitPlaceUnknownPair
  BY <1>2, UnknownMarks DEF ToobitPlaceUnknownPair, Moves
<1>3. CASE ToobitPlaceTooSmall
  <2>1. order \in Order
    BY DEF Told, OrderTyped
  <2>2. PICK e \in {"Ok", "Error"} : e = "Error"
    OBVIOUS
  <2>3. PICK k : k = [order EXCEPT !.ec = e]
    OBVIOUS
  <2>4. k \in Order /\ k.cum = order.cum /\ k.status = order.status
    BY <2>1, <2>3, OrderSets
  <2>5. order' = k
    BY <1>3, <2>2, <2>3 DEF ToobitPlaceTooSmall
  <2> QED BY <1>3, <2>4, <2>5 DEF ToobitPlaceTooSmall, Moves, Marks, restVars
<1>4. CASE ToobitSubscribeFails
  <2>1. wants' = FALSE /\ UNCHANGED <<handler, broken, missed, keyVars, sameVars, feedVars>>
    BY <1>4 DEF ToobitSubscribeFails, sameVars
  <2>2. fetches \in [plain : Nat, renew : Nat]
    BY DEF Wired, KeysTyped
  <2>3. UNCHANGED <<key, path, live, expiries, fetches>>
    BY <2>1 DEF keyVars
  <2> QED BY <2>1, <2>2, <2>3, UnwantedRewires DEF Moves
<1>5. CASE ToobitSubscribeOrder
  <2>1. /\ ex = "toobit" /\ ResolveConnect(key')
        /\ handler' = TRUE /\ wants' = TRUE
        /\ UNCHANGED <<missed, fetches, sameVars>>
        /\ \/ key = 0 /\ key' = expiries + 1 /\ live' = TRUE /\ expiries' = expiries
           \/ key # 0 /\ key' = key /\ live' = live /\ expiries' = expiries
    BY <1>5 DEF ToobitSubscribeOrder, GrantKey, sameVars
  <2>2. key \in 0 .. expiries + 1 /\ live \in BOOLEAN /\ expiries \in Nat
    BY DEF Wired, KeysTyped
  <2>3. expiries = 0 => key' = 1 /\ live' = TRUE
    BY <2>1, <2>2 DEF Wired, KeyLives
  <2>4. key' \in 0 .. expiries + 1 /\ live' \in BOOLEAN /\ expiries' = expiries
    <3>1. expiries + 1 \in 0 .. expiries + 1
      BY <2>2
    <3>2. key' \in {key, expiries + 1} /\ live' \in {live, TRUE} /\ expiries' = expiries
      BY <2>1
    <3> QED BY <2>2, <3>1, <3>2
  <2>5. PICK k \in 0 .. expiries + 1 : k = key'
    BY <2>4
  <2>6. ResolveConnect(k) /\ (ex # "edgex" /\ expiries = 0 => k = 1 /\ live' = TRUE)
    BY <2>1, <2>3, <2>5
  <2>7. Rewires
    BY <2>1, <2>4, <2>6, SubscribesRewires
  <2> QED BY <2>7 DEF Moves
<1>6. CASE ToobitUnsubscribeOrder
  <2>1. /\ wants' = FALSE /\ handler' = FALSE /\ key' = 0 /\ CloseStream
        /\ UNCHANGED <<broken, missed, path, live, expiries, fetches, sameVars>>
    BY <1>6 DEF ToobitUnsubscribeOrder, sameVars
  <2>2. fetches \in [plain : Nat, renew : Nat]
    BY DEF Wired, KeysTyped
  <2> QED BY <2>1, <2>2, UnwantedRewires DEF Moves
<1>7. CASE ToobitKeyArrives
  BY <1>7, KeyRewires DEF ToobitKeyArrives, sameVars, Moves
<1>8. CASE \E t \in Times : ToobitReceivePush(t)
  <2>1. PICK t \in Times : ToobitReceivePush(t)
    BY <1>8
  <2>2. /\ ex = "toobit" /\ NextPush /\ UNCHANGED keyVars
        /\ Dispatch(ToobitView(Head(pushes).event, Head(pushes).n, t))
    BY <2>1 DEF ToobitReceivePush
  <2>3. Head(pushes).n \in Nat /\ Head(pushes).event # "key"
    BY <2>2, CarriedIs DEF NextPush
  <2> QED BY <2>2, <2>3, ToobitShows, HearMoves
<1>9. CASE \E a \in answers, t \in Times : ToobitAnswered(a, t)
  <2>1. PICK a \in answers, t \in Times : ToobitAnswered(a, t)
    BY <1>9
  <2>2. ex = "toobit" /\ a.n \in Nat
    BY <2>1, CarriedIs DEF ToobitAnswered
  <2>3. PICK v : v = ToobitView(a.b, a.n, t)
    OBVIOUS
  <2>4. PICK w : w = ToobitAbsorbed(a, t)
    OBVIOUS
  <2>5. Absorb(a, [w EXCEPT !.milli = t]) /\ Shows(v, a.b, a.n)
    BY <2>1, <2>2, <2>3, <2>4, ToobitShows DEF ToobitAnswered
  <2>6. \/ w = [order EXCEPT !.oid = "oid", !.status = "New"]
        \/ w = [order EXCEPT !.status = "Canceling"]
        \/ w = Updated(order, v)
    BY <2>3, <2>4 DEF ToobitAbsorbed
  <2>7. Fits([w EXCEPT !.milli = t], a)
    BY <2>2, <2>5, <2>6, UpdateFits, PutBackFits
  <2> QED BY <2>5, <2>7, AbsorbMoves
<1> QED BY <1>1, <1>2, <1>3, <1>4, <1>5, <1>6, <1>7, <1>8, <1>9 DEF ToobitNext

\* Phemex's handlers.
LEMMA PhemexMoves == ASSUME RInv, Told, Wired, PhemexNext PROVE Moves
<1>1. CASE PhemexPlaceOrder \/ PhemexCancelOrder \/ PhemexQueryOrder
  BY <1>1, RestAsks DEF PhemexPlaceOrder, PhemexCancelOrder, PhemexQueryOrder, Moves
<1>2. CASE PhemexPlaceUnknownPair
  BY <1>2, UnknownMarks DEF PhemexPlaceUnknownPair, Moves
<1>3. CASE PhemexSubscribeOrder
  <2>1. /\ ex = "phemex" /\ handler' = TRUE /\ wants' = (conn = "up") /\ broken' = "no"
        /\ feeds' = (conn = "up")
        /\ UNCHANGED <<missed, conn, stopping, pushes, drops, sameVars, keyVars>>
    BY <1>3 DEF PhemexSubscribeOrder, sameVars
  <2>2. ex' = ex /\ UNCHANGED <<key, path, live, expiries, fetches>>
    BY <2>1 DEF sameVars, marketVars, keyVars
  <2>3. SubTyped' /\ KeysTyped' /\ ConnTyped' /\ KeyLives'
    BY <2>1, <2>2 DEF Wired, SubTyped, KeysTyped, ConnTyped, KeyLives
  <2>4. Fed'
    BY <2>1, <2>2 DEF Wired, Fed, Silenced
  <2>5. Rewires
    BY <2>1, <2>2, <2>3, <2>4 DEF Rewires, Wired, sameVars
  <2> QED BY <2>5 DEF Moves
<1>4. CASE PhemexUnsubscribeOrder
  <2>1. /\ ex = "phemex" /\ handler' = FALSE /\ wants' = FALSE /\ feeds' = FALSE
        /\ UNCHANGED <<broken, missed, conn, stopping, pushes, drops, sameVars, keyVars>>
    BY <1>4 DEF PhemexUnsubscribeOrder, sameVars
  <2>2. ex' = ex /\ UNCHANGED <<key, path, live, expiries, fetches>>
    BY <2>1 DEF sameVars, marketVars, keyVars
  <2>3. SubTyped' /\ KeysTyped' /\ ConnTyped' /\ KeyLives' /\ Fed'
    BY <2>1, <2>2 DEF Wired, SubTyped, KeysTyped, ConnTyped, KeyLives, Fed
  <2>4. Rewires
    BY <2>1, <2>2, <2>3 DEF Rewires, Wired, sameVars
  <2> QED BY <2>4 DEF Moves
<1>5. CASE \E t \in Times : PhemexReceivePush(t)
  <2>1. PICK t \in Times : PhemexReceivePush(t)
    BY <1>5
  <2>2. /\ ex = "phemex" /\ NextPush /\ UNCHANGED keyVars
        /\ Dispatch(PhemexView(Head(pushes).event, Head(pushes).n, t))
    BY <2>1 DEF PhemexReceivePush
  <2>3. Head(pushes).n \in Nat /\ Head(pushes).event # "key"
    BY <2>2, CarriedIs DEF NextPush
  <2> QED BY <2>2, <2>3, PhemexShows, HearMoves
<1>6. CASE \E a \in answers, t \in Times : PhemexAnswered(a, t)
  <2>1. PICK a \in answers, t \in Times : PhemexAnswered(a, t)
    BY <1>6
  <2>2. ex = "phemex" /\ a.n \in Nat
    BY <2>1, CarriedIs DEF PhemexAnswered
  <2>3. PICK v : v = PhemexView(a.b, a.n, t)
    OBVIOUS
  <2>4. PICK w : w = PhemexAbsorbed(a, t)
    OBVIOUS
  <2>5. Absorb(a, [w EXCEPT !.milli = t]) /\ Shows(v, a.b, a.n)
    BY <2>1, <2>2, <2>3, <2>4, PhemexShows DEF PhemexAnswered
  <2>6. \/ w = [order EXCEPT !.status = "New"]
        \/ w = [order EXCEPT !.status = "Canceling"]
        \/ w = Updated(order, v)
    BY <2>3, <2>4 DEF PhemexAbsorbed
  <2>7. Fits([w EXCEPT !.milli = t], a)
    BY <2>2, <2>5, <2>6, UpdateFits, PutBackFits
  <2> QED BY <2>5, <2>7, AbsorbMoves
<1>7. CASE \E a \in answers, t \in Times : PhemexOrderNotFound(a, t)
  BY <1>7 DEF PhemexOrderNotFound, RInv, Fails, Moves
<1> QED BY <1>1, <1>2, <1>3, <1>4, <1>5, <1>6, <1>7 DEF PhemexNext

\* edgeX's handlers.
LEMMA EdgexMoves == ASSUME RInv, Told, Wired, EdgexNext PROVE Moves
<1>1. CASE EdgexPlaceOrder \/ EdgexCancelOrder \/ EdgexQueryOrder
  BY <1>1, RestAsks DEF EdgexPlaceOrder, EdgexCancelOrder, EdgexQueryOrder, Moves
<1>2. CASE EdgexPlaceUnknownPair
  BY <1>2, UnknownMarks DEF EdgexPlaceUnknownPair, Moves
<1>3. CASE EdgexSubscribeOrder
  <2>1. PICK k : k = 0
    OBVIOUS
  <2>2. /\ ex = "edgex" /\ ResolveConnect(k)
        /\ handler' = TRUE /\ wants' = TRUE
        /\ UNCHANGED <<missed, key, live, expiries, fetches, sameVars>>
    BY <1>3, <2>1 DEF EdgexSubscribeOrder, sameVars
  <2>3. key \in 0 .. expiries + 1 /\ live \in BOOLEAN /\ expiries \in Nat /\ k \in 0 .. expiries + 1
    BY <2>1 DEF Wired, KeysTyped
  <2>4. Rewires
    BY <2>2, <2>3, SubscribesRewires
  <2> QED BY <2>4 DEF Moves
<1>4. CASE EdgexUnsubscribeOrder
  <2>1. /\ wants' = FALSE /\ handler' = FALSE /\ CloseStream
        /\ UNCHANGED <<broken, missed, sameVars, keyVars>>
    BY <1>4 DEF EdgexUnsubscribeOrder, sameVars
  <2>2. fetches \in [plain : Nat, renew : Nat]
    BY DEF Wired, KeysTyped
  <2>3. UNCHANGED <<key, path, live, expiries, fetches>>
    BY <2>1 DEF keyVars
  <2> QED BY <2>1, <2>2, <2>3, UnwantedRewires DEF Moves
<1>8. CASE EdgexShutdown
  <2>1. /\ wants' = FALSE /\ handler' = handler /\ CloseStream
        /\ UNCHANGED <<broken, missed, sameVars, keyVars>>
    BY <1>8 DEF EdgexShutdown, sameVars
  <2>2. fetches \in [plain : Nat, renew : Nat]
    BY DEF Wired, KeysTyped
  <2>3. UNCHANGED <<key, path, live, expiries, fetches>>
    BY <2>1 DEF keyVars
  <2> QED BY <2>1, <2>2, <2>3, UnwantedRewires DEF Moves
<1>5. CASE \E t \in Times : EdgexReceivePush(t)
  <2>1. PICK t \in Times : EdgexReceivePush(t)
    BY <1>5
  <2>2. ex = "edgex" /\ NextPush /\ UNCHANGED keyVars
    BY <2>1 DEF EdgexReceivePush
  <2>3. CASE pairs \/ ~handler
    <3>1. Dispatch(EdgexView(Head(pushes).event, Head(pushes).n, t))
      BY <2>1, <2>3 DEF EdgexReceivePush
    <3>2. Head(pushes).n \in Nat /\ Head(pushes).event # "key"
      BY <2>2, CarriedIs DEF NextPush
    <3> QED BY <2>2, <3>1, <3>2, EdgexShows, HearMoves
  <2>4. CASE ~(pairs \/ ~handler)
    <3>1. NullOrder /\ UNCHANGED subVars
      BY <2>1, <2>4 DEF EdgexReceivePush
    <3> QED BY <2>2, <3>1 DEF Nulls, Moves
  <2> QED BY <2>3, <2>4
<1>6. CASE \E a \in answers, t \in Times : EdgexAnswered(a, t)
  <2>1. PICK a \in answers, t \in Times : EdgexAnswered(a, t)
    BY <1>6
  <2>2. ex = "edgex" /\ a.n \in Nat
    BY <2>1, CarriedIs DEF EdgexAnswered
  <2>3. PICK v : v = EdgexView(a.b, a.n, t)
    OBVIOUS
  <2>4. PICK w : w = EdgexAbsorbed(a, t)
    OBVIOUS
  <2>5. Absorb(a, [w EXCEPT !.milli = t]) /\ Shows(v, a.b, a.n)
    BY <2>1, <2>2, <2>3, <2>4, EdgexShows DEF EdgexAnswered
  <2>6. \/ w = [order EXCEPT !.oid = "oid", !.status = "New"]
        \/ w = [order EXCEPT !.status = "Canceling"]
        \/ w = Updated(order, v)
    BY <2>3, <2>4 DEF EdgexAbsorbed
  <2>7. Fits([w EXCEPT !.milli = t], a)
    BY <2>2, <2>5, <2>6, UpdateFits, PutBackFits
  <2> QED BY <2>5, <2>7, AbsorbMoves
<1>7. CASE \E a \in answers : EdgexAnsweredNull(a)
  BY <1>7 DEF EdgexAnsweredNull, Nulls, Moves
<1> QED BY <1>1, <1>2, <1>3, <1>4, <1>5, <1>6, <1>7, <1>8 DEF EdgexNext

\* Hyperliquid's handlers.
LEMMA HyperliquidMoves == ASSUME RInv, Told, Wired, HyperliquidNext PROVE Moves
<1>1. CASE HyperliquidQueryOrder
  BY <1>1, RestAsks DEF HyperliquidQueryOrder, Moves
<1>2. CASE HyperliquidPlaceUnknownPair
  BY <1>2, UnknownMarks DEF HyperliquidPlaceUnknownPair, Moves
<1>3. CASE HyperliquidPlaceOrder
  <2>1. "place" \in Ops
    BY DEF Ops
  <2> QED BY <1>3, <2>1 DEF HyperliquidPlaceOrder, Asks, Moves, restVars
<1>4. CASE HyperliquidCancelOrder
  <2>1. "cancel" \in Ops
    BY DEF Ops
  <2>2. /\ HyperliquidSend("cancel")
        /\ UNCHANGED <<marketVars, tableVars, orderVars, feedVars, subVars, keyVars>>
    BY <1>4, Zenon DEF HyperliquidCancelOrder
  <2> QED BY <2>1, <2>2 DEF Asks, Moves, restVars, orderVars
<1>5. CASE HyperliquidSubscribeOrder
  <2>1. /\ ex = "hyperliquid" /\ handler' = TRUE /\ wants' = TRUE
        /\ broken' = (IF conn = "up" THEN "no" ELSE "unsent")
        /\ feeds' = (conn = "up")
        /\ UNCHANGED <<missed, conn, stopping, pushes, drops, sameVars, keyVars>>
    BY <1>5 DEF HyperliquidSubscribeOrder, sameVars
  <2>2. ex' = ex /\ UNCHANGED <<key, path, live, expiries, fetches>>
    BY <2>1 DEF sameVars, marketVars, keyVars
  <2>3. SubTyped' /\ KeysTyped' /\ ConnTyped' /\ KeyLives'
    BY <2>1, <2>2 DEF Wired, SubTyped, KeysTyped, ConnTyped, KeyLives
  <2>4. Fed'
    BY <2>1, <2>2 DEF Wired, Fed, Silenced
  <2>5. Rewires
    BY <2>1, <2>2, <2>3, <2>4 DEF Rewires, Wired, sameVars
  <2> QED BY <2>5 DEF Moves
<1>6. CASE HyperliquidUnsubscribeOrder
  <2>1. /\ ex = "hyperliquid" /\ handler' = FALSE /\ wants' = FALSE /\ feeds' = FALSE
        /\ UNCHANGED <<broken, missed, conn, stopping, pushes, drops, sameVars, keyVars>>
    BY <1>6 DEF HyperliquidUnsubscribeOrder, sameVars
  <2>2. ex' = ex /\ UNCHANGED <<key, path, live, expiries, fetches>>
    BY <2>1 DEF sameVars, marketVars, keyVars
  <2>3. SubTyped' /\ KeysTyped' /\ ConnTyped' /\ KeyLives' /\ Fed'
    BY <2>1, <2>2 DEF Wired, SubTyped, KeysTyped, ConnTyped, KeyLives, Fed
  <2>4. Rewires
    BY <2>1, <2>2, <2>3 DEF Rewires, Wired, sameVars
  <2> QED BY <2>4 DEF Moves
<1>7. CASE HyperliquidShutdown
  <2>1. wants' = FALSE /\ CloseStream /\ UNCHANGED <<handler, broken, missed, sameVars, keyVars>>
    BY <1>7 DEF HyperliquidShutdown, sameVars
  <2>2. fetches \in [plain : Nat, renew : Nat]
    BY DEF Wired, KeysTyped
  <2>3. UNCHANGED <<key, path, live, expiries, fetches>>
    BY <2>1 DEF keyVars
  <2> QED BY <2>1, <2>2, <2>3, UnwantedRewires DEF Moves
<1>8. CASE \E t \in Times : HyperliquidReceivePush(t)
  <2>1. PICK t \in Times : HyperliquidReceivePush(t)
    BY <1>8
  <2>2. /\ ex = "hyperliquid" /\ NextPush /\ UNCHANGED keyVars
        /\ Dispatch(HyperliquidView(Head(pushes).event, t))
    BY <2>1 DEF HyperliquidReceivePush
  <2>3. Head(pushes).n \in Nat /\ Head(pushes).event # "key"
    BY <2>2, CarriedIs DEF NextPush
  <2> QED BY <2>2, <2>3, HyperliquidShows, HearMoves
<1>9. CASE \E a \in answers, t \in Times : HyperliquidAnswered(a, t)
  <2>1. PICK a \in answers, t \in Times : HyperliquidAnswered(a, t)
    BY <1>9
  <2>2. ex = "hyperliquid" /\ a.n \in Nat
    BY <2>1, CarriedIs DEF HyperliquidAnswered
  <2>3. PICK v : v = HyperliquidView(a.b, t)
    OBVIOUS
  <2>4. PICK w : w = HyperliquidAbsorbed(a, t)
    OBVIOUS
  <2>5. Absorb(a, [w EXCEPT !.milli = t]) /\ Shows(v, a.b, a.n)
    BY <2>1, <2>2, <2>3, <2>4, HyperliquidShows DEF HyperliquidAnswered
  <2>6. \/ w = [order EXCEPT !.oid = "oid", !.status = "PartiallyFilled", !.cum = a.n, !.quote = a.n]
        \/ w = [order EXCEPT !.oid = "oid", !.status = "New"]
        \/ w = [order EXCEPT !.status = "Canceling"]
        \/ w = Updated(order, v)
    BY <2>3, <2>4 DEF HyperliquidAbsorbed, HyperliquidPlaced
  <2>7. CASE w = [order EXCEPT !.oid = "oid", !.status = "PartiallyFilled", !.cum = a.n, !.quote = a.n]
    <3>1. order \in Order
      BY DEF Told, OrderTyped
    <3>2. PICK i \in Oid : i = "oid"
      BY OrderSets
    <3>3. PICK s \in OrderStatus : s = "PartiallyFilled"
      BY DEF OrderStatus
    <3>4. PICK c \in Nat, q \in Int : c = a.n /\ q = a.n
      BY <2>2
    <3>5. w = [order EXCEPT !.oid = i, !.status = s, !.cum = c, !.quote = q]
      BY <2>7, <3>2, <3>3, <3>4
    <3>6. w \in Order /\ w.status = s /\ w.cum = c
      BY <3>1, <3>5, OrderSets
    <3>7. PICK o : o = [w EXCEPT !.milli = t]
      OBVIOUS
    <3>8. o \in Order /\ o.status = s /\ o.cum = c
      BY <3>6, <3>7, MilliIs
    <3>9. Fits(o, a)
      BY <2>2, <3>3, <3>4, <3>8 DEF Fits
    <3> QED BY <2>5, <3>7, <3>9, AbsorbMoves
  <2>8. CASE ~(w = [order EXCEPT !.oid = "oid", !.status = "PartiallyFilled", !.cum = a.n, !.quote = a.n])
    <3>1. Fits([w EXCEPT !.milli = t], a)
      BY <2>2, <2>5, <2>6, <2>8, UpdateFits, PutBackFits
    <3> QED BY <2>5, <3>1, AbsorbMoves
  <2> QED BY <2>7, <2>8
<1>10. CASE \E a \in answers, t \in Times : HyperliquidCancelRefused(a, t)
  <2>1. PICK a \in answers, t \in Times : HyperliquidCancelRefused(a, t)
    BY <1>10
  <2>2. PICK w : w = [order EXCEPT !.status = "Canceling"]
    OBVIOUS
  <2>3. Absorb(a, [w EXCEPT !.milli = t])
    <3>1. PICK o : o = [order EXCEPT !.status = "Canceling", !.milli = t]
      OBVIOUS
    <3>2. o = [w EXCEPT !.milli = t]
      BY <2>2, <3>1
    <3> QED BY <2>1, <3>1, <3>2 DEF HyperliquidCancelRefused
  <2>4. Fits([w EXCEPT !.milli = t], a)
    BY <2>1, <2>2, PutBackFits DEF HyperliquidCancelRefused
  <2> QED BY <2>3, <2>4, AbsorbMoves
<1>11. CASE \E a \in answers : HyperliquidUnread(a)
  BY <1>11 DEF Moves
<1> QED BY <1>1, <1>2, <1>3, <1>4, <1>5, <1>6, <1>7, <1>8, <1>9, <1>10, <1>11 DEF HyperliquidNext

-----------------------------------------------------------------------------
(* The theorems about the order and the subscription                        *)

\* An answer whose handling throws has been written to the order in part, as
\* one that puts it back.
LEMMA UnreadKeeps ==
  ASSUME RInv, Told, Wired, NEW a \in answers, HyperliquidUnread(a)
  PROVE  Told' /\ Wired'
<1>1. /\ ex = "hyperliquid" /\ answers' = answers \ {a} /\ lost' = lost \cup {a.uid}
      /\ UNCHANGED <<placed, failed, crashed, uid, waiting, calls, sent>>
      /\ UNCHANGED <<marketVars, tableVars, feedVars, subVars, keyVars>>
  BY DEF HyperliquidUnread
<1>2. /\ order \in Order /\ order.cum \in Nat /\ order.cum <= traded /\ Honest(order)
      /\ a.n \in Nat /\ a.n <= traded
  BY ToldIs, CarriedIs DEF Told, Served
<1>3. \/ order' = order /\ reopened' = reopened
      \/ /\ order' \in Order /\ order'.cum \in {order.cum, a.n}
         /\ order'.status = "PartiallyFilled"
         /\ reopened' = (reopened \/ order.status \in Finished)
  <2>1. CASE UNCHANGED <<order, reopened>>
    BY <2>1
  <2>2. ASSUME NEW n \in {order.cum, a.n},
               order' = [order EXCEPT !.oid = "oid", !.status = "PartiallyFilled", !.cum = n]
        PROVE  order' \in Order /\ order'.cum = n /\ order'.status = "PartiallyFilled"
    <3>1. PICK i \in Oid : i = "oid"
      BY OrderSets
    <3>2. PICK s \in OrderStatus : s = "PartiallyFilled"
      BY DEF OrderStatus
    <3>3. PICK c \in Nat : c = n
      BY <1>2
    <3>4. order' = [order EXCEPT !.oid = i, !.status = s, !.cum = c]
      BY <2>2, <3>1, <3>2, <3>3
    <3>5. order' \in Order /\ order'.cum = c /\ order'.status = s
      BY <1>2, <3>4, OrderSets
    <3> QED BY <3>2, <3>3, <3>5
  <2> QED BY <2>1, <2>2 DEF HyperliquidUnread
<1>4. OrderTyped'
  <2>1. reopened \in BOOLEAN /\ reopened' \in BOOLEAN
    BY <1>3 DEF Told, OrderTyped
  <2> QED BY <1>1, <1>2, <1>3, <2>1 DEF Told, OrderTyped
<1>5. TablesTyped'
  BY <1>1 DEF Told, TablesTyped, tableVars, feedVars, keyVars
<1>6. MarketTyped' /\ Pushed'
  BY <1>1 DEF Told, MarketTyped, Pushed, marketVars, feedVars, keyVars
<1>7. RequestsTyped' /\ Served'
  <2>1. a.uid \in 1 .. uid
    BY DEF RInv
  <2> QED BY <1>1, <2>1 DEF Told, RequestsTyped, Served, marketVars
<1>8. /\ Honest(order')
      /\ book \in Ended /\ EndShown(order, reopened) => EndShown(order', reopened')
  <2>1. CASE order' = order /\ reopened' = reopened
    BY <1>2, <2>1
  <2>2. CASE /\ order' \in Order /\ order'.cum \in {order.cum, a.n}
             /\ order'.status = "PartiallyFilled"
             /\ reopened' = (reopened \/ order.status \in Finished)
    <3>1. "PartiallyFilled" \notin Finished
      BY DEF Finished
    <3>2. book \in Ended => EndStatus \in Finished
      BY EndStatusIs
    <3>3. Honest(order')
      BY <1>2, <2>2, <3>1 DEF Honest
    <3>4. ASSUME book \in Ended, EndShown(order, reopened) PROVE EndShown(order', reopened')
      BY <1>1, <2>2, <3>1, <3>2, <3>4 DEF EndShown, AmountShown
    <3> QED BY <3>3, <3>4
  <2> QED BY <1>3, <2>1, <2>2
<1>9. Honest(order)'
  BY <1>1, <1>8, Carried DEF tableVars
<1>10. EndComes'
  BY <1>1, <1>8, EndStill DEF Told, feedVars, subVars, tableVars
<1>11. Wired'
  BY <1>1, WiresStay DEF Wired, SubTyped, marketVars, feedVars, subVars
<1> QED BY <1>4, <1>5, <1>6, <1>7, <1>9, <1>10, <1>11 DEF Told

\* Every move keeps what is told and what is wired.
LEMMA MovesKeep == ASSUME RInv, Told, Wired, Moves PROVE Told' /\ Wired'
<1>1. CASE Asks
  BY <1>1, AsksKeep, StepWires
<1>2. CASE Marks
  BY <1>2, MarksKeep, StepWires
<1>3. CASE Fails
  BY <1>3, FailsKeep, StepWires
<1>4. CASE Answers
  BY <1>4, AnswersKeep, StepWires
<1>5. CASE Hears
  BY <1>5, HearsKeep, StepWires
<1>6. CASE Nulls
  BY <1>6, NullsKeep, StepWires
<1>7. CASE Rewires
  BY <1>7, RewiresKeep DEF Rewires
<1>8. CASE AsterKeyExpired
  BY <1>8, KeyPushKeeps
<1>9. CASE \E a \in answers : HyperliquidUnread(a)
  BY <1>9, UnreadKeeps
<1> QED BY <1>1, <1>2, <1>3, <1>4, <1>5, <1>6, <1>7, <1>8, <1>9 DEF Moves

\* At the start nothing is told and nothing is wired.
LEMMA InitTells == ASSUME Init PROVE Told /\ Wired
<1> USE SizesAssumption DEF SizesAssumption
<1>1. PICK t \in Times : order = NewOrder(t)
  BY DEF Init
<1>2. order \in Order /\ order.status = "Created" /\ order.cum = 0
  <2>1. PICK m \in Nat : m = t
    BY TimesAssumption
  <2>2. PICK z \in Nat : z = 0
    OBVIOUS
  <2>3. PICK st \in OrderStatus : st = "Created"
    BY DEF OrderStatus
  <2>4. PICK i \in Oid : i = ""
    BY Zenon DEF Oid
  <2>5. PICK p \in Price : p = NoPrice
    BY DEF Price, NoPrice
  <2>6. PICK e \in {"Ok", "Error"} : e = "Ok"
    OBVIOUS
  <2>7. PICK k : k = [status |-> st, milli |-> m, oid |-> i, ec |-> e, cum |-> z, quote |-> z,
                      dbase |-> z, dquote |-> z, avg |-> p]
    OBVIOUS
  <2>8. k \in Order /\ k.status = st /\ k.cum = z
    BY <2>7, NatsAreInts, OrderSets
  <2>9. NewOrder(t) = k
    BY <2>1, <2>2, <2>3, <2>4, <2>5, <2>6, <2>7, Zenon DEF NewOrder
  <2> QED BY <1>1, <2>2, <2>3, <2>8, <2>9
<1>3. OrderTyped
  BY <1>2 DEF Init, OrderTyped
<1>4. MarketTyped
  BY DEF Init, MarketTyped, BookStates
<1>5. TablesTyped
  <2>1. pairs \in BOOLEAN /\ tableLost = ~pairs
    BY DEF Init
  <2>2. tableLost \in BOOLEAN /\ (~tableLost => pairs)
    BY <2>1
  <2>3. refreshes = 0 /\ drops = 0 /\ expiries = 0
    BY DEF Init
  <2>4. {refreshes, drops, expiries} \subseteq Nat /\ refreshes + drops + expiries <= MaxFaults
    BY <2>3
  <2> QED BY <2>1, <2>2, <2>4 DEF TablesTyped
<1>6. RequestsTyped
  BY DEF Init, RequestsTyped
<1>7. pushes = <<>> /\ book = "none" /\ traded = 0 /\ answers = {}
  BY DEF Init
<1>8. Pushed
  <2>1. PICK e \in Seq(PushRecord) : e = <<>>
    BY EmptySeq
  <2>2. DOMAIN e = {}
    BY <2>1
  <2> QED BY <1>7, <2>1, <2>2 DEF Pushed
<1>9. Served
  BY <1>7 DEF Served
<1>10. Honest(order) /\ EndComes
  BY <1>2, <1>7 DEF Honest, Finished, EndComes, Ended
<1>11. SubTyped /\ ConnTyped
  BY DEF Init, SubTyped, ConnTyped
<1>12. KeysTyped
  <2>1. PICK p \in Nat, z \in Nat : p = (IF ex \in {"aster", "toobit"} THEN 1 ELSE 0) /\ z = 0
    OBVIOUS
  <2>2. fetches = [plain |-> p, renew |-> z]
    BY <2>1 DEF Init
  <2>3. fetches \in [plain : Nat, renew : Nat]
    BY <2>2
  <2>4. expiries = 0 /\ key = 0 /\ path = 0 /\ live = FALSE
    BY DEF Init
  <2>5. expiries \in Nat /\ expiries + 1 = 1 /\ 0 \in 0 .. 1
    BY <2>4
  <2>6. key \in 0 .. expiries + 1 /\ path \in 0 .. expiries + 1
    BY <2>4, <2>5
  <2>7. live \in BOOLEAN
    BY <2>4
  <2> QED BY <2>3, <2>5, <2>6, <2>7, Zenon DEF KeysTyped
<1>13. KeyLives
  BY DEF Init, KeyLives
<1>14. Fed
  BY DEF Init, Fed
<1> QED BY <1>3, <1>4, <1>5, <1>6, <1>8, <1>9, <1>10, <1>11, <1>12, <1>13, <1>14 DEF Told, Wired

\* The invariant that the other theorems of this part rest on.
LEMMA AllTold == Spec => [](RInv /\ Told /\ Wired)
<1>1. Init => RInv /\ Told /\ Wired
  <2>1. Init => RInv
    BY SizesAssumption DEF SizesAssumption, Init, RInv, Counted
  <2> QED BY <2>1, InitTells
<1>2. RInv /\ Told /\ Wired /\ [Next]_vars => (RInv /\ Told /\ Wired)'
  <2> SUFFICES ASSUME RInv, Told, Wired, [Next]_vars PROVE (RInv /\ Told /\ Wired)'
    OBVIOUS
  <2>1. CASE Next
    <3>1. RInv'
      BY <2>1, CommonStep, AsterStep, ToobitStep, PhemexStep, EdgexStep, HyperliquidStep, StepKeeps
         DEF Next
    <3>2. Told' /\ Wired'
      BY <2>1, CommonKeeps, AsterMoves, ToobitMoves, PhemexMoves, EdgexMoves, HyperliquidMoves,
         MovesKeep DEF Next
    <3> QED BY <3>1, <3>2
  <2>2. CASE UNCHANGED vars
    <3>1. RequestStep
      BY <2>2 DEF vars, marketVars, tableVars, orderVars, requestVars, subVars, RequestStep
    <3>2. Wired'
      BY <2>2, WiresStay DEF vars, marketVars, feedVars, subVars, Wired, SubTyped
    <3>3. Rewires
      BY <2>2, <3>2 DEF Rewires, vars, feedVars, subVars, keyVars
    <3> QED BY <3>1, <3>3, StepKeeps, RewiresKeep DEF Rewires
  <2> QED BY <2>1, <2>2
<1> QED BY <1>1, <1>2, PTL DEF Spec

\* Every variable keeps its type, the bounds of the faults and the requests
\* included.
THEOREM TypeCorrect == Spec => []TypeOK
<1>1. RInv /\ Told /\ Wired => TypeOK
  <2> SUFFICES ASSUME RInv, Told, Wired PROVE TypeOK
    OBVIOUS
  <2> USE SizesAssumption DEF SizesAssumption
  <2>1. /\ refreshes \in 0 .. MaxFaults /\ drops \in 0 .. MaxFaults /\ expiries \in 0 .. MaxFaults
        /\ pairs \in BOOLEAN /\ tableLost \in BOOLEAN
    BY DEF Told, TablesTyped
  <2>2. uid \in 0 .. MaxCalls /\ subscribes \in 0 .. MaxCalls /\ waiting \subseteq 1 .. uid
    BY DEF RInv
  <2>3. calls \in [1 .. MaxCalls -> {0, 1}]
    <3>1. \A u \in 1 .. MaxCalls : calls[u] \in {0, 1}
      BY DEF RInv, Counted
    <3> QED BY <3>1 DEF RInv
  <2>4. key \in Keys /\ path \in Keys
    BY <2>1 DEF Wired, KeysTyped, Keys
  <2>5. /\ ex \in Exchanges /\ book \in BookStates /\ traded \in 0 .. Qty
        /\ order \in Order /\ {placed, failed, reopened, crashed} \subseteq BOOLEAN
        /\ sent \subseteq [uid : 1 .. MaxCalls, op : Ops]
        /\ answers \subseteq [uid : 1 .. MaxCalls, op : Ops, ok : BOOLEAN,
                              b : BookStates, n : 0 .. Qty]
        /\ lost \subseteq 1 .. uid
        /\ pushes \in Seq([event : Ended \cup {"open", "key"}, n : 0 .. Qty])
    BY DEF Told, OrderTyped, MarketTyped, RequestsTyped, Pushed, PushRecord
  <2>6. /\ conn \in {"down", "opening", "connecting", "up", "closing", "dead"}
        /\ {stopping, feeds, handler, wants, missed, live} \subseteq BOOLEAN
        /\ broken \in {"no", "drop", "unsent", "unbound"} /\ fetches \in [plain : Nat, renew : Nat]
    BY DEF Wired, SubTyped, KeysTyped, ConnTyped
  <2> QED BY <2>1, <2>2, <2>3, <2>4, <2>5, <2>6 DEF TypeOK
<1> QED BY <1>1, AllTold, PTL

\* On every exchange a subscription that was accepted is fed or about to be,
\* unless one of the causes in Silenced has befallen it.
THEOREM SubscriptionsAreFed == Spec => []SubscribedIsFed
<1>1. Wired => SubscribedIsFed
  BY DEF Wired, Fed, SubscribedIsFed
<1> QED BY <1>1, AllTold, PTL

\* On every exchange, and for every order of requests, answers and pushes: an
\* order that has ended and of which nothing is under way any more has ended
\* alike for the caller, with what was traded, but for the named exceptions.
THEOREM EndsAgree == Spec => []SettledAgrees
<1>1. Told => SettledAgrees
  <2> SUFFICES ASSUME Told, book \in Ended, pushes = <<>>, ~(missed \/ failed \/ crashed)
      PROVE  EndShown(order, reopened)
    BY DEF SettledAgrees, EndShown, AmountShown
  <2>1. DOMAIN pushes = {}
    OBVIOUS
  <2> QED BY <2>1 DEF Told, EndComes
<1> QED BY <1>1, AllTold, PTL
================================================================================
