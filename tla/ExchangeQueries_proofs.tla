------------------------ MODULE ExchangeQueries_proofs ------------------------
(* For any number of pairs, calls and changes: the callback of every query is *)
(* called once or still owed, and an Ok answer shows the account.  All        *)
(* handlers end in one of the steps Send, Refuse, Ignore and CallBack, so     *)
(* that is what is shown of each exchange, together with what its parsers     *)
(* make of an answer; the invariants are then shown of these steps.           *)
EXTENDS ExchangeQueries, TLAPS

MayIgnore == ex \in {"aster", "toobit", "edgex", "hyperliquid"}

\* A callback comes from a request that is on its way, which is forgotten.
\* Without the bounds on waiting and silent a call could be called back that
\* was never made, or one that had returned silently.
IInv ==
  /\ uid \in 0 .. MaxCalls
  /\ calls \in [1 .. MaxCalls -> Nat]
  /\ waiting \subseteq 1 .. uid
  /\ silent \subseteq 1 .. uid
  /\ waiting \cap silent = {}
  /\ AnsweredOnce

\* What goes out, as each exchange checks it.
Asked(q) == q \in Query /\ (ex = "phemex" /\ q.op = "balance" => q.coin # "all")

\* An answer is about what was asked, and the table of pairs has at least what
\* the last fetch_pairs_info handed over.
Served(a) ==
  /\ a.held \subseteq Held
  /\ ex # "hyperliquid" => \A h \in a.held : Asks(a.q, h[1])

AInv ==
  /\ held \subseteq Held
  /\ told \subseteq known
  /\ \A r \in sent \cup answers : Asked(r.q)
  /\ \A a \in answers : Served(a)
  /\ OkShowsAccount

\* What a step of an exchange does to the invariants.
Accounts ==
  \/ \E q \in Query : (Asked(q) /\ Send(q)) \/ Refuse(q) \/ (MayIgnore /\ Ignore(q))
  \/ \E a \in answers :
       /\ \E what : CallBack(a.uid, what)
       /\ AInv => told' \subseteq known' /\ OkShowsAccount'

-----------------------------------------------------------------------------
(* What an answer shows                                                     *)

True(m) ==
  /\ m.q.op = "position" => PositionsTrue(m)
  /\ m.q.op = "balance" => BalanceTrue(m)
  /\ m.q.op = "funding" => FeeTrue(m)

\* What the callback of a gets with shown.
Made(a, shown) ==
  [ec |-> "Ok", q |-> a.q, shown |-> shown, held |-> a.held,
   listed |-> a.listed, told |-> told, coins |-> coins]

\* What is said after Hears is what was made of the answer.
LEMMA MadeTrue ==
  ASSUME NEW a, NEW shown, Hears(a, shown), True(Made(a, shown))
  PROVE  OkShowsAccount'
<1>1. said' = Made(a, shown) /\ ex' = ex /\ unified' = unified
  BY DEF Hears, CallBack, Made, exchangeVars
<1> QED BY <1>1 DEF True, OkShowsAccount, PositionsTrue, MayMiss, BalanceTrue, FeeTrue, Asks

\* The callback of a fetch_pairs_info is not about the account.
LEMMA PairsTrue ==
  ASSUME NEW a, a.q.op = "pairs", HearsPairs(a)
  PROVE  OkShowsAccount'
BY DEF HearsPairs, CallBack, OkShowsAccount

\* parse_position makes of a set of items these items.
LEMMA EntriesAreItems == ASSUME NEW items \in SUBSET Held PROVE Entries(items) = items
BY DEF Entries, Held

\* The answer an exchange's parser makes of a is true if it is so for the three
\* kinds of query that are about the account.
LEMMA ShownTrue ==
  ASSUME NEW a, NEW positions, NEW balance, NEW fee,
         \/ a.q.op = "pairs" /\ HearsPairs(a)
         \/ a.q.op = "position" /\ Hears(a, positions)
         \/ a.q.op = "balance" /\ Hears(a, balance)
         \/ a.q.op = "funding" /\ Hears(a, fee)
         \/ a.q.op \in {"leverage", "margin"} /\ Hears(a, {}),
         a.q.op = "position" => PositionsTrue(Made(a, positions)),
         a.q.op = "balance" => BalanceTrue(Made(a, balance)),
         a.q.op = "funding" => FeeTrue(Made(a, fee))
  PROVE  OkShowsAccount'
<1>1. CASE a.q.op = "pairs" /\ HearsPairs(a)
  BY <1>1, PairsTrue
<1>2. ASSUME NEW shown, Hears(a, shown),
             \/ a.q.op = "position" /\ PositionsTrue(Made(a, shown))
             \/ a.q.op = "balance" /\ BalanceTrue(Made(a, shown))
             \/ a.q.op = "funding" /\ FeeTrue(Made(a, shown))
             \/ a.q.op \in {"leverage", "margin"}
      PROVE  OkShowsAccount'
  <2>1. Made(a, shown).q = a.q
    BY DEF Made
  <2>2. True(Made(a, shown))
    BY <1>2, <2>1 DEF True
  <2> QED BY <1>2, <2>2, MadeTrue
<1> QED BY <1>1, <1>2

\* KuCoin reads positions through the table, and a classic balance is one currency.
LEMMA KucoinShows ==
  ASSUME AInv, NEW a \in answers, KucoinReceive(a) PROVE OkShowsAccount'
<1>1. a.q.op = "position" => PositionsTrue(Made(a, KucoinPositions(a)))
  BY EntriesAreItems DEF AInv, KucoinReceive, KucoinPositions, PositionsTrue, MayMiss,
                         Made, Served, Asks, Held
<1>2. a.q.op = "balance" =>
        BalanceTrue(Made(a, IF unified THEN KucoinUnifiedBalance(a.q)
                            ELSE KucoinClassicBalance(a.q)))
  BY DEF AInv, KucoinReceive, KucoinUnifiedBalance, KucoinClassicBalance, BalanceTrue,
         Made, Asked, Query, Coins
<1>3. a.q.op = "funding" => FeeTrue(Made(a, {"fee"}))
  BY DEF FeeTrue, Made
<1> QED BY <1>1, <1>2, <1>3, ShownTrue DEF KucoinReceive

\* Toobit reads positions through the table.
LEMMA ToobitShows ==
  ASSUME AInv, NEW a \in answers, ToobitReceive(a) PROVE OkShowsAccount'
<1>1. a.q.op = "position" => PositionsTrue(Made(a, ToobitPositions(a)))
  BY EntriesAreItems DEF AInv, ToobitReceive, ToobitPositions, PositionsTrue, MayMiss,
                         Made, Served, Asks, Held
<1>2. a.q.op = "balance" => BalanceTrue(Made(a, ToobitBalance(a.q)))
  BY DEF AInv, ToobitReceive, ToobitBalance, BalanceTrue, Made, Asked, Query, Coins
<1>3. a.q.op = "funding" => FeeTrue(Made(a, ToobitFundingFee(a)))
  BY DEF ToobitFundingFee, FeeTrue, Made
<1> QED BY <1>1, <1>2, <1>3, ShownTrue DEF ToobitReceive

\* Phemex reads positions as they come, and one currency.
LEMMA PhemexShows ==
  ASSUME AInv, NEW a \in answers, PhemexReceive(a) PROVE OkShowsAccount'
<1>1. a.q.op = "position" => PositionsTrue(Made(a, PhemexPositions(a)))
  BY EntriesAreItems DEF AInv, PhemexReceive, PhemexPositions, PositionsTrue, MayMiss,
                         Made, Served, Asks, Held
<1>2. a.q.op = "balance" => BalanceTrue(Made(a, PhemexBalance(a.q)))
  BY DEF AInv, PhemexReceive, PhemexBalance, BalanceTrue, Made, Asked, Query, Coins
<1>3. a.q.op = "funding" => FeeTrue(Made(a, {"fee"}))
  BY DEF FeeTrue, Made
<1> QED BY <1>1, <1>2, <1>3, ShownTrue DEF PhemexReceive

\* Aster reads positions as they come.
LEMMA AsterShows ==
  ASSUME AInv, NEW a \in answers, AsterReceive(a) PROVE OkShowsAccount'
<1>1. a.q.op = "position" => PositionsTrue(Made(a, AsterPositions(a)))
  BY EntriesAreItems DEF AInv, AsterReceive, AsterPositions, PositionsTrue, MayMiss,
                         Made, Served, Asks, Held
<1>2. a.q.op = "balance" => BalanceTrue(Made(a, AsterBalance(a.q)))
  BY DEF AInv, AsterReceive, AsterBalance, BalanceTrue, Made, Asked, Query, Coins
<1>3. a.q.op = "funding" => FeeTrue(Made(a, {"fee"}))
  BY DEF FeeTrue, Made
<1> QED BY <1>1, <1>2, <1>3, ShownTrue DEF AsterReceive

\* edgeX reads positions and balances through its tables.
LEMMA EdgexShows ==
  ASSUME AInv, NEW a \in answers, EdgexReceive(a) PROVE OkShowsAccount'
<1>1. a.q.op = "position" => PositionsTrue(Made(a, EdgexPositions(a)))
  BY EntriesAreItems DEF AInv, EdgexReceive, EdgexPositions, PositionsTrue, MayMiss,
                         Made, Served, Asks, Held
<1>2. a.q.op = "balance" => BalanceTrue(Made(a, EdgexBalance(a.q)))
  BY DEF AInv, EdgexReceive, EdgexBalance, BalanceTrue, Made, Asked, Query, Coins
<1>3. a.q.op = "funding" => FeeTrue(Made(a, EdgexFundingFee(a)))
  BY DEF EdgexFundingFee, FeeTrue, Made
<1> QED BY <1>1, <1>2, <1>3, ShownTrue DEF EdgexReceive

\* Hyperliquid shows all positions and its one currency.
LEMMA HyperliquidShows ==
  ASSUME AInv, NEW a \in answers, HyperliquidReceive(a) PROVE OkShowsAccount'
<1>1. a.q.op = "position" => PositionsTrue(Made(a, HyperliquidPositions(a)))
  BY EntriesAreItems DEF AInv, HyperliquidReceive, HyperliquidPositions, PositionsTrue,
                         MayMiss, Made, Served, Asks, Held
<1>2. a.q.op = "balance" => BalanceTrue(Made(a, HyperliquidBalance))
  BY DEF AInv, HyperliquidReceive, HyperliquidBalance, BalanceTrue, Made, Asked, Query,
         Coins
<1>3. a.q.op = "funding" => FeeTrue(Made(a, HyperliquidFundingFee(a)))
  BY DEF HyperliquidFundingFee, FeeTrue, Made
<1> QED BY <1>1, <1>2, <1>3, ShownTrue DEF HyperliquidReceive

-----------------------------------------------------------------------------
(* The exchanges                                                            *)

\* The callback of a parsed answer, whatever it shows.
LEMMA HearsCallsBack ==
  ASSUME NEW a \in answers, NEW shown, Hears(a, shown) \/ HearsPairs(a)
  PROVE  /\ \E what : CallBack(a.uid, what)
         /\ told \subseteq known => told' \subseteq known'
BY DEF Hears, HearsPairs, tableVars

\* KuCoin, in both modes: nothing is ignored.
LEMMA KucoinAccounts == KucoinNext => Accounts
<1>1. ASSUME NEW a \in answers, KucoinReceive(a) PROVE Accounts
  <2>1. /\ \E what : CallBack(a.uid, what)
        /\ told \subseteq known => told' \subseteq known'
    BY <1>1, HearsCallsBack DEF KucoinReceive
  <2> QED BY <1>1, <2>1, KucoinShows DEF AInv, Accounts
<1>2. ASSUME NEW q \in Query,
             \/ KucoinGetBalance(q) \/ KucoinGetPosition(q) \/ KucoinSetLeverage(q)
             \/ KucoinGetMarginRatio(q) \/ KucoinFetchPairsInfo(q) \/ KucoinFetchFundingFee(q)
      PROVE  Accounts
  BY <1>2 DEF KucoinGetBalance, KucoinGetPosition, KucoinSetLeverage,
              KucoinGetMarginRatio, KucoinFetchPairsInfo, KucoinFetchFundingFee,
              Asked, MayIgnore, Accounts
<1> QED BY <1>1, <1>2 DEF KucoinNext

\* Toobit ignores a leverage for nothing.
LEMMA ToobitAccounts == ToobitNext => Accounts
<1>1. ASSUME NEW a \in answers, ToobitReceive(a) PROVE Accounts
  <2>1. /\ \E what : CallBack(a.uid, what)
        /\ told \subseteq known => told' \subseteq known'
    BY <1>1, HearsCallsBack DEF ToobitReceive
  <2> QED BY <1>1, <2>1, ToobitShows DEF AInv, Accounts
<1>2. ASSUME NEW q \in Query,
             \/ ToobitGetBalance(q) \/ ToobitGetPosition(q) \/ ToobitSetLeverage(q)
             \/ ToobitGetMarginRatio(q) \/ ToobitFetchPairsInfo(q) \/ ToobitFetchFundingFee(q)
      PROVE  Accounts
  BY <1>2 DEF ToobitGetBalance, ToobitGetPosition, ToobitSetLeverage,
              ToobitGetMarginRatio, ToobitFetchPairsInfo, ToobitFetchFundingFee,
              Asked, MayIgnore, Accounts
<1> QED BY <1>1, <1>2 DEF ToobitNext

\* Phemex refuses what it cannot ask.
LEMMA PhemexAccounts == PhemexNext => Accounts
<1>1. ASSUME NEW a \in answers, PhemexReceive(a) PROVE Accounts
  <2>1. /\ \E what : CallBack(a.uid, what)
        /\ told \subseteq known => told' \subseteq known'
    BY <1>1, HearsCallsBack DEF PhemexReceive
  <2> QED BY <1>1, <2>1, PhemexShows DEF AInv, Accounts
<1>2. ASSUME NEW q \in Query,
             \/ PhemexGetBalance(q) \/ PhemexGetPosition(q) \/ PhemexSetLeverage(q)
             \/ PhemexGetMarginRatio(q) \/ PhemexFetchPairsInfo(q) \/ PhemexFetchFundingFee(q)
      PROVE  Accounts
  BY <1>2 DEF PhemexGetBalance, PhemexGetPosition, PhemexSetLeverage,
              PhemexGetMarginRatio, PhemexFetchPairsInfo, PhemexFetchFundingFee,
              Asked, MayIgnore, Accounts
<1> QED BY <1>1, <1>2 DEF PhemexNext

\* Aster ignores a leverage for nothing.
LEMMA AsterAccounts == AsterNext => Accounts
<1>1. ASSUME NEW a \in answers, AsterReceive(a) PROVE Accounts
  <2>1. /\ \E what : CallBack(a.uid, what)
        /\ told \subseteq known => told' \subseteq known'
    BY <1>1, HearsCallsBack DEF AsterReceive
  <2> QED BY <1>1, <2>1, AsterShows DEF AInv, Accounts
<1>2. ASSUME NEW q \in Query,
             \/ AsterGetBalance(q) \/ AsterGetPosition(q) \/ AsterSetLeverage(q)
             \/ AsterGetMarginRatio(q) \/ AsterFetchPairsInfo(q) \/ AsterFetchFundingFee(q)
      PROVE  Accounts
  BY <1>2 DEF AsterGetBalance, AsterGetPosition, AsterSetLeverage,
              AsterGetMarginRatio, AsterFetchPairsInfo, AsterFetchFundingFee,
              Asked, MayIgnore, Accounts
<1> QED BY <1>1, <1>2 DEF AsterNext

\* edgeX ignores every leverage.
LEMMA EdgexAccounts == EdgexNext => Accounts
<1>1. ASSUME NEW a \in answers, EdgexReceive(a) PROVE Accounts
  <2>1. /\ \E what : CallBack(a.uid, what)
        /\ told \subseteq known => told' \subseteq known'
    BY <1>1, HearsCallsBack DEF EdgexReceive
  <2> QED BY <1>1, <2>1, EdgexShows DEF AInv, Accounts
<1>2. ASSUME NEW q \in Query,
             \/ EdgexGetBalance(q) \/ EdgexGetPosition(q) \/ EdgexSetLeverage(q)
             \/ EdgexGetMarginRatio(q) \/ EdgexFetchPairsInfo(q) \/ EdgexFetchFundingFee(q)
      PROVE  Accounts
  BY <1>2 DEF EdgexGetBalance, EdgexGetPosition, EdgexSetLeverage,
              EdgexGetMarginRatio, EdgexFetchPairsInfo, EdgexFetchFundingFee,
              Asked, MayIgnore, Accounts
<1> QED BY <1>1, <1>2 DEF EdgexNext

\* Hyperliquid ignores the leverage of a pair without a number.
LEMMA HyperliquidAccounts == HyperliquidNext => Accounts
<1>1. ASSUME NEW a \in answers, HyperliquidReceive(a) PROVE Accounts
  <2>1. /\ \E what : CallBack(a.uid, what)
        /\ told \subseteq known => told' \subseteq known'
    BY <1>1, HearsCallsBack DEF HyperliquidReceive
  <2> QED BY <1>1, <2>1, HyperliquidShows DEF AInv, Accounts
<1>2. ASSUME NEW q \in Query,
             \/ HyperliquidGetBalance(q) \/ HyperliquidGetPosition(q)
             \/ HyperliquidSetLeverage(q) \/ HyperliquidGetMarginRatio(q)
             \/ HyperliquidFetchPairsInfo(q) \/ HyperliquidFetchFundingFee(q)
      PROVE  Accounts
  BY <1>2 DEF HyperliquidGetBalance, HyperliquidGetPosition, HyperliquidSetLeverage,
              HyperliquidGetMarginRatio, HyperliquidFetchPairsInfo, HyperliquidFetchFundingFee,
              Asked, MayIgnore, Accounts
<1> QED BY <1>1, <1>2 DEF HyperliquidNext

-----------------------------------------------------------------------------
(* The steps                                                                *)

\* The calls of a set of requests or answers that grows by one.
LEMMA OneMore ==
  ASSUME NEW S, NEW r
  PROVE  {i.uid : i \in S \cup {r}} = {i.uid : i \in S} \cup {r.uid}
OBVIOUS

\* A request that becomes an answer belongs to the same call.
LEMMA Replaced ==
  ASSUME NEW S, NEW A, NEW r \in S, NEW a, a.uid = r.uid
  PROVE  {i.uid : i \in (S \ {r}) \cup (A \cup {a})} = {i.uid : i \in S \cup A}
OBVIOUS

\* A request goes out: one more call is owed its callback.
LEMMA SendKeeps == ASSUME IInv, NEW q, Send(q) PROVE IInv'
<1> USE QueriesAssumption DEF QueriesAssumption
<1>1. uid' \in 1 .. MaxCalls /\ uid' \notin waiting \cup silent /\ uid' = uid + 1
  BY DEF IInv, Send, NewCall
<1>2. waiting' = {r.uid : r \in sent' \cup answers'}
  <2> DEFINE r == [uid |-> uid', q |-> q]
  <2>1. sent' \cup answers' = (sent \cup answers) \cup {r} /\ waiting' = waiting \cup {r.uid}
    BY DEF Send
  <2> HIDE DEF r
  <2> QED BY <2>1, OneMore DEF IInv, AnsweredOnce
<1>3. \A u \in 1 .. MaxCalls :
        calls'[u] = IF u <= uid' /\ u \notin waiting' \cup silent' THEN 1 ELSE 0
  BY <1>1 DEF IInv, AnsweredOnce, Send
<1>4. UNCHANGED <<ex, silent, calls>> /\ waiting' = waiting \cup {uid'}
  BY DEF Send, exchangeVars
<1>5. AnsweredOnce'
  BY <1>2, <1>3, <1>4 DEF IInv, AnsweredOnce
<1> QED BY <1>1, <1>4, <1>5 DEF IInv

\* A refusal is its call's only callback.
LEMMA RefuseKeeps == ASSUME IInv, NEW q, Refuse(q) PROVE IInv'
BY QueriesAssumption DEF QueriesAssumption, IInv, AnsweredOnce, Refuse, NewCall,
                         exchangeVars

\* Only where a call may be ignored.
LEMMA IgnoreKeeps == ASSUME IInv, MayIgnore, NEW q, Ignore(q) PROVE IInv'
<1> USE QueriesAssumption DEF QueriesAssumption
<1>1. uid' \in 1 .. MaxCalls /\ uid' \notin waiting \cup silent /\ uid' = uid + 1
  BY DEF IInv, Ignore, NewCall
<1>2. \A u \in 1 .. MaxCalls :
        calls'[u] = IF u <= uid' /\ u \notin waiting' \cup silent' THEN 1 ELSE 0
  BY <1>1 DEF IInv, AnsweredOnce, Ignore
<1> QED BY <1>1, <1>2 DEF IInv, AnsweredOnce, MayIgnore, Ignore, exchangeVars

\* The callback of a request that is on its way was still owed.
LEMMA CallBackKeeps ==
  ASSUME IInv, NEW r \in sent \cup answers, NEW what, CallBack(r.uid, what)
  PROVE  IInv'
<1>1. r.uid \in waiting /\ r.uid \in 1 .. MaxCalls
  BY QueriesAssumption DEF QueriesAssumption, IInv, AnsweredOnce
<1>2. waiting' = {i.uid : i \in sent' \cup answers'}
  BY DEF IInv, AnsweredOnce, CallBack
<1>3. \A u \in 1 .. MaxCalls :
        calls'[u] = IF u <= uid' /\ u \notin waiting' \cup silent' THEN 1 ELSE 0
  BY <1>1, QueriesAssumption DEF QueriesAssumption, IInv, AnsweredOnce, CallBack
<1> QED BY <1>1, <1>2, <1>3 DEF IInv, AnsweredOnce, CallBack, exchangeVars

\* What changes at the exchange alone, an answer that is sent included.
LEMMA ExchangeKeeps ==
  ASSUME IInv,
         \/ \E r \in sent : Serve(r)
         \/ \E h \in Held : Trade(h)
         \/ \E p \in Pairs : Suspend(p)
         \/ UNCHANGED vars
  PROVE  IInv'
<1>1. UNCHANGED <<ex, uid, waiting, silent, calls>>
  BY DEF Serve, Trade, Suspend, vars, exchangeVars
<1>2. {i.uid : i \in sent' \cup answers'} = {i.uid : i \in sent \cup answers}
  <2>1. ASSUME NEW r \in sent, Serve(r)
        PROVE  {i.uid : i \in sent' \cup answers'} = {i.uid : i \in sent \cup answers}
    <3>1. PICK a : /\ a.uid = r.uid
                   /\ sent' = sent \ {r} /\ answers' = answers \cup {a}
      BY <2>1 DEF Serve
    <3> QED BY <3>1, Replaced
  <2> QED BY <2>1 DEF Trade, Suspend, vars
<1> QED BY <1>1, <1>2 DEF IInv, AnsweredOnce

-----------------------------------------------------------------------------
(* The theorem                                                              *)

\* The callback of every query on the six exchanges comes exactly once, and is
\* owed as long as its request or answer is on its way.
THEOREM CallbacksOnce == Spec => []AnsweredOnce
<1>1. Init => IInv
  BY QueriesAssumption DEF QueriesAssumption, Init, IInv, AnsweredOnce
<1>2. IInv /\ [Next]_vars => IInv'
  <2> SUFFICES ASSUME IInv, [Next]_vars PROVE IInv'
    OBVIOUS
  <2>1. ASSUME Accounts PROVE IInv'
    BY <2>1, SendKeeps, RefuseKeeps, IgnoreKeeps, CallBackKeeps DEF Accounts
  <2>2. CASE CommonNext
    BY <2>2, CallBackKeeps, ExchangeKeeps DEF CommonNext, RequestFails, CutShort
  <2>3. CASE UNCHANGED vars
    BY <2>3, ExchangeKeeps
  <2> QED
    BY <2>1, <2>2, <2>3, KucoinAccounts, ToobitAccounts, PhemexAccounts, AsterAccounts,
       EdgexAccounts, HyperliquidAccounts DEF Next
<1>3. IInv => AnsweredOnce
  BY DEF IInv
<1> QED BY <1>1, <1>2, <1>3, PTL DEF Spec

\* What the steps of the exchanges and of the account leave of AInv.
LEMMA AnswersKeep ==
  ASSUME AInv, [Next]_vars PROVE AInv'
<1>1. ASSUME NEW q \in Query, Asked(q) /\ Send(q) PROVE AInv'
  BY <1>1 DEF AInv, Asked, Served, Send, OkShowsAccount, Nothing, exchangeVars,
              tableVars
<1>2. ASSUME NEW q \in Query, Refuse(q) \/ Ignore(q) PROVE AInv'
  BY <1>2 DEF AInv, Asked, Served, Refuse, Ignore, OkShowsAccount, Nothing,
              exchangeVars,
              tableVars
<1>3. ASSUME NEW u, NEW what, CallBack(u, what), told' \subseteq known', OkShowsAccount'
      PROVE  AInv'
  BY <1>3 DEF AInv, Asked, Served, CallBack, exchangeVars
<1>4. ASSUME NEW r \in sent \cup answers, RequestFails(r) PROVE AInv'
  <2>1. told' \subseteq known' /\ OkShowsAccount'
    BY <1>4 DEF AInv, RequestFails, CallBack, Failure, OkShowsAccount, tableVars
  <2> QED BY <1>4, <2>1, <1>3 DEF RequestFails
<1>5. ASSUME NEW r \in sent, CutShort(r) PROVE AInv'
  <2>1. told' \subseteq known' /\ OkShowsAccount'
    BY <1>5 DEF AInv, CutShort, TablesCutShort, CallBack, Failure, OkShowsAccount,
                tableVars
  <2> QED BY <1>5, <2>1, <1>3 DEF CutShort
<1>6. ASSUME NEW r \in sent, Serve(r) PROVE AInv'
  <2> DEFINE a == [uid |-> r.uid, q |-> r.q,
                   listed |-> IF r.q.op \in {"pairs", "funding"} THEN listed ELSE {},
                   held |-> IF r.q.op = "position" THEN Items(r.q) ELSE {}]
  <2>1. a.q = r.q /\ a.held = IF r.q.op = "position" THEN Items(r.q) ELSE {}
    OBVIOUS
  <2>2. sent' = sent \ {r} /\ answers' = answers \cup {a}
    BY <1>6 DEF Serve
  <2> HIDE DEF a
  <2>3. Served(a)
    BY <2>1 DEF AInv, Served, Items
  <2>4. UNCHANGED <<ex, held, told, known>> /\ said' = Nothing
    BY <1>6 DEF Serve, exchangeVars, tableVars
  <2> QED BY <2>1, <2>2, <2>3, <2>4 DEF AInv, Asked, Served, OkShowsAccount, Nothing
<1>7. ASSUME (\E h \in Held : Trade(h)) \/ (\E p \in Pairs : Suspend(p)) PROVE AInv'
  <2>1. UNCHANGED <<ex, told, known, sent, answers>> /\ said' = Nothing
    BY <1>7 DEF Trade, Suspend, MoreChanges, tableVars
  <2>2. held' \subseteq Held
    BY <1>7 DEF AInv, Trade, Suspend
  <2> QED BY <2>1, <2>2 DEF AInv, Asked, Served, OkShowsAccount, Nothing
<1>8. CASE UNCHANGED vars
  BY <1>8 DEF AInv, Asked, Served, OkShowsAccount, PositionsTrue, MayMiss, BalanceTrue,
              FeeTrue, Asks, vars, exchangeVars, tableVars
<1>9. ASSUME Accounts PROVE AInv'
  BY <1>9, <1>1, <1>2, <1>3 DEF Accounts
<1> QED
  BY <1>4, <1>5, <1>6, <1>7, <1>8, <1>9, KucoinAccounts, ToobitAccounts, PhemexAccounts,
     AsterAccounts, EdgexAccounts, HyperliquidAccounts DEF Next, CommonNext

\* An Ok answer shows every position, currency and fee asked for and nothing
\* else, with the exceptions OkShowsAccount names and no others, whatever was
\* asked, failed or refreshed in between.
THEOREM AnswersShowTheAccount == Spec => []OkShowsAccount
<1>1. Init => AInv
  BY DEF Init, AInv, Nothing, OkShowsAccount
<1>2. AInv => OkShowsAccount
  BY DEF AInv
<1> QED BY <1>1, <1>2, AnswersKeep, PTL DEF Spec
=============================================================================
