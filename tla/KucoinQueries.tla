---------------------------- MODULE KucoinQueries ----------------------------
(* exchanges/kucoin/kucoin_account.cpp, the queries of kucoin_market_data.cpp *)
(* and their parsers, in both account modes.                                  *)
EXTENDS RestQueries

KucoinGetBalance(q) == ex = "kucoin" /\ q.op = "balance" /\ Send(q)
KucoinGetPosition(q) == ex = "kucoin" /\ q.op = "position" /\ Send(q)
KucoinSetLeverage(q) == ex = "kucoin" /\ q.op = "leverage" /\ Send(q)
KucoinGetMarginRatio(q) == ex = "kucoin" /\ q.op = "margin" /\ Send(q)
KucoinFetchPairsInfo(q) == ex = "kucoin" /\ q.op = "pairs" /\ Send(q)

KucoinFetchFundingFee(q) ==
  /\ ex = "kucoin" /\ q.op = "funding"
  /\ IF q.pair = NoPair THEN Refuse(q) ELSE Send(q)

\* parse_classic_balance: the exchange sends one currency, whatever was asked.
KucoinClassicBalance(q) == IF q.coin = "all" THEN {"settle"} ELSE {q.coin}
KucoinUnifiedBalance(q) == {c \in Coins : q.coin \in {"all", c}}

\* An item of another pair than the one asked for is left out, and the symbol
\* is compared as it was spelled.  The entry of a pair without a denomination
\* stays empty.
KucoinPositions(a) ==
  Entries({i \in a.held : /\ Asks(a.q, i[1]) /\ (a.q.pair = NoPair \/ a.q.lower)
                          /\ i[1] \in known})

KucoinReceive(a) ==
  /\ ex = "kucoin"
  /\ \/ a.q.op = "pairs" /\ HearsPairs(a)
     \/ a.q.op = "position" /\ Hears(a, KucoinPositions(a))
     \/ /\ a.q.op = "balance"
        /\ Hears(a, IF unified THEN KucoinUnifiedBalance(a.q) ELSE KucoinClassicBalance(a.q))
     \/ a.q.op = "funding" /\ Hears(a, {"fee"})
     \/ a.q.op \in {"leverage", "margin"} /\ Hears(a, {})

KucoinNext ==
  \/ \E q \in Query :
       \/ KucoinGetBalance(q) \/ KucoinGetPosition(q) \/ KucoinSetLeverage(q)
       \/ KucoinGetMarginRatio(q) \/ KucoinFetchPairsInfo(q) \/ KucoinFetchFundingFee(q)
  \/ \E a \in answers : KucoinReceive(a)
=============================================================================
