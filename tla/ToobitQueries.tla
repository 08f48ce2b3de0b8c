---------------------------- MODULE ToobitQueries ----------------------------
(* exchanges/toobit/toobit_account.cpp, the queries of toobit_market_data.cpp *)
(* and their parsers.                                                         *)
EXTENDS RestQueries

ToobitGetBalance(q) == ex = "toobit" /\ q.op = "balance" /\ Send(q)
ToobitGetPosition(q) == ex = "toobit" /\ q.op = "position" /\ Send(q)
ToobitGetMarginRatio(q) == ex = "toobit" /\ q.op = "margin" /\ Send(q)
ToobitFetchPairsInfo(q) == ex = "toobit" /\ q.op = "pairs" /\ Send(q)

ToobitSetLeverage(q) ==
  /\ ex = "toobit" /\ q.op = "leverage"
  /\ IF q.pair = NoPair THEN Ignore(q) ELSE Send(q)

ToobitFetchFundingFee(q) ==
  /\ ex = "toobit" /\ q.op = "funding"
  /\ IF q.pair = NoPair THEN Refuse(q) ELSE Send(q)

ToobitBalance(q) == {c \in Coins : q.coin \in {"all", c}}

\* The entry of a pair without a denomination stays empty.
ToobitPositions(a) == Entries({i \in a.held : i[1] \in known})

\* parse_funding_fee: an empty list gives a null pointer.
ToobitFundingFee(a) == IF a.q.pair \in a.listed THEN {"fee"} ELSE {}

ToobitReceive(a) ==
  /\ ex = "toobit"
  /\ \/ a.q.op = "pairs" /\ HearsPairs(a)
     \/ a.q.op = "position" /\ Hears(a, ToobitPositions(a))
     \/ a.q.op = "balance" /\ Hears(a, ToobitBalance(a.q))
     \/ a.q.op = "funding" /\ Hears(a, ToobitFundingFee(a))
     \/ a.q.op \in {"leverage", "margin"} /\ Hears(a, {})

ToobitNext ==
  \/ \E q \in Query :
       \/ ToobitGetBalance(q) \/ ToobitGetPosition(q) \/ ToobitSetLeverage(q)
       \/ ToobitGetMarginRatio(q) \/ ToobitFetchPairsInfo(q) \/ ToobitFetchFundingFee(q)
  \/ \E a \in answers : ToobitReceive(a)
=============================================================================
