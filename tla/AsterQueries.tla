---------------------------- MODULE AsterQueries ----------------------------
(* exchanges/aster/aster_account.cpp, the queries of aster_market_data.cpp    *)
(* and their parsers.                                                         *)
EXTENDS RestQueries

AsterGetBalance(q) == ex = "aster" /\ q.op = "balance" /\ Send(q)
AsterGetPosition(q) == ex = "aster" /\ q.op = "position" /\ Send(q)
AsterGetMarginRatio(q) == ex = "aster" /\ q.op = "margin" /\ Send(q)
AsterFetchPairsInfo(q) == ex = "aster" /\ q.op = "pairs" /\ Send(q)

AsterSetLeverage(q) ==
  /\ ex = "aster" /\ q.op = "leverage"
  /\ IF q.pair = NoPair THEN Ignore(q) ELSE Send(q)

AsterFetchFundingFee(q) ==
  /\ ex = "aster" /\ q.op = "funding"
  /\ IF q.pair = NoPair THEN Refuse(q) ELSE Send(q)

AsterBalance(q) == {c \in Coins : q.coin \in {"all", c}}

\* Amounts are in coins, and the table is not needed.
AsterPositions(a) == Entries(a.held)

AsterReceive(a) ==
  /\ ex = "aster"
  /\ \/ a.q.op = "pairs" /\ HearsPairs(a)
     \/ a.q.op = "position" /\ Hears(a, AsterPositions(a))
     \/ a.q.op = "balance" /\ Hears(a, AsterBalance(a.q))
     \/ a.q.op = "funding" /\ Hears(a, {"fee"})
     \/ a.q.op \in {"leverage", "margin"} /\ Hears(a, {})

AsterNext ==
  \/ \E q \in Query :
       \/ AsterGetBalance(q) \/ AsterGetPosition(q) \/ AsterSetLeverage(q)
       \/ AsterGetMarginRatio(q) \/ AsterFetchPairsInfo(q) \/ AsterFetchFundingFee(q)
  \/ \E a \in answers : AsterReceive(a)
=============================================================================
