---------------------------- MODULE PhemexQueries ----------------------------
(* exchanges/phemex/phemex_account.cpp, the queries of phemex_market_data.cpp *)
(* and their parsers.                                                         *)
EXTENDS RestQueries

PhemexGetBalance(q) ==
  /\ ex = "phemex" /\ q.op = "balance"
  /\ IF q.coin = "all" THEN Refuse(q) ELSE Send(q)

PhemexGetPosition(q) == ex = "phemex" /\ q.op = "position" /\ Send(q)
PhemexSetLeverage(q) == ex = "phemex" /\ q.op = "leverage" /\ Send(q)
PhemexGetMarginRatio(q) == ex = "phemex" /\ q.op = "margin" /\ Send(q)
PhemexFetchPairsInfo(q) == ex = "phemex" /\ q.op = "pairs" /\ Send(q)

PhemexFetchFundingFee(q) ==
  /\ ex = "phemex" /\ q.op = "funding"
  /\ IF q.pair = NoPair THEN Refuse(q) ELSE Send(q)

\* The exchange sends the account of the currency that was asked for.
PhemexBalance(q) == {q.coin}

\* Items without a size are skipped; the table is not needed.
PhemexPositions(a) == Entries(a.held)

PhemexReceive(a) ==
  /\ ex = "phemex"
  /\ \/ a.q.op = "pairs" /\ HearsPairs(a)
     \/ a.q.op = "position" /\ Hears(a, PhemexPositions(a))
     \/ a.q.op = "balance" /\ Hears(a, PhemexBalance(a.q))
     \/ a.q.op = "funding" /\ Hears(a, {"fee"})
     \/ a.q.op \in {"leverage", "margin"} /\ Hears(a, {})

PhemexNext ==
  \/ \E q \in Query :
       \/ PhemexGetBalance(q) \/ PhemexGetPosition(q) \/ PhemexSetLeverage(q)
       \/ PhemexGetMarginRatio(q) \/ PhemexFetchPairsInfo(q) \/ PhemexFetchFundingFee(q)
  \/ \E a \in answers : PhemexReceive(a)
=============================================================================
