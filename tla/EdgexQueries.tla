---------------------------- MODULE EdgexQueries ----------------------------
(* exchanges/edgex/edgex_account.cpp, the queries of edgex_market_data.cpp    *)
(* and their parsers.  Pairs and currencies go by numbers that the tables     *)
(* translate.                                                                 *)
EXTENDS RestQueries

\* get_contract_id finds the symbol as it is spelled.
EdgexContract(q) == q.pair \in known /\ q.lower

EdgexGetBalance(q) == ex = "edgex" /\ q.op = "balance" /\ Send(q)
EdgexGetMarginRatio(q) == ex = "edgex" /\ q.op = "margin" /\ Send(q)
EdgexFetchPairsInfo(q) == ex = "edgex" /\ q.op = "pairs" /\ Send(q)

\* An empty symbol has no contract either.
EdgexGetPosition(q) ==
  /\ ex = "edgex" /\ q.op = "position"
  /\ IF EdgexContract(q) THEN Send(q) ELSE Refuse(q)

\* "not supported"
EdgexSetLeverage(q) == ex = "edgex" /\ q.op = "leverage" /\ Ignore(q)

EdgexFetchFundingFee(q) ==
  /\ ex = "edgex" /\ q.op = "funding"
  /\ IF EdgexContract(q) THEN Send(q) ELSE Refuse(q)

\* An empty currency equals none.
EdgexBalance(q) == IF coins THEN Coins \cap {q.coin} ELSE {}

\* An item of an unknown contract is left out; there is one item a pair.
EdgexPositions(a) == Entries({i \in a.held : i[1] \in known})

\* parse_funding_fee: an empty list gives a null pointer.
EdgexFundingFee(a) == IF a.q.pair \in a.listed THEN {"fee"} ELSE {}

EdgexReceive(a) ==
  /\ ex = "edgex"
  /\ \/ a.q.op = "pairs" /\ HearsPairs(a)
     \/ a.q.op = "position" /\ Hears(a, EdgexPositions(a))
     \/ a.q.op = "balance" /\ Hears(a, EdgexBalance(a.q))
     \/ a.q.op = "funding" /\ Hears(a, EdgexFundingFee(a))
     \/ a.q.op \in {"leverage", "margin"} /\ Hears(a, {})

EdgexNext ==
  \/ \E q \in Query :
       \/ EdgexGetBalance(q) \/ EdgexGetPosition(q) \/ EdgexSetLeverage(q)
       \/ EdgexGetMarginRatio(q) \/ EdgexFetchPairsInfo(q) \/ EdgexFetchFundingFee(q)
  \/ \E a \in answers : EdgexReceive(a)
=============================================================================
