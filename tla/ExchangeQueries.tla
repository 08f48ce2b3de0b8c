--------------------------- MODULE ExchangeQueries ---------------------------
(* The queries of the six exchanges, and what a strategy can take from an     *)
(* answer.                                                                    *)
EXTENDS KucoinQueries, ToobitQueries, PhemexQueries, AsterQueries, EdgexQueries,
        HyperliquidQueries

Next ==
  \/ CommonNext
  \/ KucoinNext \/ ToobitNext \/ PhemexNext \/ AsterNext \/ EdgexNext \/ HyperliquidNext

Spec == Init /\ [][Next]_vars

-----------------------------------------------------------------------------
\* A query is asynchronous and answers through its callback ("异步获取货币余额",
\* interface.h:290): that comes once or is still on its way, through refusals,
\* broken connections and answers that do not parse.  Only set_leverage may
\* return without one, where nothing was asked for or the exchange cannot set it.
AnsweredOnce ==
  /\ \A u \in 1 .. MaxCalls :
       calls[u] = IF u <= uid /\ u \notin waiting \cup silent THEN 1 ELSE 0
  /\ waiting = {r.uid : r \in sent \cup answers}
  /\ silent # {} => ex \in {"aster", "toobit", "edgex", "hyperliquid"}

\* A held position an Ok answer may miss: kucoin, toobit and edgex read it
\* through the table of pairs, from which a suspended pair is gone after the
\* next fetch_pairs_info and every pair after one that fails half-way; kucoin
\* compares the symbol as it was spelled with the one in lower case.
MayMiss(a, h) ==
  \/ ex \in {"kucoin", "toobit", "edgex"} /\ h[1] \notin a.told
  \/ ex = "kucoin" /\ a.q.pair # NoPair /\ ~a.q.lower

PositionsTrue(a) ==
  /\ a.shown \subseteq a.held
  /\ \A h \in a.held : h \in a.shown \/ MayMiss(a, h)
  /\ ex # "hyperliquid" => \A h \in a.shown : Asks(a.q, h[1])

\* edgex knows no "all" and needs the table of currencies, hyperliquid has one
\* currency, and kucoin's classic account sends one.
BalanceTrue(a) ==
  a.shown = CASE ex = "edgex" -> IF a.coins THEN {a.q.coin} \cap Coins ELSE {}
              [] ex = "hyperliquid" \/ (ex = "kucoin" /\ ~unified /\ a.q.coin = "all")
                   -> {"settle"}
              [] OTHER -> {c \in Coins : a.q.coin \in {"all", c}}

\* Ok comes with a null pointer for the fee of a pair that does not trade.
FeeTrue(a) == a.shown # {} \/ a.q.pair \notin a.listed

\* An Ok answer shows the account as the exchange served it: every position
\* and currency asked for and no other, both sides of a pair, whatever calls,
\* refreshes of the pairs and failures came before or in between; with the
\* exceptions named above.
OkShowsAccount ==
  said.ec = "Ok" =>
    /\ said.q.op = "position" => PositionsTrue(said)
    /\ said.q.op = "balance" => BalanceTrue(said)
    /\ said.q.op = "funding" => FeeTrue(said)
=============================================================================
