----------------------------- MODULE RestQueries -----------------------------
(***************************************************************************)
(* What the account modules and the queries of the market-data modules     *)
(* share: get_balance, get_position, set_leverage, get_margin_ratio,       *)
(* fetch_pairs_info and fetch_funding_fee, each one REST request whose     *)
(* answer is parsed and handed to a callback.  Requests are answered in    *)
(* any order, and the parsers read and write the tables of pairs, which    *)
(* may have changed since the request was sent.  What is checked before a  *)
(* request and how an answer is read is what the six exchanges differ in,  *)
(* each in a module of its own.  The paths come from g_config_map and are  *)
(* not empty.                                                              *)
(*                                                                         *)
(* The exchange is outside the repository: it serves a request from the    *)
(* state of the moment.  Sizes, prices and ratios are not followed, only   *)
(* which positions and currencies an answer shows.                         *)
(***************************************************************************)
EXTENDS Integers, FiniteSets

CONSTANTS
  Exchanges,      \* the exchanges to look at
  Pairs, NoPair,  \* the pairs; an empty symbol
  MaxCalls,       \* bound on calls of the strategy
  MaxChanges      \* bound on changes at the exchange

ASSUME QueriesAssumption ==
  /\ Exchanges \subseteq {"kucoin", "toobit", "phemex", "aster", "edgex", "hyperliquid"}
  /\ NoPair \notin Pairs
  /\ {MaxCalls, MaxChanges} \subseteq Nat

Held == Pairs \X {"long", "short"}
Coins == {"settle", "other"}

\* What is asked: a pair (NoPair: an empty symbol, or a leverage of 0), spelled
\* in lower case or not; a currency, or all of them.
Query ==
  [op : {"position", "leverage", "funding"}, pair : Pairs, lower : BOOLEAN]
    \cup [op : {"position", "leverage", "funding"}, pair : {NoPair}, lower : {TRUE}]
    \cup [op : {"balance"}, coin : Coins \cup {"all"}]
    \cup [op : {"margin", "pairs"}]

VARIABLES
  ex,            \* the exchange; constant
  unified,       \* kucoin's g_account_mode; constant
  hedge,         \* the account may hold both sides of a pair; constant
  listed,        \* the pairs that trade at the exchange
  held,          \* the positions that are open there
  changes,
  known,         \* the pairs in g_pairs_info_cache
  coins,         \* edgex's coinid_to_currency_map has the currencies
  told,          \* what the last fetch_pairs_info that was read handed over
  uid,           \* calls
  waiting,       \* those whose callback is still owed
  silent,        \* those that returned without a callback
  calls,         \* how often the callback of each call was called
  sent,          \* requests on their way to the exchange
  answers,       \* answers on their way back, with the state they were made of
  said           \* the callback of the last step, and what its answer was made of

exchangeVars == <<ex, unified, hedge, listed, held, changes>>
tableVars == <<known, coins, told>>
vars == <<exchangeVars, tableVars, uid, waiting, silent, calls, sent, answers, said>>

Nothing == [ec |-> "none"]

\* initialize() of the modules; the pairs have been fetched or not.
Init ==
  /\ ex \in Exchanges
  /\ unified \in (IF ex = "kucoin" THEN BOOLEAN ELSE {FALSE})
  /\ hedge \in (CASE ex \in {"edgex", "hyperliquid"} \/ unified -> {FALSE}
                  [] ex = "toobit" -> {TRUE}
                  [] OTHER -> BOOLEAN)
  /\ listed = Pairs /\ held = {} /\ changes = 0
  /\ known \in {{}, Pairs} /\ coins = (known # {}) /\ told = known
  /\ uid = 0 /\ waiting = {} /\ silent = {} /\ calls = [u \in 1 .. MaxCalls |-> 0]
  /\ sent = {} /\ answers = {} /\ said = Nothing

-----------------------------------------------------------------------------
(* Calls                                                                   *)

NewCall == uid < MaxCalls /\ uid' = uid + 1

\* rest_.send
Send(q) ==
  /\ NewCall
  /\ waiting' = waiting \cup {uid'}
  /\ sent' = sent \cup {[uid |-> uid', q |-> q]}
  /\ said' = Nothing
  /\ UNCHANGED <<exchangeVars, tableVars, silent, calls, answers>>

\* The callback is called at once with InvalidParams.
Refuse(q) ==
  /\ NewCall
  /\ calls' = [calls EXCEPT ![uid'] = @ + 1]
  /\ said' = [ec |-> "InvalidParams", q |-> q]
  /\ UNCHANGED <<exchangeVars, tableVars, waiting, silent, sent, answers>>

\* set_leverage returns, and nobody is told.
Ignore(q) ==
  /\ NewCall
  /\ silent' = silent \cup {uid'}
  /\ said' = Nothing
  /\ UNCHANGED <<exchangeVars, tableVars, waiting, calls, sent, answers>>

-----------------------------------------------------------------------------
(* Answers                                                                 *)

\* The handler of rest_ ends with a callback.
CallBack(u, what) ==
  /\ calls' = [calls EXCEPT ![u] = @ + 1]
  /\ waiting' = waiting \ {u}
  /\ sent' = {r \in sent : r.uid # u}
  /\ answers' = {a \in answers : a.uid # u}
  /\ said' = what
  /\ UNCHANGED <<exchangeVars, uid, silent>>

Failure(q) == [ec |-> "Error", q |-> q]

\* A connection that fails, a timeout, a status that is not 200, a code that
\* is not a success.
RequestFails(r) ==
  /\ r \in sent \cup answers
  /\ CallBack(r.uid, Failure(r.q))
  /\ UNCHANGED tableVars

\* parse_pairs_info empties the tables, then fills them in order until the
\* answer ends; edgex reads the currencies first.
TablesCutShort ==
  /\ known' \in SUBSET Pairs
  /\ coins' \in (IF known' # {} THEN {TRUE} ELSE BOOLEAN)
  /\ told' = {}

\* Faulty: the handler returns where the exception was caught.
CutShortSilent(r) ==
  /\ r \in sent
  /\ waiting' = waiting \ {r.uid}
  /\ sent' = sent \ {r}
  /\ IF r.q.op = "pairs" THEN TablesCutShort ELSE UNCHANGED tableVars
  /\ said' = Nothing
  /\ UNCHANGED <<exchangeVars, uid, silent, calls, answers>>

\* The answer lacks something and the parser throws; toobit and hyperliquid
\* look for no code and parse an error's body as well.
CutShort(r) ==
  /\ r \in sent
  /\ IF r.q.op = "pairs" THEN TablesCutShort ELSE UNCHANGED tableVars
  /\ CallBack(r.uid, Failure(r.q))

\* The callback gets Ok and what the parser made of answer a.
Hears(a, shown) ==
  /\ CallBack(a.uid, [ec |-> "Ok", q |-> a.q, shown |-> shown, held |-> a.held,
                      listed |-> a.listed, told |-> told, coins |-> coins])
  /\ UNCHANGED tableVars

\* parse_pairs_info; the callback gets g_pairs_info_cache.
HearsPairs(a) ==
  /\ known' = a.listed /\ told' = a.listed /\ coins' = TRUE
  /\ CallBack(a.uid, [ec |-> "Ok", q |-> a.q, shown |-> {}, held |-> a.held,
                      listed |-> a.listed, told |-> told', coins |-> TRUE])

Asks(q, p) == q.pair \in {NoPair, p}

\* Faulty: an item of a pair replaces the entry of an earlier one.
EntriesReplaced(items) ==
  {i \in items : i[2] = "long" => <<i[1], "short">> \notin items}

\* parse_position: the items of one pair share an entry, each fills its side.
Entries(items) == {<<i[1], i[2]>> : i \in items}

-----------------------------------------------------------------------------
(* The exchange                                                            *)

\* Positions of the pair that is asked for; hyperliquid's request names none.
Items(q) == IF ex = "hyperliquid" THEN held ELSE {h \in held : Asks(q, h[1])}

\* The fee of a pair that does not trade is an error, or an empty list on
\* toobit and edgex; hyperliquid sends those of all pairs.
Serve(r) ==
  /\ r \in sent
  /\ r.q.op = "funding" => r.q.pair \in listed \/ ex \in {"toobit", "edgex", "hyperliquid"}
  /\ sent' = sent \ {r}
  /\ answers' = answers \cup
       {[uid |-> r.uid, q |-> r.q,
         listed |-> IF r.q.op \in {"pairs", "funding"} THEN listed ELSE {},
         held |-> IF r.q.op = "position" THEN Items(r.q) ELSE {}]}
  /\ said' = Nothing
  /\ UNCHANGED <<exchangeVars, tableVars, uid, waiting, silent, calls>>

MoreChanges == changes < MaxChanges /\ changes' = changes + 1 /\ said' = Nothing

Trade(h) ==
  /\ MoreChanges
  /\ held' = IF h \in held THEN held \ {h} ELSE held \cup {h}
  /\ ~hedge => \A p \in Pairs : Cardinality({i \in held' : i[1] = p}) <= 1
  /\ UNCHANGED <<ex, unified, hedge, listed, tableVars, uid, waiting, silent, calls,
                 sent, answers>>

\* A pair is suspended, its position stays.
Suspend(p) ==
  /\ MoreChanges
  /\ p \in listed /\ listed' = listed \ {p}
  /\ UNCHANGED <<ex, unified, hedge, held, tableVars, uid, waiting, silent, calls,
                 sent, answers>>

CommonNext ==
  \/ \E r \in sent \cup answers : RequestFails(r)
  \/ \E r \in sent : CutShort(r) \/ Serve(r)
  \/ \E h \in Held : Trade(h)
  \/ \E p \in Pairs : Suspend(p)
=============================================================================
