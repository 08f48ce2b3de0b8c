----------------------------- MODULE MarketData -----------------------------
(***************************************************************************)
(* What the market-data modules of the six exchanges share: the clients in *)
(* wss_connections_, the subscriptions in stream_params_, and the books of *)
(* common/interface.h.                                                     *)
(*                                                                         *)
(* subscribe_orderbook opens clients numbered from 0, and on_connect sends *)
(* stream_params_[number] over wss_connections_[number], at once or after  *)
(* a timer; how both are filled, and what is checked, is what the six      *)
(* differ in, each in a module of its own.  unsubscribe_orderbook destroys *)
(* the clients while their handlers are still queued in the io_context.    *)
(* A client of conns is up, or makes a connection; life is "new" until the *)
(* first one is up, "dead" when nothing makes another and "pinged" after a *)
(* ping has failed, of which we look at one for each client; one that is   *)
(* doomed will break up what it has by a reconnect that is scheduled.      *)
(*                                                                         *)
(* Pairs are numbered in the order of g_all_symbols.  The exchange is      *)
(* outside the repository: it pushes the versions of a pair's book, in     *)
(* order, to every connection that has subscribed to it.  They are dated   *)
(* in milliseconds, and two may have the same date.                        *)
(***************************************************************************)
EXTENDS Integers, Sequences, FiniteSetsExt

CONSTANTS
  Exchanges,      \* the exchanges to look at
  NumPairs,       \* pairs
  Limits,         \* values of MAX_PAIRS_PER_WS_CONNECTION to look at
  Times,          \* what the local clock may show
  MaxTicks,       \* bound on changes of books at the exchange
  MaxWatching,    \* clients there are at most when a book changes
  MaxEvents       \* bound on calls of subscribe_orderbook, lost connections, failed
                  \* lookups and table refreshes together

ASSUME MarketAssumption ==
  /\ Exchanges \subseteq {"kucoin", "toobit", "phemex", "aster", "edgex", "hyperliquid"}
  /\ {NumPairs, MaxTicks, MaxWatching, MaxEvents} \subseteq Nat
  /\ Limits \subseteq Nat \ {0} /\ Times \subseteq Nat \ {0} /\ Times # {}

Pairs == 1 .. NumPairs

VARIABLES
  ex, limit,     \* the exchange and its MAX_PAIRS_PER_WS_CONNECTION; constant
  known,         \* pairs 1 .. known are in g_pairs_info_cache and g_all_symbols
  refreshes,
  handler,       \* orderbook_handler_ is set
  params,        \* stream_params_: sets of pairs, each sent as one or more messages
  conns,         \* wss_connections_
  timers,        \* subscriptions that wait for their timer, by number of client
  freed,         \* handlers of destroyed clients are queued
  harm,          \* a vector was indexed out of range, a destroyed client was used
  subscribes,
  unsubscribes,
  since,         \* calls of subscribe_orderbook since the last unsubscribe
  wanted,        \* the pairs they were asked for
  skipped,       \* those of them that were not in the table
  market,        \* the dates of the versions of each pair's book at the exchange
  books,         \* orderbooks_; milli is 0 when the pair is not in it
  got,           \* the newest version that was parsed
  clock,         \* what time_get_now_milli returned last
  stepped,       \* it stepped back
  drops          \* lost connections and failed lookups

callVars == <<subscribes, unsubscribes, since, wanted, skipped>>
tableVars == <<known, refreshes>>
bookVars == <<market, books, got, clock, stepped>>
vars == <<ex, limit, tableVars, handler, params, conns, timers, freed, harm,
          callVars, bookVars, drops>>

\* edgex's initialize() fails without pairs; the others have fetched them or not.
Init ==
  /\ ex \in Exchanges /\ limit \in Limits
  /\ known \in (IF ex = "edgex" THEN Pairs ELSE 0 .. NumPairs) /\ refreshes = 0
  /\ handler = FALSE /\ params = <<>> /\ conns = <<>>
  /\ timers = [i \in 0 .. MaxEvents * NumPairs |-> 0]
  /\ freed = FALSE /\ harm = "no"
  /\ subscribes = 0 /\ unsubscribes = 0 /\ since = 0 /\ wanted = {} /\ skipped = {}
  /\ market = [p \in Pairs |-> <<>>]
  /\ books = [p \in Pairs |-> [milli |-> 0, k |-> 0, whole |-> TRUE, sized |-> TRUE]]
  /\ got = [p \in Pairs |-> 0]
  /\ clock \in (IF ex = "edgex" THEN Times ELSE {Min(Times)}) /\ stepped = FALSE
  /\ drops = 0

MoreEvents == subscribes + drops + refreshes < MaxEvents

-----------------------------------------------------------------------------
(* subscribe_orderbook and unsubscribe_orderbook                           *)

\* All pairs are asked for by name, or none, which means g_all_symbols.
Requests == {0, NumPairs}
Asked(n) == IF n = 0 THEN known ELSE n


\* The first n pairs, limit of them a group; the last group takes the rest.
Groups(n) ==
  [g \in 1 .. (n + limit - 1) \div limit |-> {p \in 1 .. n : (p - 1) \div limit = g - 1}]

Singles(n) == [p \in 1 .. n |-> {p}]

\* kucoin and hyperliquid open a client too many when the pairs fill the last.
FlatClients(n) == n \div limit + 1

Subscribe(n, newParams, clients) ==
  /\ MoreEvents
  /\ subscribes' = subscribes + 1 /\ since' = since + 1
  /\ wanted' = wanted \cup 1 .. Asked(n)
  /\ skipped' = skipped \cup (known + 1) .. Asked(n)
  /\ handler' = TRUE
  /\ params' = newParams
  /\ conns' = conns \o
       [i \in 1 .. clients |-> [idx |-> i - 1, up |-> FALSE, life |-> "new", doomed |-> FALSE,
                                subs |-> {}, inbox |-> <<>>]]
  /\ UNCHANGED <<ex, limit, tableVars, timers, freed, harm, unsubscribes, bookVars, drops>>

\* shutdown() too.  aster does not clear stream_params_.
Unsubscribe(newParams) ==
  /\ handler
  /\ unsubscribes' = unsubscribes + 1 /\ since' = 0 /\ wanted' = {} /\ skipped' = {}
  /\ handler' = FALSE
  /\ params' = newParams
  /\ conns' = <<>>
  /\ freed' = (freed \/ conns # <<>>)
  /\ UNCHANGED <<ex, limit, tableVars, timers, harm, subscribes, bookVars, drops>>

-----------------------------------------------------------------------------
(* Connections                                                             *)

\* wss_connections_[i] sends subscriptions to P, if there are any.  Over a client
\* that is not up the write fails, which schedules a reconnect.
Sent(cs, i, P) ==
  CASE P = {} -> cs
    [] P # {} /\ cs[i + 1].up -> [cs EXCEPT ![i + 1].subs = @ \cup P]
    [] OTHER -> [cs EXCEPT ![i + 1].doomed = TRUE]

\* stream_params_ from number i * limit on, as far as there are any.
Flat(i) == UNION {params[id] : id \in (i * limit + 1) .. Min({(i + 1) * limit, Len(params)})}

\* Undefined behaviour: nothing is said of what follows.
Harmed(how) ==
  /\ harm' = how
  /\ UNCHANGED <<ex, limit, tableVars, handler, params, conns, timers, freed,
                 callVars, bookVars, drops>>

CanConnect(c) == ~conns[c].up /\ conns[c].life # "dead"
Upped(c) ==
  LET life == conns[c].life
  IN  [conns EXCEPT ![c] = [@ EXCEPT !.life = IF life = "new" THEN "used" ELSE life, !.up = TRUE]]

\* Client c is connected, and on_connect sends P over the client of its number.
ConnectedSends(c, P) ==
  /\ CanConnect(c)
  /\ conns' = Sent(Upped(c), conns[c].idx, P)
  /\ UNCHANGED <<ex, limit, tableVars, handler, params, timers, freed, harm,
                 callVars, bookVars, drops>>

\* on_connect starts a timer for the client of its number.
ConnectedDelays(c) ==
  /\ CanConnect(c)
  /\ conns' = Upped(c)
  /\ timers' = [timers EXCEPT ![conns[c].idx] = @ + 1]
  /\ UNCHANGED <<ex, limit, tableVars, handler, params, freed, harm,
                 callVars, bookVars, drops>>

\* The timer of number i expires: P is sent.
TimerSends(i, P) ==
  /\ timers[i] > 0
  /\ timers' = [timers EXCEPT ![i] = @ - 1]
  /\ conns' = Sent(conns, i, P)
  /\ UNCHANGED <<ex, limit, tableVars, handler, params, freed, harm,
                 callVars, bookVars, drops>>

\* phemex and edgex: both vectors are indexed without a look at their sizes.
TimerSendsGroup(i) ==
  IF i < Len(params) /\ i < Len(conns)
  THEN TimerSends(i, params[i + 1])
  ELSE timers[i] > 0 /\ Harmed("index")

\* Faulty: the subscriptions are taken to outlive the connection.
DropKeeps(c) ==
  /\ conns[c].up
  /\ MoreEvents
  /\ drops' = drops + 1
  /\ conns' = [conns EXCEPT ![c] = [@ EXCEPT !.up = FALSE, !.inbox = <<>>]]
  /\ UNCHANGED <<ex, limit, tableVars, handler, params, timers, freed, harm,
                 callVars, bookVars>>

\* The connection is lost, or broken up; the library makes another, and
\* on_connect will be called again.
Renewed(c, life) ==
  [conns EXCEPT ![c] = [@ EXCEPT !.up = FALSE, !.life = life, !.doomed = FALSE,
                                 !.subs = {}, !.inbox = <<>>]]

Drop(c) ==
  /\ conns[c].up
  /\ MoreEvents
  /\ drops' = drops + 1
  /\ conns' = Renewed(c, conns[c].life)
  /\ UNCHANGED <<ex, limit, tableVars, handler, params, timers, freed, harm,
                 callVars, bookVars>>

\* The reconnect that a failed send has scheduled breaks up what has come up, or
\* is coming up, in the meantime; it looks the name up again.
Reconnects(c) ==
  /\ conns[c].doomed
  /\ conns' = Renewed(c, IF conns[c].life = "dead" THEN "new" ELSE conns[c].life)
  /\ UNCHANGED <<ex, limit, tableVars, handler, params, timers, freed, harm,
                 callVars, bookVars, drops>>

\* on_connect of kucoin, toobit and hyperliquid starts a timer that pings for ever.
Pings(c) ==
  ex \in {"kucoin", "toobit", "hyperliquid"} /\ conns[c].life \in {"used", "pinged"}

PingFails(c) ==
  /\ Pings(c) /\ ~conns[c].up /\ conns[c].life # "pinged"
  /\ conns' = [conns EXCEPT ![c] = [@ EXCEPT !.doomed = TRUE, !.life = "pinged"]]
  /\ UNCHANGED <<ex, limit, tableVars, handler, params, timers, freed, harm,
                 callVars, bookVars, drops>>

\* After a failed lookup or bind nothing makes a connection, unless a ping fails.
LookupFails(c) ==
  /\ CanConnect(c) /\ ~Pings(c)
  /\ MoreEvents
  /\ drops' = drops + 1
  /\ conns' = [conns EXCEPT ![c].life = "dead"]
  /\ UNCHANGED <<ex, limit, tableVars, handler, params, timers, freed, harm,
                 callVars, bookVars>>

\* The handlers of a destroyed client run: they use it, or its memory still
\* is as it was.
FreedHandlers ==
  /\ freed
  /\ \/ Harmed("freed")
     \/ /\ freed' = FALSE
        /\ UNCHANGED <<ex, limit, tableVars, handler, params, conns, timers, harm,
                       callVars, bookVars, drops>>

-----------------------------------------------------------------------------
(* Books                                                                   *)

\* parse_pairs_info empties the tables and fills them from the answer, which
\* may end early.
RefreshPairs ==
  /\ MoreEvents
  /\ refreshes' = refreshes + 1
  /\ known' \in 0 .. NumPairs
  /\ UNCHANGED <<ex, limit, handler, params, conns, timers, freed, harm,
                 callVars, bookVars, drops>>

\* A push names a pair and the version of its book.
Push == [p : Pairs, k : 1 .. MaxTicks]

\* The versions that there have been, of all pairs.
Versions == {push \in Push : push.k <= Len(market[push.p])}

\* The date of a version; there is none before the first.
Milli(p, k) == IF k = 0 THEN 0 ELSE market[p][k]

\* The exchange: pair p changes, in the millisecond of the version before it or
\* a later one.  A change nobody is told of leaves no trace.
Tick(p) ==
  /\ \E c \in DOMAIN conns : p \in conns[c].subs
  /\ Cardinality(Versions) < MaxTicks /\ Len(conns) <= MaxWatching
  /\ \E wait \in {0, 1} :
       LET milli == Milli(p, Len(market[p])) + wait
       IN  milli > 0 /\ market' = [market EXCEPT ![p] = Append(@, milli)]
  /\ conns' = [c \in DOMAIN conns |->
       IF p \in conns[c].subs
       THEN [conns[c] EXCEPT !.inbox = Append(@, [p |-> p, k |-> Len(market[p]) + 1])]
       ELSE conns[c]]
  /\ UNCHANGED <<ex, limit, tableVars, handler, params, timers, freed, harm,
                 callVars, books, got, clock, stepped, drops>>

TakePush(c) ==
  /\ conns[c].inbox # <<>>
  /\ conns' = [conns EXCEPT ![c].inbox = Tail(@)]
  /\ UNCHANGED <<ex, limit, tableVars, handler, params, timers, freed, harm,
                 callVars, market, drops>>

\* Faulty: the timestamps are not compared.
ApplyAnyDelta(push, milli, whole, sized) ==
  /\ books' = [books EXCEPT ![push.p] =
                 [milli |-> milli, k |-> push.k, whole |-> whole, sized |-> sized]]
  /\ got' = [got EXCEPT ![push.p] = Max({@, push.k})]

\* apply_orderbook_delta
ApplyOrderbookDelta(push, milli, whole, sized) ==
  /\ books' = IF milli < books[push.p].milli THEN books
              ELSE [books EXCEPT ![push.p] =
                      [milli |-> milli, k |-> push.k, whole |-> whole, sized |-> sized]]
  /\ got' = [got EXCEPT ![push.p] = Max({@, push.k})]

\* Amounts are multiplied by the pair's denomination, 0 when it is unknown; the
\* book has the exchange's date.
ReceiveBook(c, whole) ==
  /\ TakePush(c)
  /\ LET push == Head(conns[c].inbox)
     IN  ApplyOrderbookDelta(push, Milli(push.p, push.k), whole, push.p <= known)
  /\ UNCHANGED <<clock, stepped>>
=============================================================================
