----------------------------- MODULE MarketFeeds -----------------------------
(* The six market-data modules, and what a strategy can rely on.              *)
EXTENDS KucoinMarketData, ToobitMarketData, PhemexMarketData, AsterMarketData,
        EdgexMarketData, HyperliquidMarketData

\* Nothing is said of what follows undefined behaviour.
Next ==
  /\ harm = "no"
  /\ \/ KucoinNext \/ ToobitNext \/ PhemexNext \/ AsterNext \/ EdgexNext \/ HyperliquidNext
     \/ RefreshPairs \/ FreedHandlers
     \/ \E p \in Pairs : Tick(p)
     \/ \E c \in DOMAIN conns : Drop(c) \/ Reconnects(c) \/ PingFails(c) \/ LookupFails(c)

Spec == Init /\ [][Next]_vars

\* Connections come up where one is made, timers expire, and not always while
\* the client they are for is between two connections.
Connects ==
  /\ harm = "no"
  /\ \E c \in DOMAIN conns :
       \/ KucoinConnected(c) \/ ToobitConnected(c) \/ PhemexConnected(c)
       \/ AsterConnected(c) \/ EdgexConnected(c) \/ HyperliquidConnected(c)

Expires ==
  /\ harm = "no"
  /\ \E i \in DOMAIN timers : KucoinTimer(i) \/ PhemexTimer(i) \/ EdgexTimer(i)

ExpiresUp ==
  /\ harm = "no"
  /\ \E i \in DOMAIN timers :
       /\ i + 1 \in DOMAIN conns /\ conns[i + 1].up
       /\ KucoinTimer(i) \/ PhemexTimer(i) \/ EdgexTimer(i)

FairSpec == Spec /\ WF_vars(Connects) /\ WF_vars(Expires) /\ SF_vars(ExpiresUp)

-----------------------------------------------------------------------------
Clients == 0 .. MaxEvents * NumPairs
Conn == [idx : Clients, up : BOOLEAN, life : {"new", "used", "pinged", "dead"},
         doomed : BOOLEAN, subs : SUBSET Pairs, inbox : Seq(Push)]

TypeOK ==
  /\ ex \in Exchanges /\ limit \in Limits
  /\ known \in 0 .. NumPairs /\ {refreshes, drops} \subseteq 0 .. MaxEvents
  /\ {handler, freed, stepped} \subseteq BOOLEAN
  /\ params \in Seq((SUBSET Pairs) \ {{}})
  /\ conns \in Seq(Conn)
  /\ \A c \in DOMAIN conns : ~conns[c].up => conns[c].subs = {} /\ conns[c].inbox = <<>>
  /\ timers \in [Clients -> Nat]
  /\ harm \in {"no", "index", "freed"}
  /\ {subscribes, unsubscribes, since} \subseteq 0 .. MaxEvents
  /\ wanted \subseteq Pairs
  /\ market \in [Pairs -> Seq(Nat)] /\ \A p \in Pairs : Len(market[p]) <= MaxTicks
  /\ got \in [Pairs -> 0 .. MaxTicks]
  /\ books \in [Pairs -> [milli : Nat, k : 0 .. MaxTicks, whole : BOOLEAN, sized : BOOLEAN]]
  /\ clock \in Times

\* What the code never checks takes a call of its owner to bite: destroyed
\* clients and phemex's and edgex's timers an unsubscribe_orderbook while
\* something is under way (phemex_market_data.cpp:209, edgex_market_data.cpp:261),
\* toobit's shorter list a second subscribe_orderbook (toobit_market_data.cpp:192).
MemorySafe ==
  /\ harm = "freed" => unsubscribes > 0
  /\ harm = "index" => \/ ex \in {"phemex", "edgex"} /\ unsubscribes > 0
                       \/ ex = "toobit" /\ since > 1

Over(p) == Cardinality({c \in DOMAIN conns : p \in conns[c].subs})

\* Every pair asked for comes over one connection, and no other pair comes.
\* edgex and hyperliquid skip pairs that are not in the table, and edgex the
\* rest of their group with them (edgex_market_data.cpp:39); aster subscribes
\* what was asked for before unsubscribe_orderbook once more.
FedOnce ==
  \A p \in Pairs :
    IF ex = "aster" /\ unsubscribes > 0 THEN p \in wanted => Over(p) > 0
    ELSE IF p \notin wanted \/ (ex = "hyperliquid" /\ p \in skipped) THEN Over(p) = 0
    ELSE Over(p) = 1 \/ (ex = "edgex" /\ skipped # {} /\ Over(p) = 0)

NoneDead == \A c \in DOMAIN conns : conns[c].life # "dead"


\* The book of a pair is the newest that was parsed, although a pair may come
\* over several connections.  Over several, after a second subscribe_orderbook,
\* an older one of the same millisecond passes (interface.h:154).  edgex dates
\* books by the local clock: one that steps back refuses newer books, and any
\* older one on a second connection passes.  phemex stores an unchanged side as
\* 0, and amounts are 0 when the pair was missing in the table.
BooksCurrent ==
  \A p \in Pairs :
    /\ \/ books[p].k = got[p]
       \/ subscribes > 1 /\ ex # "edgex" /\ books[p].milli = Milli(p, got[p])
       \/ ex = "edgex" /\ (stepped \/ subscribes > 1)
    /\ books[p].whole \/ ex = "phemex"
    /\ books[p].sized \/ (ex \notin {"edgex", "hyperliquid"} /\ (p > known \/ refreshes > 0))
=============================================================================
