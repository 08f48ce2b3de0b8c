---------------------------- MODULE MarketFeeds_proofs ----------------------------
(***************************************************************************)
(* Proofs about MarketFeeds, for any number of pairs, calls and faults.    *)
(*                                                                         *)
(* The argument: what the six modules do with the vectors of clients and   *)
(* subscriptions is one of a few changes (Opens, Rewires, Harms, Reads),   *)
(* and the invariant (Sound) survives each.  Its parts say how the         *)
(* vectors' sizes are related as long as their owner calls only once       *)
(* (Indexed), what dates a book (Dated), and that after one subscription   *)
(* each pair comes over one connection and in order (OneFeed): dates alone *)
(* do not tell the newer of two books, as edgex takes them from the local  *)
(* clock and the others have two of one millisecond.                       *)
(***************************************************************************)
EXTENDS MarketFeeds, FiniteSetTheorems, SequenceTheorems, TLAPS

-----------------------------------------------------------------------------
(* The inductive invariant                                                 *)

\* Calls are counted, and a client is open only while a subscription is.
Counted ==
  /\ {subscribes, drops, refreshes, unsubscribes, since} \subseteq Nat
  /\ subscribes + drops + refreshes <= MaxEvents
  /\ unsubscribes <= subscribes /\ (handler => unsubscribes < subscribes)
  /\ since <= subscribes /\ (since = 0 => conns = <<>>)
  /\ Len(params) <= subscribes * NumPairs
  /\ freed => unsubscribes > 0

\* Who indexes the vectors without a look at their sizes finds what it looks for,
\* as long as its owner has not called for a second time.
Indexed ==
  /\ ex = "aster" \/ (ex = "toobit" /\ since < 2) \/ ex \in {"phemex", "edgex"} =>
       \A c \in DOMAIN conns : conns[c].idx < Len(params)
  /\ ex \in {"phemex", "edgex"} =>
       /\ Len(params) <= Len(conns)
       /\ unsubscribes = 0 => \A i \in Clients : timers[i] > 0 => i < Len(params)

\* No book, and no push, is ahead of the exchange.
Behind ==
  /\ \A p \in Pairs : got[p] <= Len(market[p])
  /\ \A c \in DOMAIN conns : \A i \in DOMAIN conns[c].inbox :
       conns[c].inbox[i].k <= Len(market[conns[c].inbox[i].p])

\* A newer version has no older date.
Rising ==
  \A p \in Pairs : \A i, j \in 0 .. Len(market[p]) : i <= j => Milli(p, i) <= Milli(p, j)

\* A book has the date of the newest version that was parsed, edgex's the clock's.
Dated ==
  /\ ex # "edgex" => \A p \in Pairs : books[p].milli = Milli(p, got[p])
  /\ ex = "edgex" /\ ~stepped => \A p \in Pairs : books[p].milli <= clock

\* The pairs that are for client c.
Carries(c) ==
  IF ex \in {"kucoin", "hyperliquid"} THEN Flat(c - 1)
  ELSE IF c \in DOMAIN params THEN params[c] ELSE {}

Steady == ~(ex = "edgex" /\ stepped)

\* After one subscription every pair comes over one connection, whose pushes are
\* in order.
OneFeed ==
  subscribes < 2 =>
    /\ subscribes = 0 => params = <<>> /\ conns = <<>>
    /\ \A i, j \in DOMAIN params : i # j => params[i] \cap params[j] = {}
    /\ \A c \in DOMAIN conns :
         /\ conns[c].idx = c - 1 /\ conns[c].subs \subseteq Carries(c)
         /\ \A i \in DOMAIN conns[c].inbox :
              LET push == conns[c].inbox[i] IN
              /\ push.p \in Carries(c) /\ got[push.p] < push.k
              /\ \A j \in DOMAIN conns[c].inbox :
                   i < j /\ conns[c].inbox[j].p = push.p => push.k < conns[c].inbox[j].k
    /\ Steady => \A p \in Pairs : books[p].k = got[p]

\* Sides and amounts are there, with the named exceptions.
Filled ==
  \A p \in Pairs :
    /\ books[p].whole \/ ex = "phemex"
    /\ books[p].sized \/ (ex \notin {"edgex", "hyperliquid"} /\ (p > known \/ refreshes > 0))

Sound ==
  /\ TypeOK /\ MemorySafe /\ Counted /\ Indexed
  /\ Behind /\ Rising /\ Dated /\ OneFeed /\ Filled

Parts == (SUBSET Pairs) \ {{}}
Book == [milli : Nat, k : 0 .. MaxTicks, whole : BOOLEAN, sized : BOOLEAN]

-----------------------------------------------------------------------------
(* Numbers                                                                 *)

LEMMA LargerOf ==
  ASSUME NEW a \in Nat, NEW b \in Nat
  PROVE  Max({a, b}) = IF a < b THEN b ELSE a
<1> DEFINE m == IF a < b THEN b ELSE a
<1>1. m \in {a, b} /\ \A y \in {a, b} : m >= y
  OBVIOUS
<1>2. \A x \in {a, b} : (\A y \in {a, b} : x >= y) => x = m
  OBVIOUS
<1> HIDE DEF m
<1>3. (CHOOSE x \in {a, b} : \A y \in {a, b} : x >= y) = m
  BY <1>1, <1>2
<1> QED BY <1>3 DEF Max, m

LEMMA SmallerOf ==
  ASSUME NEW a \in Nat, NEW b \in Nat
  PROVE  Min({a, b}) = IF a < b THEN a ELSE b
<1> DEFINE m == IF a < b THEN a ELSE b
<1>1. m \in {a, b} /\ \A y \in {a, b} : m =< y
  OBVIOUS
<1>2. \A x \in {a, b} : (\A y \in {a, b} : x =< y) => x = m
  OBVIOUS
<1> HIDE DEF m
<1>3. (CHOOSE x \in {a, b} : \A y \in {a, b} : x =< y) = m
  BY <1>1, <1>2
<1> QED BY <1>3 DEF Min, m

\* The earliest of the times is one of them.
LEMMA EarliestTime == Min(Times) \in Times
<1> DEFINE R == {ss \in Nat \X Nat : ss[1] < ss[2]}
<1>1. IsWellFoundedOn(R, Nat)
  BY NatLessThanWellFounded DEF OpToRel
<1>2. PICK m \in Times : \A n \in Times : ~(<<n, m>> \in R)
  BY <1>1, WFMin, MarketAssumption
<1>3. ASSUME NEW n \in Times PROVE m =< n
  <2>1. n \in Nat /\ m \in Nat /\ <<n, m>> \in Nat \X Nat
    BY MarketAssumption
  <2>2. ~(<<n, m>>[1] < <<n, m>>[2])
    BY <1>2, <2>1
  <2> QED BY <2>1, <2>2
<1>4. \E x \in Times : \A y \in Times : x =< y
  BY <1>3
<1> QED BY <1>4 DEF Min

\* Integer division, for the numbers of groups and clients.
LEMMA Quotients ==
  ASSUME NEW n \in Nat, NEW l \in Nat \ {0}
  PROVE  /\ n \div l \in Nat /\ n \div l <= n
         /\ (n + l - 1) \div l \in Nat /\ (n + l - 1) \div l <= n
         /\ \A q \in Nat : (q * l) \div l = q
         /\ \A m \in Nat : m <= n => m \div l <= (n + l - 1) \div l
<1>1. /\ n \div l \in Nat /\ l * (n \div l) <= n
  OBVIOUS
<1>2. n \div l <= n
  BY <1>1
<1>3. n + l - 1 \in Nat
  OBVIOUS
<1>4. (n + l - 1) \div l \in Nat
  BY <1>3
<1>5. (n + l - 1) \div l <= n
  OBVIOUS
<1>6. \A q \in Nat : (q * l) \div l = q
  OBVIOUS
<1>7. ASSUME NEW a \in Nat, NEW b \in Nat, a <= b PROVE a \div l <= b \div l
  BY <1>7
<1>8. ASSUME NEW m \in Nat, m <= n PROVE m \div l <= (n + l - 1) \div l
  <2>1. m <= n + l - 1
    BY <1>8
  <2> QED BY <1>3, <1>7, <2>1
<1> QED BY <1>1, <1>2, <1>4, <1>5, <1>6, <1>8

-----------------------------------------------------------------------------
(* Groups of pairs                                                         *)

\* The groups are sets of pairs, none is empty, no pair is in two.
LEMMA GroupsAre ==
  ASSUME NEW n \in 0 .. NumPairs, limit \in Nat \ {0}
  PROVE  /\ Groups(n) \in Seq(Parts)
         /\ Len(Groups(n)) = (n + limit - 1) \div limit
         /\ Len(Groups(n)) \in 0 .. n
         /\ \A i, j \in 1 .. Len(Groups(n)) : i # j => Groups(n)[i] \cap Groups(n)[j] = {}
<1> DEFINE m == (n + limit - 1) \div limit
           group(g) == {p \in 1 .. n : (p - 1) \div limit = g - 1}
<1>1. n \in Nat /\ n <= NumPairs /\ NumPairs \in Nat
  BY MarketAssumption
<1>2. m \in Nat /\ m <= n
  BY <1>1, Quotients
<1>3. ASSUME NEW g \in 1 .. m PROVE group(g) \in Parts
  <2>1. PICK p : p = (g - 1) * limit + 1
    OBVIOUS
  <2>2. g - 1 \in Nat /\ p \in Nat /\ p >= 1
    BY <1>2, <2>1
  <2>3. (p - 1) \div limit = g - 1
    <3>1. p - 1 = (g - 1) * limit
      BY <2>1, <2>2
    <3> QED BY <1>1, <2>2, <3>1, Quotients
  <2>4. p <= n
    <3>1. n + limit - 1 >= limit * m
      BY <1>1
    <3>2. limit * m >= limit * g
      BY <1>2
    <3>3. limit * g = (g - 1) * limit + limit
      BY <1>2
    <3>4. limit * g \in Nat /\ limit * m \in Nat
      BY <1>2
    <3> HIDE DEF m
    <3> QED BY <1>1, <2>1, <2>2, <3>1, <3>2, <3>3, <3>4
  <2>5. p \in group(g)
    BY <2>2, <2>3, <2>4, <1>1
  <2>6. group(g) \subseteq Pairs
    BY <1>1 DEF Pairs
  <2>7. PICK s : s = group(g)
    OBVIOUS
  <2>8. s \subseteq Pairs /\ s # {}
    <3> HIDE DEF group
    <3> QED BY <2>5, <2>6, <2>7
  <2>9. s \in Parts
    <3> HIDE DEF group
    <3> QED BY <2>8 DEF Parts
  <2> QED BY <2>7, <2>9
<1>4. Groups(n) = [g \in 1 .. m |-> group(g)]
  BY DEF Groups
<1> HIDE DEF group
<1>5. Groups(n) \in [1 .. m -> Parts]
  <2> HIDE DEF m
  <2> QED BY <1>3, <1>4
<1>6. Groups(n) \in Seq(Parts) /\ Len(Groups(n)) = m
  <2> HIDE DEF m
  <2> QED BY <1>2, <1>5
<1>7. ASSUME NEW i \in 1 .. m, NEW j \in 1 .. m, i # j PROVE Groups(n)[i] \cap Groups(n)[j] = {}
  <2>1. Groups(n)[i] = group(i) /\ Groups(n)[j] = group(j) /\ i \in Nat /\ j \in Nat
    <3> HIDE DEF m
    <3> QED BY <1>2, <1>4
  <2> QED BY <2>1, <1>7 DEF group
<1> QED BY <1>1, <1>2, <1>6, <1>7

\* edgex subscribes some of the first of them.
LEMMA EdgexGroupsAre ==
  ASSUME NEW n \in 0 .. NumPairs, limit \in Nat \ {0}, known \in Nat
  PROVE  /\ EdgexGroups(n) \in Seq(Parts)
         /\ Len(EdgexGroups(n)) \in 0 .. NumPairs
         /\ \A i, j \in 1 .. Len(EdgexGroups(n)) :
              i # j => EdgexGroups(n)[i] \cap EdgexGroups(n)[j] = {}
<1> DEFINE all == Groups(n)
           m == IF n <= known THEN Len(all) ELSE known \div limit
<1>1. n \in Nat /\ n <= NumPairs /\ NumPairs \in Nat
  BY MarketAssumption
<1>2. /\ all \in Seq(Parts) /\ Len(all) \in Nat /\ Len(all) <= n
      /\ \A i, j \in 1 .. Len(all) : i # j => all[i] \cap all[j] = {}
      /\ Len(all) = (n + limit - 1) \div limit
  <2>1. /\ all \in Seq(Parts) /\ Len(all) \in 0 .. n
        /\ \A i, j \in 1 .. Len(all) : i # j => all[i] \cap all[j] = {}
        /\ Len(all) = (n + limit - 1) \div limit
    BY GroupsAre, Zenon
  <2> HIDE DEF all
  <2> QED BY <1>1, <2>1
<1>3. m \in Nat /\ m <= Len(all)
  <2>1. CASE n <= known
    BY <2>1, <1>2
  <2>2. CASE ~(n <= known)
    <3>1. known \div limit <= (n + limit - 1) \div limit /\ known \div limit \in Nat
      BY <1>1, <2>2, Quotients
    <3> QED BY <3>1, <2>2, <1>2
  <2> QED BY <2>1, <2>2
<1>4. EdgexGroups(n) = SubSeq(all, 1, m)
  BY DEF EdgexGroups
<1> HIDE DEF all, m
<1>5. \A i \in 1 .. m : all[i] \in Parts
  BY <1>2, <1>3
<1>6. /\ SubSeq(all, 1, m) \in Seq(Parts)
      /\ Len(SubSeq(all, 1, m)) = m
      /\ \A i \in 1 .. m : SubSeq(all, 1, m)[i] = all[i]
  BY <1>3, <1>5, SubSeqProperties
<1>7. \A i \in 1 .. m : i \in 1 .. Len(all)
  BY <1>2, <1>3
<1> QED BY <1>1, <1>2, <1>3, <1>4, <1>6, <1>7

LEMMA SinglesAre ==
  ASSUME NEW n \in 0 .. NumPairs
  PROVE  /\ Singles(n) \in Seq(Parts) /\ Len(Singles(n)) = n
         /\ \A i, j \in 1 .. n : i # j => Singles(n)[i] \cap Singles(n)[j] = {}
<1>1. n \in Nat /\ n <= NumPairs /\ NumPairs \in Nat
  BY MarketAssumption
<1>2. \A p \in 1 .. n : {p} \in Parts
  <2> TAKE p \in 1 .. n
  <2>1. {p} \subseteq Pairs /\ {p} # {}
    BY <1>1 DEF Pairs
  <2>2. PICK s : s = {p}
    OBVIOUS
  <2> QED BY <2>1, <2>2 DEF Parts
<1>3. Singles(n) \in [1 .. n -> Parts]
  BY <1>2 DEF Singles
<1>4. \A i, j \in 1 .. n : i # j => Singles(n)[i] \cap Singles(n)[j] = {}
  BY DEF Singles
<1> QED BY <1>1, <1>3, <1>4

\* What one connection is to subscribe are pairs.
LEMMA FlatIsPairs ==
  ASSUME params \in Seq(Parts), limit \in Nat \ {0}, NEW i \in Nat
  PROVE  Flat(i) \subseteq Pairs
<1>1. Len(params) \in Nat /\ i * limit \in Nat /\ (i + 1) * limit \in Nat
  OBVIOUS
<1>2. Min({(i + 1) * limit, Len(params)}) <= Len(params)
  <2>1. Min({(i + 1) * limit, Len(params)}) =
          IF (i + 1) * limit < Len(params) THEN (i + 1) * limit ELSE Len(params)
    BY <1>1, SmallerOf
  <2> QED BY <1>1, <2>1
<1>3. PICK a \in Nat, b \in Nat :
        /\ a = i * limit /\ b = Min({(i + 1) * limit, Len(params)}) /\ b <= Len(params)
  <2>1. Min({(i + 1) * limit, Len(params)}) \in Nat
    BY <1>1, SmallerOf
  <2> QED BY <1>1, <1>2, <2>1
<1>4. \A id \in (a + 1) .. b : id \in 1 .. Len(params)
  BY <1>1, <1>3
<1>5. \A id \in (a + 1) .. b : params[id] \in Parts
  BY <1>4
<1> QED BY <1>3, <1>5 DEF Flat, Parts

\* What two connections are to subscribe comes from different entries.
LEMMA FlatDisjoint ==
  ASSUME params \in Seq(Parts), limit \in Nat \ {0}, NEW i \in Nat, NEW j \in Nat, i < j,
         \A g, h \in DOMAIN params : g # h => params[g] \cap params[h] = {}
  PROVE  Flat(i) \cap Flat(j) = {}
<1>1. /\ Len(params) \in Nat /\ i * limit \in Nat /\ (i + 1) * limit \in Nat
      /\ j * limit \in Nat /\ (j + 1) * limit \in Nat
  OBVIOUS
<1>2. \A m \in Nat : Min({m, Len(params)}) = IF m < Len(params) THEN m ELSE Len(params)
  BY <1>1, SmallerOf
<1>3. PICK a \in Nat, b \in Nat : /\ a = i * limit /\ b = Min({(i + 1) * limit, Len(params)})
                                  /\ b <= Len(params) /\ b <= (i + 1) * limit
  <2>1. PICK m \in Nat : m = (i + 1) * limit
    BY <1>1
  <2>2. PICK b \in Nat : b = Min({m, Len(params)}) /\ b <= Len(params) /\ b <= m
    BY <1>1, <1>2
  <2> QED BY <1>1, <2>1, <2>2
<1>4. PICK c \in Nat, d \in Nat : /\ c = j * limit /\ d = Min({(j + 1) * limit, Len(params)})
                                  /\ d <= Len(params)
  <2>1. PICK m \in Nat : m = (j + 1) * limit
    BY <1>1
  <2>2. PICK d \in Nat : d = Min({m, Len(params)}) /\ d <= Len(params)
    BY <1>1, <1>2
  <2> QED BY <1>1, <2>1, <2>2
<1>5. b <= c
  <2>1. (i + 1) * limit <= j * limit
    BY <1>1
  <2> QED BY <1>1, <1>3, <1>4, <2>1
<1>6. Flat(i) = UNION {params[id] : id \in (a + 1) .. b} /\ Flat(j) = UNION {params[id] : id \in (c + 1) .. d}
  BY <1>3, <1>4 DEF Flat
<1>7. ASSUME NEW g \in (a + 1) .. b, NEW h \in (c + 1) .. d PROVE params[g] \cap params[h] = {}
  <2>1. g \in 1 .. Len(params) /\ h \in 1 .. Len(params) /\ g # h
    BY <1>1, <1>3, <1>4, <1>5
  <2> QED BY <2>1
<1> QED BY <1>6, <1>7

\* No pair is for two clients.
LEMMA CarriesDisjoint ==
  ASSUME params \in Seq(Parts), limit \in Nat \ {0}, NEW c \in Nat \ {0}, NEW d \in Nat \ {0}, c # d,
         \A g, h \in DOMAIN params : g # h => params[g] \cap params[h] = {}
  PROVE  Carries(c) \cap Carries(d) = {}
<1>1. CASE ex \in {"kucoin", "hyperliquid"}
  <2>0. PICK i \in Nat : i = c - 1
    OBVIOUS
  <2>1. PICK j \in Nat : i = c - 1 /\ j = d - 1 /\ i # j
    BY <2>0
  <2>2. Flat(i) \cap Flat(j) = {}
    <3>1. CASE i < j
      BY <3>1, FlatDisjoint
    <3>2. CASE j < i
      BY <3>2, FlatDisjoint
    <3> QED BY <2>1, <3>1, <3>2
  <2> QED BY <1>1, <2>1, <2>2 DEF Carries
<1>2. CASE ex \notin {"kucoin", "hyperliquid"}
  BY <1>2 DEF Carries
<1> QED BY <1>1, <1>2

-----------------------------------------------------------------------------
(* Types, one variable at a time                                           *)

LEMMA Typed ==
  ASSUME Sound
  PROVE  /\ limit \in Nat \ {0} /\ known \in 0 .. NumPairs /\ NumPairs \in Nat /\ MaxEvents \in Nat
         /\ MaxTicks \in Nat
         /\ params \in Seq(Parts) /\ conns \in Seq(Conn) /\ timers \in [Clients -> Nat]
         /\ market \in [Pairs -> Seq(Nat)] /\ got \in [Pairs -> 0 .. MaxTicks]
         /\ \A p \in Pairs : market[p] \in Seq(Nat) /\ Len(market[p]) \in 0 .. MaxTicks
         /\ books \in [Pairs -> Book] /\ clock \in Times /\ clock \in Nat
         /\ subscribes \in Nat /\ unsubscribes \in Nat /\ since \in Nat /\ drops \in Nat /\ refreshes \in Nat
         /\ handler \in BOOLEAN /\ freed \in BOOLEAN /\ stepped \in BOOLEAN
         /\ Len(params) \in Nat /\ Len(conns) \in Nat
         /\ DOMAIN params = 1 .. Len(params) /\ DOMAIN conns = 1 .. Len(conns)
<1>1. limit \in Nat \ {0} /\ clock \in Times /\ clock \in Nat
  BY MarketAssumption DEF Sound, TypeOK
<1>2. NumPairs \in Nat /\ MaxEvents \in Nat /\ MaxTicks \in Nat
  BY MarketAssumption
<1>3. params \in Seq(Parts) /\ conns \in Seq(Conn)
  BY DEF Sound, TypeOK, Parts
<1>4. /\ market \in [Pairs -> Seq(Nat)] /\ got \in [Pairs -> 0 .. MaxTicks]
      /\ books \in [Pairs -> Book] /\ timers \in [Clients -> Nat] /\ known \in 0 .. NumPairs
  BY DEF Sound, TypeOK, Book
<1>5. /\ subscribes \in Nat /\ unsubscribes \in Nat /\ since \in Nat /\ drops \in Nat /\ refreshes \in Nat
  BY DEF Sound, Counted
<1>6. handler \in BOOLEAN /\ freed \in BOOLEAN /\ stepped \in BOOLEAN
  BY DEF Sound, TypeOK
<1>7. /\ Len(params) \in Nat /\ Len(conns) \in Nat
      /\ DOMAIN params = 1 .. Len(params) /\ DOMAIN conns = 1 .. Len(conns)
  BY <1>3
<1>8. \A p \in Pairs : market[p] \in Seq(Nat) /\ Len(market[p]) \in 0 .. MaxTicks
  <2> TAKE p \in Pairs
  <2>1. market[p] \in Seq(Nat)
    BY <1>4
  <2>2. Len(market[p]) \in Nat /\ Len(market[p]) <= MaxTicks
    BY <2>1 DEF Sound, TypeOK
  <2> QED BY <1>2, <2>1, <2>2
<1> QED BY <1>1, <1>2, <1>3, <1>4, <1>5, <1>6, <1>7, <1>8

\* What client c is to carry are pairs.
LEMMA CarriesPairs ==
  ASSUME Sound, NEW c \in Nat \ {0}
  PROVE  Carries(c) \subseteq Pairs
<1>1. params \in Seq(Parts) /\ limit \in Nat \ {0} /\ c - 1 \in Nat
  BY Typed
<1>2. Flat(c - 1) \subseteq Pairs
  BY <1>1, FlatIsPairs
<1>3. c \in DOMAIN params => params[c] \subseteq Pairs
  BY <1>1 DEF Parts
<1> QED BY <1>2, <1>3 DEF Carries

\* Dates are numbers.
LEMMA MilliIs ==
  ASSUME Sound, NEW p \in Pairs, NEW k \in 0 .. Len(market[p])
  PROVE  Milli(p, k) \in Nat
<1>1. market[p] \in Seq(Nat) /\ Len(market[p]) \in Nat
  BY Typed
<1>2. k # 0 => market[p][k] \in Nat
  BY <1>1
<1> QED BY <1>2 DEF Milli

\* What is said of books and clients stays so while they stay the same.
LEMMA Untouched ==
  ASSUME Sound, UNCHANGED <<ex, limit, params, conns, subscribes, market, books, got, clock, stepped>>
  PROVE  Behind' /\ Rising' /\ Dated' /\ OneFeed'
<1>1. Behind'
  BY DEF Sound, Behind
<1>2. Rising' /\ Dated'
  BY DEF Sound, Rising, Dated, Milli
<1>3. OneFeed'
  <2>1. Steady' = Steady
    BY DEF Steady
  <2>2. \A c : Carries(c)' = Carries(c)
    BY DEF Carries, Flat
  <2> QED BY <2>1, <2>2 DEF Sound, OneFeed
<1> QED BY <1>1, <1>2, <1>3

-----------------------------------------------------------------------------
(* Undefined behaviour                                                     *)

LEMMA Harms ==
  ASSUME Sound, NEW how \in {"index", "freed"}, Harmed(how),
         how = "freed" => unsubscribes > 0,
         how = "index" => \/ ex \in {"phemex", "edgex"} /\ unsubscribes > 0
                          \/ ex = "toobit" /\ since > 1
  PROVE  Sound'
<1>1. /\ harm' = how
      /\ UNCHANGED <<ex, limit, known, refreshes, handler, params, conns, timers, freed, subscribes,
                     unsubscribes, since, wanted, skipped, market, books, got, clock, stepped, drops>>
  BY DEF Harmed, callVars, bookVars, tableVars
<1>2. TypeOK'
  BY <1>1 DEF Sound, TypeOK
<1>3. MemorySafe'
  BY <1>1 DEF MemorySafe
<1>4. Counted' /\ Indexed' /\ Filled'
  BY <1>1 DEF Sound, Counted, Indexed, Filled
<1>5. Behind' /\ Rising' /\ Dated' /\ OneFeed'
  BY <1>1, Untouched
<1> QED BY <1>2, <1>3, <1>4, <1>5 DEF Sound

-----------------------------------------------------------------------------
(* Clients come up, send what they are to subscribe, and break             *)

\* Clients keep their numbers; what was pushed to them stays as it is or is lost.
LEMMA Rewires ==
  ASSUME Sound, harm = "no",
         UNCHANGED <<ex, limit, known, refreshes, handler, params, freed, harm, subscribes,
                     unsubscribes, since, wanted, skipped, market, books, got, clock, stepped>>,
         conns' \in Seq(Conn), Len(conns') = Len(conns),
         \A c \in 1 .. Len(conns) :
           /\ conns'[c].idx = conns[c].idx
           /\ conns'[c].inbox = conns[c].inbox \/ conns'[c].inbox = <<>>
           /\ ~conns'[c].up => conns'[c].subs = {} /\ conns'[c].inbox = <<>>
           /\ subscribes < 2 => conns'[c].subs \subseteq Carries(c),
         timers' \in [Clients -> Nat],
         \A i \in Clients : timers'[i] > 0 =>
           timers[i] > 0 \/ \E c \in 1 .. Len(conns) : i = conns[c].idx,
         \/ drops' = drops
         \/ drops' = drops + 1 /\ subscribes + drops + refreshes < MaxEvents
  PROVE  Sound'
<1>1. /\ DOMAIN conns' = 1 .. Len(conns) /\ DOMAIN conns = 1 .. Len(conns)
      /\ DOMAIN params = 1 .. Len(params) /\ Len(conns) \in Nat /\ Len(params) \in Nat
  BY Typed
<1>2. /\ drops' \in Nat /\ subscribes + drops' + refreshes <= MaxEvents /\ drops' \in 0 .. MaxEvents
  <2>1. /\ drops \in Nat /\ subscribes \in Nat /\ refreshes \in Nat /\ MaxEvents \in Nat
        /\ subscribes + drops + refreshes <= MaxEvents
    BY Typed DEF Sound, Counted
  <2> QED BY <2>1
<1>3. TypeOK'
  <2>1. \A c \in DOMAIN conns' : ~conns'[c].up => conns'[c].subs = {} /\ conns'[c].inbox = <<>>
    BY <1>1
  <2>2. conns' \in Seq(Conn)
    OBVIOUS
  <2> QED BY <1>2, <2>1, <2>2 DEF Sound, TypeOK
<1>4. MemorySafe'
  BY DEF Sound, MemorySafe
<1>5. Counted'
  <2>1. conns = <<>> => conns' = <<>>
    BY <1>1
  <2> QED BY <1>2, <2>1 DEF Sound, Counted
<1>6. Indexed'
  <2>1. ASSUME ex = "aster" \/ (ex = "toobit" /\ since < 2) \/ ex \in {"phemex", "edgex"}
        PROVE  \A c \in DOMAIN conns' : conns'[c].idx < Len(params)
    BY <1>1, <2>1 DEF Sound, Indexed
  <2>2. ASSUME ex \in {"phemex", "edgex"}, unsubscribes = 0, NEW i \in Clients, timers'[i] > 0
        PROVE  i < Len(params)
    <3>1. CASE timers[i] > 0
      BY <2>2, <3>1 DEF Sound, Indexed
    <3>2. CASE \E c \in 1 .. Len(conns) : i = conns[c].idx
      BY <1>1, <2>2, <3>2 DEF Sound, Indexed
    <3> QED BY <2>2, <3>1, <3>2
  <2>3. ex \in {"phemex", "edgex"} => Len(params) <= Len(conns)
    BY DEF Sound, Indexed
  <2> QED BY <2>1, <2>2, <2>3 DEF Indexed
<1>7. Behind'
  <2>1. ASSUME NEW c \in DOMAIN conns', NEW i \in DOMAIN conns'[c].inbox
        PROVE  conns'[c].inbox[i].k <= Len(market[conns'[c].inbox[i].p])
    <3>1. conns'[c].inbox = conns[c].inbox
      BY <1>1, <2>1
    <3> QED BY <1>1, <2>1, <3>1 DEF Sound, Behind
  <2> QED BY <2>1 DEF Sound, Behind
<1>8. Rising' /\ Dated' /\ Filled'
  BY DEF Sound, Rising, Dated, Filled, Milli
<1>9. OneFeed'
  <2>0. Steady' = Steady /\ \A c : Carries(c)' = Carries(c)
    BY DEF Steady, Carries, Flat
  <2> SUFFICES ASSUME subscribes < 2
               PROVE  /\ subscribes = 0 => params = <<>> /\ conns' = <<>>
                      /\ \A i, j \in DOMAIN params : i # j => params[i] \cap params[j] = {}
                      /\ \A c \in DOMAIN conns' :
                           /\ conns'[c].idx = c - 1 /\ conns'[c].subs \subseteq Carries(c)
                           /\ \A i \in DOMAIN conns'[c].inbox :
                                LET push == conns'[c].inbox[i] IN
                                /\ push.p \in Carries(c) /\ got[push.p] < push.k
                                /\ \A j \in DOMAIN conns'[c].inbox :
                                     i < j /\ conns'[c].inbox[j].p = push.p =>
                                       push.k < conns'[c].inbox[j].k
                      /\ Steady => \A p \in Pairs : books[p].k = got[p]
    BY <2>0 DEF OneFeed
  <2>1. /\ subscribes = 0 => params = <<>> /\ conns = <<>>
        /\ \A i, j \in DOMAIN params : i # j => params[i] \cap params[j] = {}
        /\ Steady => \A p \in Pairs : books[p].k = got[p]
    BY DEF Sound, OneFeed
  <2>2. conns = <<>> => conns' = <<>>
    BY <1>1
  <2>3. ASSUME NEW c \in DOMAIN conns'
        PROVE  conns'[c].idx = c - 1 /\ conns'[c].subs \subseteq Carries(c)
    BY <1>1, <2>3 DEF Sound, OneFeed
  <2>4. ASSUME NEW c \in DOMAIN conns', NEW i \in DOMAIN conns'[c].inbox
        PROVE  LET push == conns'[c].inbox[i] IN
               /\ push.p \in Carries(c) /\ got[push.p] < push.k
               /\ \A j \in DOMAIN conns'[c].inbox :
                    i < j /\ conns'[c].inbox[j].p = push.p => push.k < conns'[c].inbox[j].k
    <3>1. conns'[c].inbox = conns[c].inbox
      BY <1>1, <2>4
    <3> QED BY <1>1, <2>4, <3>1 DEF Sound, OneFeed
  <2> QED BY <2>1, <2>2, <2>3, <2>4
<1> QED BY <1>3, <1>4, <1>5, <1>6, <1>7, <1>8, <1>9 DEF Sound

LEMMA OneReplaced ==
  ASSUME NEW cs \in Seq(Conn), NEW c \in 1 .. Len(cs), NEW n \in Conn, NEW ds, ds = [cs EXCEPT ![c] = n]
  PROVE  /\ ds \in Seq(Conn) /\ Len(ds) = Len(cs)
         /\ \A d \in 1 .. Len(cs) : ds[d] = IF d = c THEN n ELSE cs[d]
BY ExceptSeq

\* Sending changes one client's subscriptions, if it is there and up.
LEMMA SentIs ==
  ASSUME NEW cs \in Seq(Conn), NEW i \in Nat, NEW P \in SUBSET Pairs,
         \A c \in 1 .. Len(cs) : ~cs[c].up => cs[c].subs = {} /\ cs[c].inbox = <<>>
  PROVE  /\ Sent(cs, i, P) \in Seq(Conn) /\ Len(Sent(cs, i, P)) = Len(cs)
         /\ \A c \in 1 .. Len(cs) :
              /\ Sent(cs, i, P)[c].idx = cs[c].idx /\ Sent(cs, i, P)[c].inbox = cs[c].inbox
              /\ Sent(cs, i, P)[c].subs \subseteq IF c = i + 1 THEN cs[c].subs \cup P ELSE cs[c].subs
              /\ ~Sent(cs, i, P)[c].up => Sent(cs, i, P)[c].subs = {} /\ Sent(cs, i, P)[c].inbox = <<>>
<1>0. DOMAIN cs = 1 .. Len(cs) /\ Len(cs) \in Nat
  OBVIOUS
<1>1. CASE Sent(cs, i, P) = cs
  BY <1>1
<1>2. ASSUME NEW k \in 1 .. Len(cs), k = i + 1, NEW n \in Conn, Sent(cs, i, P) = [cs EXCEPT ![k] = n],
             n.idx = cs[k].idx, n.inbox = cs[k].inbox, n.up = cs[k].up,
             n.subs = cs[k].subs \/ (n.up /\ n.subs = cs[k].subs \cup P)
      PROVE  /\ Sent(cs, i, P) \in Seq(Conn) /\ Len(Sent(cs, i, P)) = Len(cs)
             /\ \A c \in 1 .. Len(cs) :
                  /\ Sent(cs, i, P)[c].idx = cs[c].idx /\ Sent(cs, i, P)[c].inbox = cs[c].inbox
                  /\ Sent(cs, i, P)[c].subs \subseteq IF c = i + 1 THEN cs[c].subs \cup P ELSE cs[c].subs
                  /\ ~Sent(cs, i, P)[c].up => Sent(cs, i, P)[c].subs = {} /\ Sent(cs, i, P)[c].inbox = <<>>
  <2>1. PICK ds : ds = Sent(cs, i, P)
    OBVIOUS
  <2>2. /\ ds \in Seq(Conn) /\ Len(ds) = Len(cs)
        /\ \A c \in 1 .. Len(cs) : ds[c] = IF c = k THEN n ELSE cs[c]
    BY <1>2, <2>1, OneReplaced
  <2>3. ASSUME NEW c \in 1 .. Len(cs)
        PROVE  /\ ds[c].idx = cs[c].idx /\ ds[c].inbox = cs[c].inbox
               /\ ds[c].subs \subseteq IF c = i + 1 THEN cs[c].subs \cup P ELSE cs[c].subs
               /\ ~ds[c].up => ds[c].subs = {} /\ ds[c].inbox = <<>>
    <3>1. CASE c = k
      BY <1>2, <2>2, <3>1
    <3>2. CASE c # k
      BY <1>2, <2>2, <3>2
    <3> QED BY <3>1, <3>2
  <2> QED BY <2>1, <2>2, <2>3
<1>3. CASE P # {} /\ i + 1 \in 1 .. Len(cs) /\ cs[i + 1].up
  <2>1. PICK k \in 1 .. Len(cs) : k = i + 1
    BY <1>3
  <2>2. cs[k] \in Conn
    OBVIOUS
  <2>3. PICK T \in SUBSET Pairs : T = cs[k].subs \cup P
    BY <2>2 DEF Conn
  <2>4. PICK n : n = [cs[k] EXCEPT !.subs = T]
    OBVIOUS
  <2>5. n \in Conn /\ n.idx = cs[k].idx /\ n.inbox = cs[k].inbox /\ n.subs = T /\ n.up = cs[k].up
    <3> HIDE DEF Clients, Pairs
    <3> QED BY <2>2, <2>4 DEF Conn
  <2>6. Sent(cs, i, P) = [cs EXCEPT ![k].subs = @ \cup P]
    BY <1>3, <2>1 DEF Sent
  <2>7. Sent(cs, i, P) = [cs EXCEPT ![k] = n]
    BY <1>0, <2>1, <2>3, <2>4, <2>6
  <2> QED BY <1>2, <1>3, <2>1, <2>3, <2>5, <2>7
<1>4. CASE P # {} /\ i + 1 \in 1 .. Len(cs) /\ ~cs[i + 1].up
  <2>1. PICK k \in 1 .. Len(cs) : k = i + 1
    BY <1>4
  <2>2. cs[k] \in Conn
    OBVIOUS
  <2>3. PICK f \in BOOLEAN : f = TRUE
    OBVIOUS
  <2>4. PICK n : n = [cs[k] EXCEPT !.doomed = f]
    OBVIOUS
  <2>5. n \in Conn /\ n.idx = cs[k].idx /\ n.inbox = cs[k].inbox /\ n.subs = cs[k].subs /\ n.up = cs[k].up
    <3> HIDE DEF Clients, Pairs
    <3> QED BY <2>2, <2>4 DEF Conn
  <2>6. Sent(cs, i, P) = [cs EXCEPT ![k].doomed = TRUE]
    BY <1>4, <2>1 DEF Sent
  <2>7. Sent(cs, i, P) = [cs EXCEPT ![k] = n]
    BY <1>0, <2>1, <2>3, <2>4, <2>6
  <2> QED BY <1>2, <2>1, <2>5, <2>7
<1>5. CASE i + 1 \notin 1 .. Len(cs)
  <2>1. [cs EXCEPT ![i + 1].subs = @ \cup P] = cs /\ [cs EXCEPT ![i + 1].doomed = TRUE] = cs
    BY <1>0, <1>5
  <2> QED BY <1>1, <2>1 DEF Sent
<1>6. CASE P = {}
  BY <1>1, <1>6 DEF Sent
<1> QED BY <1>3, <1>4, <1>5, <1>6

\* The clients of the next state, of which one comes up.
LEMMA ComesUp ==
  ASSUME Sound, NEW c \in DOMAIN conns
  PROVE  LET cs == Upped(c) IN
         /\ cs \in Seq(Conn) /\ Len(cs) = Len(conns)
         /\ \A d \in 1 .. Len(conns) :
              /\ cs[d].idx = conns[d].idx /\ cs[d].inbox = conns[d].inbox /\ cs[d].subs = conns[d].subs
              /\ ~cs[d].up => cs[d].subs = {} /\ cs[d].inbox = <<>>
<1> DEFINE cs == Upped(c)
<1>1. /\ conns \in Seq(Conn) /\ DOMAIN conns = 1 .. Len(conns) /\ Len(conns) \in Nat
      /\ conns[c] \in Conn
  BY Typed
<1>21. PICK life \in {"new", "used", "pinged", "dead"} :
         life = IF conns[c].life = "new" THEN "used" ELSE conns[c].life
  BY <1>1 DEF Conn
<1>2. PICK n : n = [conns[c] EXCEPT !.life = life, !.up = TRUE]
  OBVIOUS
<1>3. /\ n \in Conn /\ n.up /\ n.idx = conns[c].idx /\ n.inbox = conns[c].inbox
      /\ n.subs = conns[c].subs
  <2> HIDE DEF Clients, Pairs
  <2> QED BY <1>1, <1>2 DEF Conn
<1>4. cs = [conns EXCEPT ![c] = n]
  BY <1>1, <1>2, <1>21 DEF Upped
<1> HIDE DEF cs
<1>5. /\ cs \in Seq(Conn) /\ Len(cs) = Len(conns)
      /\ \A d \in 1 .. Len(conns) : cs[d] = IF d = c THEN n ELSE conns[d]
  BY <1>1, <1>3, <1>4, OneReplaced
<1>6. \A d \in 1 .. Len(conns) : ~conns[d].up => conns[d].subs = {} /\ conns[d].inbox = <<>>
  BY <1>1 DEF Sound, TypeOK
<1>7. \A d \in 1 .. Len(conns) :
        /\ cs[d].idx = conns[d].idx /\ cs[d].inbox = conns[d].inbox /\ cs[d].subs = conns[d].subs
        /\ ~cs[d].up => cs[d].subs = {} /\ cs[d].inbox = <<>>
  BY <1>3, <1>5, <1>6
<1> QED BY <1>5, <1>7 DEF cs

LEMMA ConnectedSendsSound ==
  ASSUME Sound, harm = "no", NEW c \in DOMAIN conns, NEW P \in SUBSET Pairs,
         ConnectedSends(c, P), P \subseteq Carries(conns[c].idx + 1)
  PROVE  Sound'
<1>0. PICK cs : cs = Upped(c)
  OBVIOUS
<1>1. /\ conns' = Sent(cs, conns[c].idx, P)
      /\ UNCHANGED <<ex, limit, known, refreshes, handler, params, freed, harm, subscribes, unsubscribes,
                     since, wanted, skipped, market, books, got, clock, stepped, timers, drops>>
  BY <1>0 DEF ConnectedSends, callVars, bookVars, tableVars
<1>2. /\ cs \in Seq(Conn) /\ Len(cs) = Len(conns)
      /\ \A d \in 1 .. Len(conns) :
           /\ cs[d].idx = conns[d].idx /\ cs[d].inbox = conns[d].inbox /\ cs[d].subs = conns[d].subs
           /\ ~cs[d].up => cs[d].subs = {} /\ cs[d].inbox = <<>>
  BY <1>0, ComesUp
<1>3. conns[c].idx \in Nat
  <2>1. conns[c] \in Conn /\ NumPairs \in Nat /\ MaxEvents \in Nat
    BY Typed
  <2> QED BY <2>1 DEF Conn, Clients
<1>4. /\ conns' \in Seq(Conn) /\ Len(conns') = Len(conns)
      /\ \A d \in 1 .. Len(conns) :
           /\ conns'[d].idx = conns[d].idx /\ conns'[d].inbox = conns[d].inbox
           /\ ~conns'[d].up => conns'[d].subs = {} /\ conns'[d].inbox = <<>>
           /\ conns'[d].subs \subseteq
                IF d = conns[c].idx + 1 THEN conns[d].subs \cup P ELSE conns[d].subs
  <2>1. PICK i \in Nat : i = conns[c].idx /\ conns' = Sent(cs, i, P)
    BY <1>1, <1>3
  <2>2. \A d \in 1 .. Len(cs) : ~cs[d].up => cs[d].subs = {} /\ cs[d].inbox = <<>>
    BY <1>2
  <2>3. /\ conns' \in Seq(Conn) /\ Len(conns') = Len(cs)
        /\ \A d \in 1 .. Len(cs) :
             /\ conns'[d].idx = cs[d].idx /\ conns'[d].inbox = cs[d].inbox
             /\ conns'[d].subs \subseteq IF d = i + 1 THEN cs[d].subs \cup P ELSE cs[d].subs
             /\ ~conns'[d].up => conns'[d].subs = {} /\ conns'[d].inbox = <<>>
    BY <1>2, <2>1, <2>2, SentIs
  <2> QED BY <1>2, <2>1, <2>3
<1>5. timers' \in [Clients -> Nat]
  BY <1>1, Typed
<1>6. ASSUME subscribes < 2, NEW d \in 1 .. Len(conns) PROVE conns'[d].subs \subseteq Carries(d)
  <2>1. conns[d].subs \subseteq Carries(d)
    BY <1>6, Typed DEF Sound, OneFeed
  <2> QED BY <1>4, <2>1
<1> QED BY <1>1, <1>4, <1>5, <1>6, Rewires

LEMMA ConnectedDelaysSound ==
  ASSUME Sound, harm = "no", NEW c \in DOMAIN conns, ConnectedDelays(c)
  PROVE  Sound'
<1>1. /\ conns' = Upped(c)
      /\ timers' = [timers EXCEPT ![conns[c].idx] = @ + 1]
      /\ UNCHANGED <<ex, limit, known, refreshes, handler, params, freed, harm, subscribes, unsubscribes,
                     since, wanted, skipped, market, books, got, clock, stepped, drops>>
  BY DEF ConnectedDelays, callVars, bookVars, tableVars
<1>2. /\ conns' \in Seq(Conn) /\ Len(conns') = Len(conns)
      /\ \A d \in 1 .. Len(conns) :
           /\ conns'[d].idx = conns[d].idx /\ conns'[d].inbox = conns[d].inbox
           /\ conns'[d].subs = conns[d].subs
           /\ ~conns'[d].up => conns'[d].subs = {} /\ conns'[d].inbox = <<>>
  BY <1>1, ComesUp
<1>3. /\ conns[c].idx \in Clients /\ c \in 1 .. Len(conns) /\ timers \in [Clients -> Nat]
      /\ DOMAIN conns = 1 .. Len(conns)
  <2>1. conns \in Seq(Conn) /\ DOMAIN conns = 1 .. Len(conns) /\ timers \in [Clients -> Nat]
    BY Typed
  <2>2. conns[c] \in Conn
    BY <2>1
  <2> HIDE DEF Clients
  <2>3. conns[c].idx \in Clients
    BY <2>2 DEF Conn
  <2> QED BY <2>1, <2>3
<1>4. /\ timers' \in [Clients -> Nat]
      /\ \A i \in Clients : timers'[i] > 0 => timers[i] > 0 \/ i = conns[c].idx
  BY <1>1, <1>3
<1>5. subscribes < 2 => \A d \in 1 .. Len(conns) : conns'[d].subs \subseteq Carries(d)
  BY <1>2, <1>3 DEF Sound, OneFeed
<1> QED BY <1>1, <1>2, <1>3, <1>4, <1>5, Rewires

\* The timer's subscriptions go to the client of its number.
LEMMA TimerSendsSound ==
  ASSUME Sound, harm = "no", NEW i \in Clients, NEW P \in SUBSET Pairs, TimerSends(i, P),
         P \subseteq Carries(i + 1)
  PROVE  Sound'
<1>1. /\ timers[i] > 0 /\ timers' = [timers EXCEPT ![i] = @ - 1]
      /\ conns' = Sent(conns, i, P)
      /\ UNCHANGED <<ex, limit, known, refreshes, handler, params, freed, harm, subscribes, unsubscribes,
                     since, wanted, skipped, market, books, got, clock, stepped, drops>>
  BY DEF TimerSends, callVars, bookVars, tableVars
<1>2. /\ i \in Nat /\ conns \in Seq(Conn) /\ DOMAIN conns = 1 .. Len(conns)
      /\ timers \in [Clients -> Nat]
  <2>1. NumPairs \in Nat /\ MaxEvents \in Nat
    BY Typed
  <2> QED BY <2>1, Typed DEF Clients
<1>3. \A c \in 1 .. Len(conns) : ~conns[c].up => conns[c].subs = {} /\ conns[c].inbox = <<>>
  BY <1>2 DEF Sound, TypeOK
<1>4. /\ conns' \in Seq(Conn) /\ Len(conns') = Len(conns)
      /\ \A d \in 1 .. Len(conns) :
           /\ conns'[d].idx = conns[d].idx /\ conns'[d].inbox = conns[d].inbox
           /\ conns'[d].subs \subseteq IF d = i + 1 THEN conns[d].subs \cup P ELSE conns[d].subs
           /\ ~conns'[d].up => conns'[d].subs = {} /\ conns'[d].inbox = <<>>
  BY <1>1, <1>2, <1>3, SentIs
<1>5. /\ timers' \in [Clients -> Nat]
      /\ \A j \in Clients : timers'[j] > 0 => timers[j] > 0
  BY <1>1, <1>2
<1>6. ASSUME subscribes < 2, NEW d \in 1 .. Len(conns) PROVE conns'[d].subs \subseteq Carries(d)
  <2>1. conns[d].subs \subseteq Carries(d)
    BY <1>2, <1>6 DEF Sound, OneFeed
  <2> QED BY <2>1, <1>4
<1> QED BY <1>1, <1>4, <1>5, <1>6, Rewires

\* phemex and edgex: the numbers are right until unsubscribe_orderbook is called.
LEMMA TimerSendsGroupSound ==
  ASSUME Sound, harm = "no", ex \in {"phemex", "edgex"}, NEW i \in Clients, TimerSendsGroup(i)
  PROVE  Sound'
<1>1. /\ i \in Nat /\ params \in Seq(Parts) /\ Len(params) \in Nat /\ Len(conns) \in Nat
      /\ unsubscribes \in Nat
  <2>1. NumPairs \in Nat /\ MaxEvents \in Nat
    BY Typed
  <2> QED BY <2>1, Typed DEF Clients
<1>2. CASE i < Len(params) /\ i < Len(conns)
  <2>1. TimerSends(i, params[i + 1])
    BY <1>2 DEF TimerSendsGroup
  <2>2. i + 1 \in 1 .. Len(params)
    BY <1>1, <1>2
  <2>3. params[i + 1] \in SUBSET Pairs
    BY <1>1, <2>2 DEF Parts
  <2>4. params[i + 1] = Carries(i + 1)
    BY <1>1, <2>2 DEF Carries
  <2> QED BY <2>1, <2>3, <2>4, TimerSendsSound
<1>3. CASE ~(i < Len(params) /\ i < Len(conns))
  <2>1. timers[i] > 0 /\ Harmed("index")
    BY <1>3 DEF TimerSendsGroup
  <2>2. unsubscribes > 0
    <3>1. Len(params) <= Len(conns) /\ (unsubscribes = 0 => i < Len(params))
      BY <2>1 DEF Sound, Indexed
    <3> QED BY <1>1, <1>3, <3>1
  <2> QED BY <2>1, <2>2, Harms
<1> QED BY <1>2, <1>3

\* Another connection begins without subscriptions.
LEMMA RenewedIs ==
  ASSUME Sound, NEW c \in DOMAIN conns, NEW life \in {"new", "used", "pinged", "dead"}
  PROVE  LET cs == Renewed(c, life) IN
         /\ cs \in Seq(Conn) /\ Len(cs) = Len(conns)
         /\ \A d \in 1 .. Len(conns) :
              /\ cs[d].idx = conns[d].idx
              /\ cs[d].inbox = conns[d].inbox \/ cs[d].inbox = <<>>
              /\ ~cs[d].up => cs[d].subs = {} /\ cs[d].inbox = <<>>
              /\ subscribes < 2 => cs[d].subs \subseteq Carries(d)
<1>1. PICK cs : cs = Renewed(c, life)
  OBVIOUS
<1>2. /\ conns \in Seq(Conn) /\ DOMAIN conns = 1 .. Len(conns) /\ Len(conns) \in Nat
      /\ conns[c] \in Conn
  BY Typed
<1>3. PICK n : n = [conns[c] EXCEPT !.up = FALSE, !.life = life, !.doomed = FALSE,
                                    !.subs = {}, !.inbox = <<>>]
  OBVIOUS
<1>4. n \in Conn /\ n.idx = conns[c].idx /\ ~n.up /\ n.subs = {} /\ n.inbox = <<>>
  <2>1. PICK e \in Seq(Push) : e = <<>>
    <3>1. <<>> \in Seq(Push)
      BY EmptySeq
    <3> QED BY <3>1
  <2>2. PICK T \in SUBSET Pairs : T = {}
    OBVIOUS
  <2>3. n = [conns[c] EXCEPT !.up = FALSE, !.life = life, !.doomed = FALSE, !.subs = T, !.inbox = e]
    BY <1>3, <2>1, <2>2
  <2>4. n \in Conn /\ n.idx = conns[c].idx /\ ~n.up /\ n.subs = T /\ n.inbox = e
    <3> HIDE DEF Clients, Pairs
    <3> QED BY <1>2, <2>3 DEF Conn
  <2> QED BY <2>1, <2>2, <2>4
<1>5. cs = [conns EXCEPT ![c] = n]
  BY <1>1, <1>2, <1>3 DEF Renewed
<1>6. /\ cs \in Seq(Conn) /\ Len(cs) = Len(conns)
      /\ \A d \in 1 .. Len(conns) : cs[d] = IF d = c THEN n ELSE conns[d]
  BY <1>2, <1>4, <1>5, OneReplaced
<1>7. \A d \in 1 .. Len(conns) :
        /\ ~conns[d].up => conns[d].subs = {} /\ conns[d].inbox = <<>>
        /\ subscribes < 2 => conns[d].subs \subseteq Carries(d)
  BY <1>2 DEF Sound, TypeOK, OneFeed
<1>8. \A d \in 1 .. Len(conns) :
        /\ cs[d].idx = conns[d].idx
        /\ cs[d].inbox = conns[d].inbox \/ cs[d].inbox = <<>>
        /\ ~cs[d].up => cs[d].subs = {} /\ cs[d].inbox = <<>>
        /\ subscribes < 2 => cs[d].subs \subseteq Carries(d)
  BY <1>4, <1>6, <1>7
<1> QED BY <1>1, <1>6, <1>8

LEMMA DropSound ==
  ASSUME Sound, harm = "no", NEW c \in DOMAIN conns, Drop(c) \/ Reconnects(c)
  PROVE  Sound'
<1>1. conns[c] \in Conn /\ timers \in [Clients -> Nat]
  BY Typed
<1>2. PICK life \in {"new", "used", "pinged", "dead"} : conns' = Renewed(c, life)
  <2>1. conns[c].life \in {"new", "used", "pinged", "dead"}
    BY <1>1 DEF Conn
  <2>2. CASE Drop(c)
    BY <2>1, <2>2 DEF Drop
  <2>3. CASE Reconnects(c)
    BY <2>1, <2>3 DEF Reconnects
  <2> QED BY <2>2, <2>3
<1>3. /\ \/ drops' = drops
         \/ drops' = drops + 1 /\ subscribes + drops + refreshes < MaxEvents
      /\ UNCHANGED <<ex, limit, known, refreshes, handler, params, freed, harm, subscribes, unsubscribes,
                     since, wanted, skipped, market, books, got, clock, stepped, timers>>
  BY DEF Drop, Reconnects, MoreEvents, callVars, bookVars, tableVars
<1>4. /\ conns' \in Seq(Conn) /\ Len(conns') = Len(conns)
      /\ \A d \in 1 .. Len(conns) :
           /\ conns'[d].idx = conns[d].idx
           /\ conns'[d].inbox = conns[d].inbox \/ conns'[d].inbox = <<>>
           /\ ~conns'[d].up => conns'[d].subs = {} /\ conns'[d].inbox = <<>>
           /\ subscribes < 2 => conns'[d].subs \subseteq Carries(d)
  BY <1>2, RenewedIs
<1>5. timers' \in [Clients -> Nat] /\ \A i \in Clients : timers'[i] > 0 => timers[i] > 0
  BY <1>1, <1>3
<1> QED BY <1>3, <1>4, <1>5, Rewires

\* A failed ping or lookup changes what will become of the client only.
LEMMA FailsSound ==
  ASSUME Sound, harm = "no", NEW c \in DOMAIN conns, PingFails(c) \/ LookupFails(c)
  PROVE  Sound'
<1>1. /\ conns \in Seq(Conn) /\ DOMAIN conns = 1 .. Len(conns) /\ Len(conns) \in Nat
      /\ conns[c] \in Conn /\ timers \in [Clients -> Nat]
  BY Typed
<1>2. PICK life \in {"new", "used", "pinged", "dead"}, f \in BOOLEAN :
        conns' = [conns EXCEPT ![c] = [@ EXCEPT !.doomed = f, !.life = life]]
  <2>1. CASE PingFails(c)
    BY <2>1 DEF PingFails
  <2>2. CASE LookupFails(c)
    <3>1. PICK f \in BOOLEAN : f = conns[c].doomed
      BY <1>1 DEF Conn
    <3>2. [conns[c] EXCEPT !.life = "dead"] = [conns[c] EXCEPT !.doomed = f, !.life = "dead"]
      <4> HIDE DEF Clients, Pairs
      <4> QED BY <1>1, <3>1 DEF Conn
    <3>3. conns' = [conns EXCEPT ![c] = [conns[c] EXCEPT !.life = "dead"]]
      BY <1>1, <2>2 DEF LookupFails
    <3> QED BY <1>1, <3>2, <3>3
  <2> QED BY <2>1, <2>2
<1>3. /\ \/ drops' = drops
         \/ drops' = drops + 1 /\ subscribes + drops + refreshes < MaxEvents
      /\ UNCHANGED <<ex, limit, known, refreshes, handler, params, freed, harm, subscribes, unsubscribes,
                     since, wanted, skipped, market, books, got, clock, stepped, timers>>
  BY DEF PingFails, LookupFails, MoreEvents, callVars, bookVars, tableVars
<1>4. PICK n : n = [conns[c] EXCEPT !.doomed = f, !.life = life]
  OBVIOUS
<1>5. /\ n \in Conn /\ n.idx = conns[c].idx /\ n.up = conns[c].up /\ n.subs = conns[c].subs
      /\ n.inbox = conns[c].inbox
  <2> HIDE DEF Clients, Pairs
  <2> QED BY <1>1, <1>4 DEF Conn
<1>6. /\ conns' \in Seq(Conn) /\ Len(conns') = Len(conns)
      /\ \A d \in 1 .. Len(conns) : conns'[d] = IF d = c THEN n ELSE conns[d]
  <2>1. conns' = [conns EXCEPT ![c] = n]
    BY <1>1, <1>2, <1>4
  <2> QED BY <1>1, <1>5, <2>1, OneReplaced
<1>7. \A d \in 1 .. Len(conns) :
        /\ ~conns[d].up => conns[d].subs = {} /\ conns[d].inbox = <<>>
        /\ subscribes < 2 => conns[d].subs \subseteq Carries(d)
  BY <1>1 DEF Sound, TypeOK, OneFeed
<1>8. \A d \in 1 .. Len(conns) :
        /\ conns'[d].idx = conns[d].idx /\ conns'[d].inbox = conns[d].inbox
        /\ ~conns'[d].up => conns'[d].subs = {} /\ conns'[d].inbox = <<>>
        /\ subscribes < 2 => conns'[d].subs \subseteq Carries(d)
  BY <1>5, <1>6, <1>7
<1>9. timers' \in [Clients -> Nat] /\ \A i \in Clients : timers'[i] > 0 => timers[i] > 0
  BY <1>1, <1>3
<1> QED BY <1>3, <1>6, <1>8, <1>9, Rewires

-----------------------------------------------------------------------------
(* subscribe_orderbook and unsubscribe_orderbook                           *)

\* Clients are opened, the first of which has number 0.
LEMMA Opens ==
  ASSUME Sound, harm = "no", NEW n \in Requests, NEW newParams \in Seq(Parts), NEW clients \in Nat,
         Subscribe(n, newParams, clients),
         Len(newParams) <= Len(params) + NumPairs,
         clients <= Len(params) + NumPairs + 1,
         ex \in {"toobit", "aster", "phemex", "edgex"} => clients = Len(newParams),
         ex \in {"aster", "phemex", "edgex"} => Len(params) <= Len(newParams),
         subscribes = 0 =>
           \A i, j \in 1 .. Len(newParams) : i # j => newParams[i] \cap newParams[j] = {}
  PROVE  Sound'
<1> DEFINE new == [i \in 1 .. clients |-> [idx |-> i - 1, up |-> FALSE, life |-> "new", doomed |-> FALSE,
                                            subs |-> {}, inbox |-> <<>>]]
<1>1. /\ subscribes + drops + refreshes < MaxEvents
      /\ subscribes' = subscribes + 1 /\ since' = since + 1
      /\ wanted' = wanted \cup 1 .. Asked(n)
      /\ handler' = TRUE /\ params' = newParams /\ conns' = conns \o new
      /\ UNCHANGED <<ex, limit, known, refreshes, timers, freed, harm, unsubscribes, market, books,
                     got, clock, stepped, drops>>
  BY DEF Subscribe, MoreEvents, bookVars, tableVars
<1>2. /\ subscribes \in Nat /\ unsubscribes \in Nat /\ since \in Nat /\ drops \in Nat /\ refreshes \in Nat
      /\ NumPairs \in Nat /\ MaxEvents \in Nat /\ Len(params) \in Nat /\ Len(conns) \in Nat
      /\ conns \in Seq(Conn) /\ DOMAIN conns = 1 .. Len(conns) /\ Len(newParams) \in Nat
      /\ known \in 0 .. NumPairs /\ timers \in [Clients -> Nat]
  BY Typed
<1>3. Len(params) <= subscribes * NumPairs /\ unsubscribes <= subscribes /\ since <= subscribes
  BY DEF Sound, Counted
<1>4. Len(newParams) <= subscribes' * NumPairs
  <2>1. subscribes' * NumPairs = subscribes * NumPairs + NumPairs
    BY <1>1, <1>2
  <2>2. subscribes * NumPairs \in Nat
    BY <1>2
  <2> QED BY <1>2, <1>3, <2>1, <2>2
<1>5. \A i \in 1 .. clients : i - 1 \in Clients
  <2>1. subscribes + 1 <= MaxEvents
    BY <1>1, <1>2
  <2>2. (subscribes + 1) * NumPairs <= MaxEvents * NumPairs
    BY <1>2, <2>1
  <2>3. (subscribes + 1) * NumPairs = subscribes * NumPairs + NumPairs
    BY <1>2
  <2>4. clients - 1 <= MaxEvents * NumPairs
    <3>1. PICK a \in Nat, b \in Nat : a = subscribes * NumPairs /\ b = MaxEvents * NumPairs
      BY <1>2
    <3>2. Len(params) <= a /\ a + NumPairs <= b
      BY <1>3, <2>2, <2>3, <3>1
    <3>3. clients - 1 <= b
      BY <1>2, <3>2
    <3> QED BY <3>1, <3>3
  <2>5. MaxEvents * NumPairs \in Nat
    BY <1>2
  <2> QED BY <2>4, <2>5 DEF Clients
<1>6. /\ new \in Seq(Conn) /\ Len(new) = clients
      /\ \A i \in 1 .. clients :
           new[i].idx = i - 1 /\ ~new[i].up /\ new[i].subs = {} /\ new[i].inbox = <<>>
  <2>1. PICK e \in Seq(Push) : e = <<>>
    <3>1. <<>> \in Seq(Push)
      BY EmptySeq
    <3> QED BY <3>1
  <2>2. ASSUME NEW i \in 1 .. clients
        PROVE  [idx |-> i - 1, up |-> FALSE, life |-> "new", doomed |-> FALSE,
                subs |-> {}, inbox |-> e] \in Conn
    <3>1. PICK k \in Clients : k = i - 1
      BY <1>5
    <3>2. PICK T \in SUBSET Pairs : T = {}
      OBVIOUS
    <3>3. [idx |-> k, up |-> FALSE, life |-> "new", doomed |-> FALSE, subs |-> T, inbox |-> e] \in Conn
      <4> HIDE DEF Clients
      <4> QED BY DEF Conn
    <3> QED BY <3>1, <3>2, <3>3
  <2>3. new \in [1 .. clients -> Conn]
    BY <2>1, <2>2
  <2>4. new \in Seq(Conn) /\ Len(new) = clients
    <3> HIDE DEF new
    <3> QED BY <2>3
  <2> QED BY <2>4
<1> HIDE DEF new
<1>7. /\ conns' \in Seq(Conn) /\ Len(conns') = Len(conns) + clients
      /\ DOMAIN conns' = 1 .. (Len(conns) + clients)
      /\ \A i \in 1 .. Len(conns) + clients :
           conns'[i] = IF i <= Len(conns) THEN conns[i] ELSE new[i - Len(conns)]
  <2>1. /\ conns' \in Seq(Conn) /\ Len(conns') = Len(conns) + Len(new)
        /\ \A i \in 1 .. Len(conns) + Len(new) :
             conns'[i] = IF i <= Len(conns) THEN conns[i] ELSE new[i - Len(conns)]
    <3>1. conns' = conns \o new /\ conns \in Seq(Conn) /\ new \in Seq(Conn)
      BY <1>1, <1>2, <1>6
    <3> QED BY <3>1, ConcatProperties
  <2> QED BY <2>1, <1>6
<1>8. ASSUME NEW c \in DOMAIN conns'
      PROVE  \/ c \in DOMAIN conns /\ conns'[c] = conns[c]
             \/ /\ c - Len(conns) \in 1 .. clients
                /\ conns'[c].idx = c - Len(conns) - 1 /\ ~conns'[c].up
                /\ conns'[c].subs = {} /\ conns'[c].inbox = <<>>
  <2>1. CASE c <= Len(conns)
    BY <1>2, <1>7, <2>1
  <2>2. CASE ~(c <= Len(conns))
    <3>1. PICK i \in 1 .. clients : i = c - Len(conns)
      BY <1>2, <1>7, <2>2
    <3>2. conns'[c] = new[i]
      BY <1>7, <2>2, <3>1
    <3> QED BY <1>6, <3>1, <3>2
  <2> QED BY <2>1, <2>2
<1>9. TypeOK'
  <2>1. \A c \in DOMAIN conns' : ~conns'[c].up => conns'[c].subs = {} /\ conns'[c].inbox = <<>>
    <3> TAKE c \in DOMAIN conns'
    <3>1. CASE c \in DOMAIN conns /\ conns'[c] = conns[c]
      BY <3>1 DEF Sound, TypeOK
    <3> QED BY <1>8, <3>1
  <2>2. conns' \in Seq(Conn)
    BY <1>7 DEF Conn
  <2>3. params' \in Seq((SUBSET Pairs) \ {{}})
    BY <1>1 DEF Parts
  <2>4. subscribes' \in 0 .. MaxEvents /\ since' \in 0 .. MaxEvents
    BY <1>1, <1>2, <1>3
  <2>5. Asked(n) \in 0 .. NumPairs
    BY <1>2 DEF Asked, Requests
  <2>6. wanted' \subseteq Pairs
    <3>1. 1 .. Asked(n) \subseteq Pairs
      BY <1>2, <2>5 DEF Pairs
    <3>2. wanted \subseteq Pairs
      BY DEF Sound, TypeOK
    <3> QED BY <1>1, <3>1, <3>2
  <2>7. /\ {subscribes', unsubscribes', since'} \subseteq 0 .. MaxEvents
        /\ {refreshes', drops'} \subseteq 0 .. MaxEvents
        /\ {handler', freed', stepped'} \subseteq BOOLEAN
    BY <1>1, <2>4 DEF Sound, TypeOK
  <2> HIDE DEF Clients, Pairs
  <2> QED BY <1>1, <2>1, <2>2, <2>3, <2>6, <2>7 DEF Sound, TypeOK
<1>10. MemorySafe'
  BY <1>1 DEF MemorySafe
<1>11. Counted'
  <2>1. subscribes' + drops + refreshes <= MaxEvents /\ unsubscribes < subscribes'
        /\ since' <= subscribes' /\ since' # 0 /\ subscribes' \in Nat /\ since' \in Nat
    <3>1. subscribes' = subscribes + 1 /\ since' = since + 1 /\ subscribes + drops + refreshes < MaxEvents
      BY <1>1
    <3>2. {subscribes, unsubscribes, since, drops, refreshes, MaxEvents} \subseteq Nat
      BY <1>2
    <3>3. unsubscribes <= subscribes /\ since <= subscribes
      BY <1>3
    <3> QED BY <3>1, <3>2, <3>3
  <2>2. unsubscribes <= subscribes'
    <3>1. unsubscribes \in Nat
      BY <1>2
    <3> QED BY <2>1, <3>1
  <2>3. Len(params') <= subscribes' * NumPairs
    BY <1>1, <1>4
  <2>4. {subscribes', drops', refreshes', unsubscribes', since'} \subseteq Nat
    BY <1>1, <1>2, <2>1
  <2>5. freed => unsubscribes > 0
    BY DEF Sound, Counted
  <2> QED BY <1>1, <2>1, <2>2, <2>3, <2>4, <2>5 DEF Counted
<1>12. Indexed'
  <2>1. ASSUME ex = "aster" \/ (ex = "toobit" /\ since' < 2) \/ ex \in {"phemex", "edgex"},
               NEW c \in DOMAIN conns'
        PROVE  conns'[c].idx < Len(newParams)
    <3>1. CASE c \in DOMAIN conns /\ conns'[c] = conns[c]
      <4>1. ex # "toobit"
        <5>1. ASSUME ex = "toobit" PROVE FALSE
          <6>1. since = 0
            BY <1>1, <1>2, <2>1, <5>1
          <6> QED BY <3>1, <6>1 DEF Sound, Counted
        <5> QED BY <5>1
      <4>2. conns[c].idx < Len(params) /\ Len(params) <= Len(newParams)
        BY <2>1, <3>1, <4>1 DEF Sound, Indexed
      <4>3. conns[c].idx \in Nat
        <5>1. conns[c] \in Conn
          BY <1>2, <3>1
        <5>2. conns[c].idx \in Clients
          <6> HIDE DEF Clients
          <6> QED BY <5>1 DEF Conn
        <5> QED BY <5>2, <1>2 DEF Clients
      <4> QED BY <1>2, <3>1, <4>2, <4>3
    <3>2. CASE c - Len(conns) \in 1 .. clients /\ conns'[c].idx = c - Len(conns) - 1
      <4>1. clients = Len(newParams)
        BY <2>1
      <4>2. PICK i \in 1 .. clients : i = c - Len(conns)
        BY <3>2
      <4> QED BY <3>2, <4>1, <4>2
    <3> QED BY <1>8, <3>1, <3>2
  <2>2. ASSUME ex \in {"phemex", "edgex"}
        PROVE  /\ Len(newParams) <= Len(conns')
               /\ unsubscribes = 0 => \A i \in Clients : timers[i] > 0 => i < Len(newParams)
    <3>1. clients = Len(newParams) /\ Len(params) <= Len(newParams)
      BY <2>2
    <3>2. unsubscribes = 0 => \A i \in Clients : timers[i] > 0 => i < Len(params)
      BY <2>2 DEF Sound, Indexed
    <3>3. \A i \in Clients : i \in Nat
      BY <1>2 DEF Clients
    <3> QED BY <1>2, <1>7, <3>1, <3>2, <3>3
  <2> QED BY <1>1, <2>1, <2>2 DEF Indexed
<1>13. Behind'
  <2>1. ASSUME NEW c \in DOMAIN conns', NEW i \in DOMAIN conns'[c].inbox
        PROVE  conns'[c].inbox[i].k <= Len(market[conns'[c].inbox[i].p])
    <3>1. c \in DOMAIN conns /\ conns'[c] = conns[c]
      BY <1>8, <2>1
    <3> QED BY <2>1, <3>1 DEF Sound, Behind
  <2> QED BY <1>1, <2>1 DEF Sound, Behind
<1>14. Rising' /\ Dated' /\ Filled'
  BY <1>1 DEF Sound, Rising, Dated, Filled, Milli
<1>15. OneFeed'
  <2> SUFFICES ASSUME subscribes' < 2 PROVE OneFeed'
    BY <1>1 DEF OneFeed
  <2>1. subscribes = 0 /\ subscribes' # 0
    <3>1. subscribes \in Nat /\ subscribes' = subscribes + 1
      BY <1>1, <1>2
    <3> QED BY <3>1
  <2>2. params = <<>> /\ conns = <<>> /\ Len(conns) = 0
    BY <2>1 DEF Sound, OneFeed
  <2>3. \A i, j \in DOMAIN params' : i # j => params'[i] \cap params'[j] = {}
    <3>1. DOMAIN params' = 1 .. Len(newParams)
      BY <1>1
    <3> QED BY <1>1, <2>1, <3>1
  <2>4. Steady' => \A p \in Pairs : books'[p].k = got'[p]
    BY <1>1, <2>1 DEF Sound, OneFeed, Steady
  <2>5. ASSUME NEW c \in DOMAIN conns'
        PROVE  conns'[c].idx = c - 1 /\ conns'[c].subs = {} /\ conns'[c].inbox = <<>>
    <3>1. DOMAIN conns' = 1 .. clients /\ c - Len(conns) = c
      BY <1>2, <1>7, <2>2
    <3>2. c \notin DOMAIN conns
      BY <2>2
    <3>3. conns'[c].idx = c - Len(conns) - 1 /\ conns'[c].subs = {} /\ conns'[c].inbox = <<>>
      BY <1>8, <3>2
    <3>4. c \in Int /\ c - Len(conns) - 1 = c - 1
      BY <2>2, <3>1
    <3> QED BY <3>3, <3>4
  <2> QED BY <2>1, <2>3, <2>4, <2>5 DEF OneFeed
<1> QED BY <1>9, <1>10, <1>11, <1>12, <1>13, <1>14, <1>15 DEF Sound

LEMMA UnsubscribeSound ==
  ASSUME Sound, harm = "no", NEW newParams, Unsubscribe(newParams),
         newParams = <<>> \/ (newParams = params /\ ex = "aster")
  PROVE  Sound'
<1>1. /\ handler /\ unsubscribes' = unsubscribes + 1 /\ since' = 0 /\ wanted' = {}
      /\ handler' = FALSE /\ params' = newParams /\ conns' = <<>>
      /\ freed' = (freed \/ conns # <<>>)
      /\ UNCHANGED <<ex, limit, known, refreshes, timers, harm, subscribes, market, books,
                     got, clock, stepped, drops>>
  BY DEF Unsubscribe, bookVars, tableVars
<1>2. /\ subscribes \in Nat /\ unsubscribes \in Nat /\ drops \in Nat /\ refreshes \in Nat
      /\ MaxEvents \in Nat /\ NumPairs \in Nat /\ params \in Seq(Parts) /\ Len(params) \in Nat
  BY Typed
<1>3. /\ unsubscribes < subscribes /\ subscribes + drops + refreshes <= MaxEvents
      /\ Len(params) <= subscribes * NumPairs
  BY <1>1 DEF Sound, Counted
<1>4. unsubscribes' \in Nat /\ unsubscribes' > 0 /\ unsubscribes' <= subscribes /\ unsubscribes' \in 0 .. MaxEvents
  BY <1>1, <1>2, <1>3
<1>5. params' \in Seq(Parts) /\ Len(params') <= subscribes * NumPairs /\ Len(params') \in Nat
  <2>1. <<>> \in Seq(Parts) /\ Len(<<>>) = 0 /\ 0 <= subscribes * NumPairs
    BY <1>2, EmptySeq
  <2> QED BY <1>1, <1>2, <1>3, <2>1
<1>6. freed' \in BOOLEAN
  BY <1>1
<1>7. TypeOK'
  <2>1. conns' \in Seq(Conn)
    BY <1>1, EmptySeq
  <2>2. params' \in Seq((SUBSET Pairs) \ {{}})
    BY <1>5 DEF Parts
  <2>3. DOMAIN conns' = {}
    BY <1>1
  <2>4. /\ {subscribes', unsubscribes', since'} \subseteq 0 .. MaxEvents
        /\ {refreshes', drops'} \subseteq 0 .. MaxEvents
    BY <1>1, <1>2, <1>4 DEF Sound, TypeOK
  <2>5. {handler', freed', stepped'} \subseteq BOOLEAN
    BY <1>1, <1>6 DEF Sound, TypeOK
  <2> HIDE DEF Clients, Pairs
  <2> QED BY <1>1, <2>1, <2>2, <2>3, <2>4, <2>5 DEF Sound, TypeOK
<1>8. MemorySafe'
  BY <1>1 DEF MemorySafe
<1>9. Counted'
  BY <1>1, <1>2, <1>3, <1>4, <1>5 DEF Counted
<1>10. Indexed'
  <2>1. DOMAIN conns' = {} /\ Len(conns') = 0 /\ (ex \in {"phemex", "edgex"} => Len(params') = 0)
    BY <1>1
  <2>2. unsubscribes' # 0
    BY <1>4
  <2> QED BY <1>1, <2>1, <2>2 DEF Indexed
<1>11. Behind' /\ Rising' /\ Dated' /\ Filled'
  BY <1>1 DEF Sound, Behind, Rising, Dated, Filled, Milli
<1>12. OneFeed'
  <2> SUFFICES ASSUME subscribes < 2 PROVE OneFeed'
    BY <1>1 DEF OneFeed
  <2>1. conns' = <<>> /\ DOMAIN conns' = {} /\ subscribes' # 0
    BY <1>1, <1>2, <1>3
  <2>2. Steady' => \A p \in Pairs : books'[p].k = got'[p]
    BY <1>1 DEF Sound, OneFeed, Steady
  <2>3. \A i, j \in DOMAIN params' : i # j => params'[i] \cap params'[j] = {}
    BY <1>1 DEF Sound, OneFeed
  <2> QED BY <2>1, <2>2, <2>3 DEF OneFeed
<1> QED BY <1>7, <1>8, <1>9, <1>10, <1>11, <1>12 DEF Sound

LEMMA RefreshSound ==
  ASSUME Sound, harm = "no", RefreshPairs
  PROVE  Sound'
<1>1. /\ subscribes + drops + refreshes < MaxEvents
      /\ refreshes' = refreshes + 1 /\ known' \in 0 .. NumPairs
      /\ UNCHANGED <<ex, limit, handler, params, conns, timers, freed, harm, subscribes, unsubscribes,
                     since, wanted, skipped, market, books, got, clock, stepped, drops>>
  BY DEF RefreshPairs, MoreEvents, callVars, bookVars
<1>2. /\ subscribes \in Nat /\ drops \in Nat /\ refreshes \in Nat /\ MaxEvents \in Nat
  BY Typed
<1>3. /\ refreshes' \in Nat /\ refreshes' \in 0 .. MaxEvents /\ refreshes' > 0
      /\ subscribes + drops + refreshes' <= MaxEvents
  BY <1>1, <1>2
<1>4. TypeOK'
  <2>1. {refreshes', drops'} \subseteq 0 .. MaxEvents
    BY <1>1, <1>3 DEF Sound, TypeOK
  <2> HIDE DEF Clients, Pairs
  <2> QED BY <1>1, <2>1 DEF Sound, TypeOK
<1>5. MemorySafe' /\ Indexed' /\ Behind' /\ Rising' /\ Dated' /\ OneFeed'
  BY <1>1, Untouched DEF Sound, MemorySafe, Indexed
<1>6. Counted'
  BY <1>1, <1>3 DEF Sound, Counted
<1>7. Filled'
  BY <1>1, <1>3 DEF Sound, Filled
<1> QED BY <1>4, <1>5, <1>6, <1>7 DEF Sound

LEMMA FreedSound ==
  ASSUME Sound, harm = "no", FreedHandlers
  PROVE  Sound'
<1>1. freed /\ unsubscribes > 0
  BY DEF FreedHandlers, Sound, Counted
<1>2. CASE Harmed("freed")
  BY <1>1, <1>2, Harms
<1>3. CASE ~Harmed("freed")
  <2>1. /\ freed' = FALSE
        /\ UNCHANGED <<ex, limit, known, refreshes, handler, params, conns, timers, harm, subscribes,
                       unsubscribes, since, wanted, skipped, market, books, got, clock, stepped, drops>>
    BY <1>3 DEF FreedHandlers, callVars, bookVars, tableVars
  <2>2. TypeOK'
    <3>1. {handler', freed', stepped'} \subseteq BOOLEAN
      BY <2>1 DEF Sound, TypeOK
    <3> HIDE DEF Clients, Pairs
    <3> QED BY <2>1, <3>1 DEF Sound, TypeOK
  <2>3. MemorySafe' /\ Counted' /\ Indexed' /\ Behind' /\ Rising' /\ Dated' /\ OneFeed' /\ Filled'
    BY <2>1, Untouched DEF Sound, MemorySafe, Counted, Indexed, Filled
  <2> QED BY <2>2, <2>3 DEF Sound
<1> QED BY <1>2, <1>3

-----------------------------------------------------------------------------
(* The exchange                                                            *)

\* Only so many versions of a book are told apart.
LEMMA RoomForVersion ==
  ASSUME Sound, NEW p \in Pairs, Cardinality(Versions) < MaxTicks
  PROVE  Len(market[p]) < MaxTicks
<1>1. MaxTicks \in Nat /\ NumPairs \in Nat /\ Len(market[p]) \in 0 .. MaxTicks
  BY Typed
<1> SUFFICES ASSUME Len(market[p]) = MaxTicks PROVE FALSE
  BY <1>1
<1> DEFINE All == Pairs \X (1 .. MaxTicks)
           f == [x \in All |-> [p |-> x[1], k |-> x[2]]]
           g == [k \in 1 .. MaxTicks |-> [p |-> p, k |-> k]]
<1>2. IsFiniteSet(All)
  <2>1. IsFiniteSet(Pairs) /\ IsFiniteSet(1 .. MaxTicks)
    BY <1>1, FS_Interval DEF Pairs
  <2> QED BY <2>1, FS_Product
<1>3. f \in Surjection(All, Push)
  <2>1. \A x \in All : f[x] \in Push
    BY DEF Push
  <2>2. ASSUME NEW v \in Push PROVE \E x \in All : f[x] = v
    <3>1. <<v.p, v.k>> \in All
      BY DEF Push
    <3>2. f[<<v.p, v.k>>] = v
      BY <3>1 DEF Push
    <3> QED BY <3>1, <3>2
  <2>3. f \in [All -> Push]
    BY <2>1
  <2> HIDE DEF f, All
  <2> QED BY <2>2, <2>3 DEF Surjection
<1>4. IsFiniteSet(Push)
  <2> HIDE DEF f, All
  <2> QED BY <1>2, <1>3, FS_Surjection
<1>5. Versions \subseteq Push /\ IsFiniteSet(Versions)
  BY <1>4, FS_Subset DEF Versions
<1>6. \A k \in 1 .. MaxTicks : g[k] \in Versions /\ g[k].k = k
  BY <1>1 DEF Versions, Push
<1>7. g \in Injection(1 .. MaxTicks, Versions)
  <2>1. g \in [1 .. MaxTicks -> Versions]
    BY <1>6
  <2> HIDE DEF g
  <2> QED BY <2>1, <1>6 DEF Injection, IsInjective
<1>8. Cardinality(1 .. MaxTicks) <= Cardinality(Versions)
  <2> HIDE DEF g
  <2> QED BY <1>5, <1>7, FS_Injection
<1>9. Cardinality(1 .. MaxTicks) = MaxTicks
  <2>1. Cardinality(1 .. MaxTicks) = IF 1 > MaxTicks THEN 0 ELSE MaxTicks - 1 + 1
    BY <1>1, FS_Interval
  <2> QED BY <1>1, <2>1
<1>10. Cardinality(Versions) \in Nat
  BY <1>5, FS_CardinalityType
<1> QED BY <1>1, <1>8, <1>9, <1>10

LEMMA TickSound ==
  ASSUME Sound, harm = "no", NEW p \in Pairs, Tick(p)
  PROVE  Sound'
<1> DEFINE last == Len(market[p])
<1>0. PICK wait \in {0, 1} : market' = [market EXCEPT ![p] = Append(@, Milli(p, last) + wait)]
  BY DEF Tick
<1>1. /\ Cardinality(Versions) < MaxTicks
      /\ conns' = [c \in DOMAIN conns |->
           IF p \in conns[c].subs
           THEN [conns[c] EXCEPT !.inbox = Append(@, [p |-> p, k |-> last + 1])]
           ELSE conns[c]]
      /\ UNCHANGED <<ex, limit, known, refreshes, handler, params, timers, freed, harm, subscribes,
                     unsubscribes, since, wanted, skipped, books, got, clock, stepped, drops>>
  BY DEF Tick, callVars, tableVars
<1>2. /\ market \in [Pairs -> Seq(Nat)] /\ got \in [Pairs -> 0 .. MaxTicks] /\ MaxTicks \in Nat
      /\ conns \in Seq(Conn) /\ DOMAIN conns = 1 .. Len(conns) /\ Len(conns) \in Nat
      /\ DOMAIN params = 1 .. Len(params)
      /\ \A q \in Pairs : market[q] \in Seq(Nat) /\ Len(market[q]) \in 0 .. MaxTicks
  BY Typed
<1>3. last < MaxTicks /\ last \in Nat
  BY <1>1, <1>2, RoomForVersion
<1>4. PICK milli \in Nat : milli = Milli(p, last) + wait /\ Milli(p, last) <= milli
  <2>1. last \in 0 .. Len(market[p])
    BY <1>2
  <2>2. Milli(p, last) \in Nat
    BY <2>1, MilliIs
  <2> QED BY <2>2
<1>5. /\ market'[p] = Append(market[p], milli)
      /\ market'[p] \in Seq(Nat) /\ Len(market'[p]) = last + 1 /\ last + 1 \in 1 .. MaxTicks
      /\ market'[p][last + 1] = milli /\ \A k \in 1 .. last : market'[p][k] = market[p][k]
      /\ \A q \in Pairs : q # p => market'[q] = market[q]
      /\ market' \in [Pairs -> Seq(Nat)]
  <2>1. market' = [market EXCEPT ![p] = Append(market[p], milli)]
    BY <1>0, <1>2, <1>4
  <2>2. market[p] \in Seq(Nat)
    BY <1>2
  <2>21. /\ Append(market[p], milli) \in Seq(Nat) /\ Len(Append(market[p], milli)) = last + 1
         /\ \A k \in 1 .. last : Append(market[p], milli)[k] = market[p][k]
         /\ Append(market[p], milli)[last + 1] = milli
    BY <2>2, AppendProperties
  <2>3. PICK new \in Seq(Nat) : /\ new = Append(market[p], milli) /\ Len(new) = last + 1
                                /\ new[last + 1] = milli /\ \A k \in 1 .. last : new[k] = market[p][k]
    BY <2>21
  <2>4. market' = [market EXCEPT ![p] = new]
    BY <2>1, <2>3
  <2>5. market'[p] = new /\ market' \in [Pairs -> Seq(Nat)] /\ \A q \in Pairs : q # p => market'[q] = market[q]
    BY <1>2, <2>4
  <2> QED BY <1>2, <1>3, <2>3, <2>5
<1> HIDE DEF last
<1>51. \A q \in Pairs : /\ Len(market[q]) <= Len(market'[q]) /\ Len(market'[q]) <= MaxTicks
                        /\ Len(market'[q]) \in Nat
  <2> TAKE q \in Pairs
  <2>1. CASE q = p
    BY <2>1, <1>2, <1>3, <1>5 DEF last
  <2>2. CASE q # p
    BY <2>2, <1>2, <1>5
  <2> QED BY <2>1, <2>2
<1>52. \A q \in Pairs : \A k \in 0 .. Len(market[q]) : Milli(q, k)' = Milli(q, k)
  <2> TAKE q \in Pairs
  <2> TAKE k \in 0 .. Len(market[q])
  <2>1. CASE q = p
    BY <2>1, <1>2, <1>5 DEF Milli, last
  <2>2. CASE q # p
    BY <2>2, <1>5 DEF Milli
  <2> QED BY <2>1, <2>2
<1>6. PICK v \in Push : v = [p |-> p, k |-> last + 1] /\ v.p = p /\ v.k = last + 1
  <2>1. PICK k \in 1 .. MaxTicks : k = last + 1
    BY <1>5
  <2>2. [p |-> p, k |-> k] \in Push
    BY DEF Push
  <2> QED BY <2>1, <2>2
<1>7. ASSUME NEW c \in DOMAIN conns
      PROVE  /\ conns'[c] \in Conn /\ conns'[c].idx = conns[c].idx /\ conns'[c].up = conns[c].up
             /\ conns'[c].subs = conns[c].subs
             /\ \/ conns'[c].inbox = conns[c].inbox
                \/ p \in conns[c].subs /\ conns'[c].inbox = Append(conns[c].inbox, v)
             /\ conns[c].inbox \in Seq(Push)
  <2>1. conns[c] \in Conn
    BY <1>2
  <2>2. conns[c].inbox \in Seq(Push)
    BY <2>1 DEF Conn
  <2>3. CASE p \in conns[c].subs
    <3>1. PICK new \in Seq(Push) : new = Append(conns[c].inbox, v)
      BY <2>2, AppendProperties
    <3>2. conns'[c] = [conns[c] EXCEPT !.inbox = new]
      BY <1>1, <1>6, <2>3, <3>1
    <3>3. /\ conns'[c] \in Conn /\ conns'[c].idx = conns[c].idx /\ conns'[c].up = conns[c].up
          /\ conns'[c].subs = conns[c].subs /\ conns'[c].inbox = new
      <4> HIDE DEF Clients, Pairs
      <4> QED BY <2>1, <3>2 DEF Conn
    <3> QED BY <2>2, <2>3, <3>1, <3>3
  <2>4. CASE p \notin conns[c].subs
    BY <1>1, <2>1, <2>2, <2>4
  <2> QED BY <2>3, <2>4
<1>8. /\ conns' \in Seq(Conn) /\ Len(conns') = Len(conns) /\ DOMAIN conns' = DOMAIN conns
  <2>1. conns' \in [1 .. Len(conns) -> Conn]
    BY <1>1, <1>2, <1>7
  <2>2. PICK n \in Nat : n = Len(conns)
    BY <1>2
  <2>3. PICK ds \in [1 .. n -> Conn] : ds = conns'
    BY <2>1, <2>2
  <2>4. ds \in Seq(Conn) /\ Len(ds) = n /\ DOMAIN ds = 1 .. n
    OBVIOUS
  <2> QED BY <1>2, <2>2, <2>3, <2>4
<1>9. TypeOK'
  <2>1. \A c \in DOMAIN conns' : ~conns'[c].up => conns'[c].subs = {} /\ conns'[c].inbox = <<>>
    BY <1>7, <1>8 DEF Sound, TypeOK
  <2>2. conns' \in Seq(Conn)
    BY <1>8 DEF Conn
  <2> HIDE DEF Clients, Pairs
  <2> QED BY <1>1, <1>5, <1>51, <2>1, <2>2 DEF Sound, TypeOK
<1>10. MemorySafe'
  BY <1>1 DEF MemorySafe
<1>11. conns = <<>> => conns' = <<>>
  BY <1>2, <1>8
<1>12. Counted' /\ Filled'
  BY <1>1, <1>11 DEF Sound, Counted, Filled
<1>121. Dated'
  <2>1. \A q \in Pairs : Milli(q, got[q])' = Milli(q, got[q])
    <3>1. \A q \in Pairs : got[q] \in 0 .. Len(market[q])
      BY <1>2 DEF Sound, Behind
    <3> QED BY <1>1, <1>52, <3>1 DEF Milli
  <2> QED BY <1>1, <2>1 DEF Sound, Dated
<1>122. Rising'
  <2> SUFFICES ASSUME NEW q \in Pairs, NEW i \in 0 .. Len(market'[q]), NEW j \in 0 .. Len(market'[q]), i <= j
               PROVE  Milli(q, i)' <= Milli(q, j)'
    BY DEF Rising
  <2>1. CASE j \in 0 .. Len(market[q])
    <3>1. i \in 0 .. Len(market[q])
      BY <1>2, <2>1
    <3> QED BY <1>52, <2>1, <3>1 DEF Sound, Rising
  <2>2. CASE j \notin 0 .. Len(market[q])
    <3>1. q = p /\ j = last + 1
      BY <1>2, <1>5, <1>51, <2>2 DEF last
    <3>2. Milli(q, j)' = milli
      BY <1>3, <1>5, <3>1 DEF Milli
    <3>3. CASE i = j
      BY <3>2, <3>3
    <3>4. CASE i # j
      <4>1. i \in 0 .. Len(market[p]) /\ last \in 0 .. Len(market[p]) /\ i <= last
        BY <1>2, <1>3, <1>51, <3>1, <3>4 DEF last
      <4>2. Milli(p, i) <= Milli(p, last) /\ Milli(p, i) \in Nat /\ Milli(p, last) \in Nat
        BY <4>1, MilliIs DEF Sound, Rising
      <4> QED BY <1>4, <1>52, <3>1, <3>2, <4>1, <4>2
    <3> QED BY <3>3, <3>4
  <2> QED BY <2>1, <2>2
<1>13. Indexed'
  <2>1. \A c \in DOMAIN conns' : conns'[c].idx = conns[c].idx
    BY <1>7, <1>8
  <2> QED BY <1>1, <1>8, <2>1 DEF Sound, Indexed
<1>14. ASSUME NEW c \in DOMAIN conns, NEW i \in DOMAIN conns'[c].inbox
       PROVE  \/ i \in DOMAIN conns[c].inbox /\ conns'[c].inbox[i] = conns[c].inbox[i]
              \/ p \in conns[c].subs /\ i = Len(conns[c].inbox) + 1 /\ conns'[c].inbox[i] = v
  <2>1. CASE conns'[c].inbox = conns[c].inbox
    BY <2>1
  <2>2. CASE p \in conns[c].subs /\ conns'[c].inbox = Append(conns[c].inbox, v)
    <3>1. /\ Append(conns[c].inbox, v) \in Seq(Push)
          /\ Len(Append(conns[c].inbox, v)) = Len(conns[c].inbox) + 1
          /\ \A j \in 1 .. Len(conns[c].inbox) : Append(conns[c].inbox, v)[j] = conns[c].inbox[j]
          /\ Append(conns[c].inbox, v)[Len(conns[c].inbox) + 1] = v
      BY <1>7, AppendProperties
    <3>2. /\ DOMAIN conns'[c].inbox = 1 .. (Len(conns[c].inbox) + 1)
          /\ DOMAIN conns[c].inbox = 1 .. Len(conns[c].inbox) /\ Len(conns[c].inbox) \in Nat
      BY <1>7, <2>2, <3>1
    <3> QED BY <2>2, <3>1, <3>2
  <2> QED BY <1>7, <2>1, <2>2
<1>15. \A c \in DOMAIN conns : \A i \in DOMAIN conns[c].inbox :
         conns[c].inbox[i] \in Push /\ conns[c].inbox[i].p \in Pairs /\ conns[c].inbox[i].k \in Nat
  <2> TAKE c \in DOMAIN conns
  <2> TAKE i \in DOMAIN conns[c].inbox
  <2>1. conns[c].inbox \in Seq(Push)
    BY <1>7
  <2>2. conns[c].inbox[i] \in Push
    BY <2>1
  <2> QED BY <2>2, <1>2 DEF Push
<1>16. Behind'
  <2>1. \A q \in Pairs : got'[q] <= Len(market'[q])
    BY <1>1, <1>2, <1>51 DEF Sound, Behind
  <2>2. ASSUME NEW c \in DOMAIN conns', NEW i \in DOMAIN conns'[c].inbox
        PROVE  conns'[c].inbox[i].k <= Len(market'[conns'[c].inbox[i].p])
    <3>1. CASE i \in DOMAIN conns[c].inbox /\ conns'[c].inbox[i] = conns[c].inbox[i]
      <4>1. conns[c].inbox[i].k <= Len(market[conns[c].inbox[i].p])
        BY <1>8, <2>2, <3>1 DEF Sound, Behind
      <4>2. conns[c].inbox[i].p \in Pairs /\ conns[c].inbox[i].k \in Nat
        BY <1>8, <2>2, <3>1, <1>15
      <4> QED BY <3>1, <4>1, <4>2, <1>2, <1>51
    <3>2. CASE conns'[c].inbox[i] = v
      BY <3>2, <1>5, <1>6
    <3> QED BY <1>8, <1>14, <2>2, <3>1, <3>2
  <2> QED BY <2>1, <2>2 DEF Behind
<1>17. OneFeed'
  <2> SUFFICES ASSUME subscribes < 2 PROVE OneFeed'
    BY <1>1 DEF OneFeed
  <2>0. \A c : Carries(c)' = Carries(c)
    BY <1>1 DEF Carries, Flat
  <2>1. /\ subscribes' = 0 => params' = <<>> /\ conns' = <<>>
        /\ \A i, j \in DOMAIN params' : i # j => params'[i] \cap params'[j] = {}
        /\ Steady' => \A q \in Pairs : books'[q].k = got'[q]
    BY <1>1, <1>11 DEF Sound, OneFeed, Steady
  <2>2. ASSUME NEW c \in DOMAIN conns'
        PROVE  conns'[c].idx = c - 1 /\ conns'[c].subs \subseteq Carries(c)'
    BY <1>7, <1>8, <2>0 DEF Sound, OneFeed
  <2>3. ASSUME NEW c \in DOMAIN conns', NEW i \in DOMAIN conns'[c].inbox
        PROVE  LET push == conns'[c].inbox[i] IN
               /\ push.p \in Carries(c)' /\ got'[push.p] < push.k
               /\ \A j \in DOMAIN conns'[c].inbox :
                    i < j /\ conns'[c].inbox[j].p = push.p => push.k < conns'[c].inbox[j].k
    <3>1. c \in DOMAIN conns /\ conns[c].subs \subseteq Carries(c)
      BY <1>8 DEF Sound, OneFeed
    <3>2. CASE i \in DOMAIN conns[c].inbox /\ conns'[c].inbox[i] = conns[c].inbox[i]
      <4>1. /\ conns[c].inbox[i].p \in Carries(c) /\ got[conns[c].inbox[i].p] < conns[c].inbox[i].k
            /\ \A j \in DOMAIN conns[c].inbox :
                 i < j /\ conns[c].inbox[j].p = conns[c].inbox[i].p =>
                   conns[c].inbox[i].k < conns[c].inbox[j].k
        BY <3>1, <3>2 DEF Sound, OneFeed
      <4>2. ASSUME NEW j \in DOMAIN conns'[c].inbox, i < j,
                   conns'[c].inbox[j].p = conns[c].inbox[i].p
            PROVE  conns[c].inbox[i].k < conns'[c].inbox[j].k
        <5>1. CASE j \in DOMAIN conns[c].inbox /\ conns'[c].inbox[j] = conns[c].inbox[j]
          BY <4>1, <4>2, <5>1
        <5>2. CASE conns'[c].inbox[j] = v
          <6>1. conns[c].inbox[i].p = p
            BY <4>2, <5>2, <1>6
          <6>2. conns[c].inbox[i].k <= last
            BY <3>1, <3>2, <6>1 DEF Sound, Behind, last
          <6>3. conns[c].inbox[i].k \in Nat
            BY <3>1, <3>2, <1>15
          <6> QED BY <5>2, <6>2, <6>3, <1>3, <1>6
        <5> QED BY <3>1, <1>14, <4>2, <5>1, <5>2
      <4> QED BY <2>0, <3>2, <4>1, <4>2, <1>1
    <3>3. CASE p \in conns[c].subs /\ i = Len(conns[c].inbox) + 1 /\ conns'[c].inbox[i] = v
      <4>1. v.p \in Carries(c) /\ got[v.p] < v.k
        <5>1. got[p] <= last /\ got[p] \in Nat
          BY <1>2 DEF Sound, Behind, last
        <5> QED BY <3>1, <3>3, <5>1, <1>3, <1>6
      <4>2. \A j \in DOMAIN conns'[c].inbox : ~(i < j)
        <5> TAKE j \in DOMAIN conns'[c].inbox
        <5>1. conns[c].inbox \in Seq(Push)
          BY <3>1, <1>7
        <5>2. j \in 1 .. Len(conns[c].inbox) \/ j = Len(conns[c].inbox) + 1
          BY <3>1, <1>14, <5>1
        <5> QED BY <3>3, <5>1, <5>2
      <4> QED BY <2>0, <3>3, <4>1, <4>2, <1>1
    <3> QED BY <3>1, <2>3, <1>14, <3>2, <3>3
  <2> QED BY <2>1, <2>2, <2>3 DEF OneFeed
<1> QED BY <1>9, <1>10, <1>12, <1>121, <1>122, <1>13, <1>16, <1>17 DEF Sound


-----------------------------------------------------------------------------
(* Pushes are taken and stored                                             *)

\* Where push number i of client d was before client c's first was taken.
Was(c, d, i) == IF d = c THEN i + 1 ELSE i

LEMMA Taken ==
  ASSUME Sound, NEW c \in DOMAIN conns, TakePush(c)
  PROVE  /\ conns' \in Seq(Conn) /\ Len(conns') = Len(conns)
         /\ Head(conns[c].inbox) \in Push /\ 1 \in DOMAIN conns[c].inbox
         /\ Head(conns[c].inbox) = conns[c].inbox[1]
         /\ \A d \in 1 .. Len(conns) :
              /\ conns'[d].idx = conns[d].idx /\ conns'[d].subs = conns[d].subs
              /\ ~conns'[d].up => conns'[d].subs = {} /\ conns'[d].inbox = <<>>
              /\ \A i \in DOMAIN conns'[d].inbox :
                   /\ i \in Nat /\ i >= 1 /\ Was(c, d, i) \in DOMAIN conns[d].inbox
                   /\ conns'[d].inbox[i] = conns[d].inbox[Was(c, d, i)]
                   /\ conns'[d].inbox[i] \in Push
<1>1. /\ conns \in Seq(Conn) /\ DOMAIN conns = 1 .. Len(conns) /\ Len(conns) \in Nat
      /\ conns[c] \in Conn
  BY Typed
<1>2. conns[c].inbox # <<>> /\ conns' = [conns EXCEPT ![c].inbox = Tail(@)]
  BY DEF TakePush
<1>3. \A d \in 1 .. Len(conns) : conns[d].inbox \in Seq(Push)
  <2> TAKE d \in 1 .. Len(conns)
  <2>1. conns[d] \in Conn
    BY <1>1
  <2> QED BY <2>1 DEF Conn
<1>4. /\ Head(conns[c].inbox) \in Push /\ Tail(conns[c].inbox) \in Seq(Push)
      /\ Len(Tail(conns[c].inbox)) = Len(conns[c].inbox) - 1
      /\ \A i \in 1 .. Len(Tail(conns[c].inbox)) : Tail(conns[c].inbox)[i] = conns[c].inbox[i + 1]
  BY <1>1, <1>2, <1>3, HeadTailProperties
<1>5. /\ Head(conns[c].inbox) = conns[c].inbox[1] /\ 1 \in DOMAIN conns[c].inbox
      /\ Len(conns[c].inbox) \in Nat /\ DOMAIN conns[c].inbox = 1 .. Len(conns[c].inbox)
  <2>1. conns[c].inbox \in Seq(Push)
    BY <1>1, <1>3
  <2> QED BY <2>1, <1>2
<1>6. PICK rest \in Seq(Push) : rest = Tail(conns[c].inbox)
  BY <1>4
<1>7. PICK n : n = [conns[c] EXCEPT !.inbox = rest]
  OBVIOUS
<1>8. /\ n \in Conn /\ n.idx = conns[c].idx /\ n.up = conns[c].up /\ n.subs = conns[c].subs
      /\ n.inbox = rest
  <2> HIDE DEF Clients, Pairs
  <2> QED BY <1>1, <1>7 DEF Conn
<1>9. conns' = [conns EXCEPT ![c] = n]
  BY <1>1, <1>2, <1>6, <1>7
<1>10. /\ conns' \in Seq(Conn) /\ Len(conns') = Len(conns)
       /\ \A d \in 1 .. Len(conns) : conns'[d] = IF d = c THEN n ELSE conns[d]
  BY <1>1, <1>8, <1>9, OneReplaced
<1>11. \A d \in 1 .. Len(conns) : ~conns[d].up => conns[d].subs = {} /\ conns[d].inbox = <<>>
  BY <1>1 DEF Sound, TypeOK
<1>12. conns[c].up
  BY <1>1, <1>2, <1>11
<1>13. ASSUME NEW d \in 1 .. Len(conns), NEW i \in DOMAIN conns'[d].inbox
       PROVE  /\ i \in Nat /\ i >= 1 /\ Was(c, d, i) \in DOMAIN conns[d].inbox
              /\ conns'[d].inbox[i] = conns[d].inbox[Was(c, d, i)]
              /\ conns'[d].inbox[i] \in Push
  <2>1. CASE d = c
    <3>1. conns'[d].inbox = rest /\ DOMAIN rest = 1 .. Len(rest) /\ Len(rest) = Len(conns[c].inbox) - 1
      BY <1>4, <1>6, <1>8, <1>10, <2>1
    <3>2. i \in 1 .. Len(rest) /\ i + 1 \in 1 .. Len(conns[c].inbox)
      BY <1>5, <1>13, <3>1
    <3>3. rest[i] \in Push /\ rest[i] = conns[c].inbox[i + 1]
      BY <1>4, <1>6, <3>2
    <3> QED BY <2>1, <3>1, <3>2, <3>3, <1>5 DEF Was
  <2>2. CASE d # c
    <3>1. conns'[d].inbox = conns[d].inbox /\ conns[d].inbox \in Seq(Push)
      BY <1>3, <1>10, <2>2
    <3>2. i \in 1 .. Len(conns[d].inbox) /\ conns[d].inbox[i] \in Push
      BY <1>13, <3>1
    <3> QED BY <2>2, <3>1, <3>2 DEF Was
  <2> QED BY <2>1, <2>2
<1>14. \A d \in 1 .. Len(conns) :
         /\ conns'[d].idx = conns[d].idx /\ conns'[d].subs = conns[d].subs
         /\ ~conns'[d].up => conns'[d].subs = {} /\ conns'[d].inbox = <<>>
  BY <1>8, <1>10, <1>11, <1>12
<1> QED BY <1>4, <1>5, <1>10, <1>13, <1>14

\* What a push does to the books: nothing, or apply_orderbook_delta.  edgex dates
\* it by the clock, the others by its version's date.
Applies(push, milli, whole, sized) ==
  /\ ApplyOrderbookDelta(push, milli, whole, sized)
  /\ whole \/ ex = "phemex"
  /\ sized \/ (ex \notin {"edgex", "hyperliquid"} /\ push.p > known)
  /\ IF ex = "edgex" THEN milli \in Times /\ clock' = milli /\ stepped' = (stepped \/ milli < clock)
     ELSE milli = Milli(push.p, push.k) /\ UNCHANGED <<clock, stepped>>

LEMMA AppliesIs ==
  ASSUME Sound, NEW push \in Push, NEW milli \in Nat, NEW whole \in BOOLEAN, NEW sized \in BOOLEAN,
         Applies(push, milli, whole, sized)
  PROVE  /\ books' \in [Pairs -> Book] /\ got' \in [Pairs -> 0 .. MaxTicks]
         /\ \A q \in Pairs : q # push.p => books'[q] = books[q] /\ got'[q] = got[q]
         /\ got'[push.p] = IF got[push.p] < push.k THEN push.k ELSE got[push.p]
         /\ \/ milli < books[push.p].milli /\ books'[push.p] = books[push.p]
            \/ /\ ~(milli < books[push.p].milli)
               /\ books'[push.p] = [milli |-> milli, k |-> push.k, whole |-> whole, sized |-> sized]
         /\ clock' \in Times /\ stepped' \in BOOLEAN
<1>1. /\ books \in [Pairs -> Book] /\ got \in [Pairs -> 0 .. MaxTicks] /\ MaxTicks \in Nat
      /\ clock \in Times /\ stepped \in BOOLEAN
  BY Typed
<1>2. push.p \in Pairs /\ push.k \in 1 .. MaxTicks /\ push.k \in Nat
  BY <1>1 DEF Push
<1>3. PICK b : b = [milli |-> milli, k |-> push.k, whole |-> whole, sized |-> sized]
  OBVIOUS
<1>4. b \in Book
  BY <1>2, <1>3 DEF Book
<1>5. got[push.p] \in Nat /\ got[push.p] \in 0 .. MaxTicks
  BY <1>1, <1>2
<1>6. /\ books' = IF milli < books[push.p].milli THEN books ELSE [books EXCEPT ![push.p] = b]
      /\ got' = [got EXCEPT ![push.p] = Max({got[push.p], push.k})]
  BY <1>3, Zenon DEF Applies, ApplyOrderbookDelta
<1>7. PICK m \in 0 .. MaxTicks : /\ m = Max({got[push.p], push.k})
                                 /\ m = IF got[push.p] < push.k THEN push.k ELSE got[push.p]
  <2>1. Max({got[push.p], push.k}) = IF got[push.p] < push.k THEN push.k ELSE got[push.p]
    BY <1>2, <1>5, LargerOf
  <2> QED BY <2>1, <1>1, <1>2, <1>5
<1>8. got' = [got EXCEPT ![push.p] = m]
  BY <1>6, <1>7
<1>9. /\ got' \in [Pairs -> 0 .. MaxTicks] /\ got'[push.p] = m
      /\ \A q \in Pairs : q # push.p => got'[q] = got[q]
  BY <1>1, <1>2, <1>8
<1>10. CASE milli < books[push.p].milli
  <2>1. books' = books
    BY <1>6, <1>10
  <2>2. clock' \in Times /\ stepped' \in BOOLEAN
    BY <1>1 DEF Applies
  <2> QED BY <1>1, <1>7, <1>9, <1>10, <2>1, <2>2
<1>11. CASE ~(milli < books[push.p].milli)
  <2>1. books' = [books EXCEPT ![push.p] = b]
    BY <1>6, <1>11
  <2>2. /\ books' \in [Pairs -> Book] /\ books'[push.p] = b
        /\ \A q \in Pairs : q # push.p => books'[q] = books[q]
    BY <1>1, <1>2, <1>4, <2>1
  <2>3. clock' \in Times /\ stepped' \in BOOLEAN
    BY <1>1 DEF Applies
  <2> QED BY <1>3, <1>7, <1>9, <1>11, <2>2, <2>3
<1> QED BY <1>10, <1>11

\* What becomes of the books.
LEMMA BooksApplied ==
  ASSUME Sound, NEW c \in DOMAIN conns, NEW push \in Push, push = conns[c].inbox[1],
         1 \in DOMAIN conns[c].inbox,
         NEW milli \in Nat, NEW whole \in BOOLEAN, NEW sized \in BOOLEAN,
         Applies(push, milli, whole, sized),
         UNCHANGED <<ex, known, refreshes, market, params, subscribes>>
  PROVE  /\ \A q \in Pairs : got'[q] <= Len(market[q])
         /\ Dated' /\ Filled'
         /\ subscribes < 2 /\ Steady' => \A q \in Pairs : books'[q].k = got'[q]
<1>1. /\ books \in [Pairs -> Book] /\ got \in [Pairs -> 0 .. MaxTicks] /\ MaxTicks \in Nat
      /\ clock \in Nat /\ stepped \in BOOLEAN 
      /\ \A q \in Pairs : Len(market[q]) \in 0 .. MaxTicks
  BY Typed
<1>2. push.p \in Pairs /\ push.k \in 1 .. MaxTicks /\ push.k \in Nat
  BY <1>1 DEF Push
<1>3. /\ \A q \in Pairs : q # push.p => books'[q] = books[q] /\ got'[q] = got[q]
      /\ got'[push.p] = IF got[push.p] < push.k THEN push.k ELSE got[push.p]
      /\ \/ milli < books[push.p].milli /\ books'[push.p] = books[push.p]
         \/ /\ ~(milli < books[push.p].milli)
            /\ books'[push.p] = [milli |-> milli, k |-> push.k, whole |-> whole, sized |-> sized]
  BY AppliesIs
<1>4. /\ books[push.p] \in Book /\ got[push.p] \in Nat /\ books[push.p].milli \in Nat
  BY <1>1, <1>2 DEF Book
<1>5. /\ whole \/ ex = "phemex"
      /\ sized \/ (ex \notin {"edgex", "hyperliquid"} /\ push.p > known)
      /\ ex = "edgex" => milli \in Times /\ clock' = milli /\ stepped' = (stepped \/ milli < clock)
      /\ ex # "edgex" => milli = Milli(push.p, push.k) /\ clock' = clock /\ stepped' = stepped
  BY DEF Applies
<1>6. ASSUME NEW q \in Pairs PROVE got'[q] <= Len(market[q])
  <2>1. push.k <= Len(market[push.p]) /\ got[q] <= Len(market[q])
    BY DEF Sound, Behind
  <2>2. CASE q = push.p
    BY <1>3, <2>1, <2>2
  <2>3. CASE q # push.p
    BY <1>3, <2>1, <2>3
  <2> QED BY <2>2, <2>3
<1>7. Filled'
  <2>1. ASSUME NEW q \in Pairs
        PROVE  /\ books'[q].whole \/ ex = "phemex"
               /\ books'[q].sized \/ (ex \notin {"edgex", "hyperliquid"} /\ (q > known \/ refreshes > 0))
    <3>1. CASE books'[q] = books[q]
      BY <3>1 DEF Sound, Filled
    <3>2. CASE /\ q = push.p
               /\ books'[push.p] = [milli |-> milli, k |-> push.k, whole |-> whole, sized |-> sized]
      <4>1. books'[q].whole = whole /\ books'[q].sized = sized
        BY <3>2
      <4> QED BY <1>5, <3>2, <4>1
    <3> QED BY <1>3, <3>1, <3>2
  <2> QED BY <2>1 DEF Filled
<1>8. ASSUME ex # "edgex", NEW q \in Pairs PROVE books'[q].milli = Milli(q, got'[q])
  <2>1. books[q].milli = Milli(q, got[q]) /\ books[push.p].milli = Milli(push.p, got[push.p])
    BY <1>2, <1>8 DEF Sound, Dated
  <2>2. /\ push.k \in 0 .. Len(market[push.p]) /\ got[push.p] \in 0 .. Len(market[push.p])
        /\ milli = Milli(push.p, push.k)
    <3>1. push.k <= Len(market[push.p]) /\ got[push.p] <= Len(market[push.p])
      BY <1>2 DEF Sound, Behind
    <3> QED BY <1>1, <1>2, <1>4, <1>5, <1>8, <3>1
  <2>3. CASE q # push.p
    BY <1>3, <2>1, <2>3
  <2>4. CASE q = push.p /\ milli < books[push.p].milli /\ books'[push.p] = books[push.p]
    <3>1. ~(got[push.p] < push.k)
      <4>1. ASSUME got[push.p] < push.k PROVE FALSE
        <5>1. got[push.p] <= push.k
          BY <1>2, <1>4, <4>1
        <5>2. Milli(push.p, got[push.p]) <= Milli(push.p, push.k)
          BY <1>2, <2>2, <5>1 DEF Sound, Rising
        <5> QED BY <1>4, <2>1, <2>2, <2>4, <5>2
      <4> QED BY <4>1
    <3> QED BY <1>3, <2>1, <2>4, <3>1
  <2>5. CASE /\ q = push.p /\ ~(milli < books[push.p].milli)
             /\ books'[push.p] = [milli |-> milli, k |-> push.k, whole |-> whole, sized |-> sized]
    <3>1. books'[q].milli = milli
      BY <2>5
    <3>2. CASE got[push.p] < push.k
      BY <1>3, <2>2, <2>5, <3>1, <3>2
    <3>3. CASE ~(got[push.p] < push.k)
      <4>1. push.k <= got[push.p]
        BY <1>2, <1>4, <3>3
      <4>2. Milli(push.p, push.k) <= Milli(push.p, got[push.p])
        BY <1>2, <2>2, <4>1 DEF Sound, Rising
      <4>3. milli = books[push.p].milli
        BY <1>4, <2>1, <2>2, <2>5, <4>2
      <4> QED BY <1>3, <2>1, <2>5, <3>1, <3>3, <4>3
    <3> QED BY <3>2, <3>3
  <2> QED BY <1>3, <2>3, <2>4, <2>5
<1>9. ASSUME ex = "edgex", ~stepped'
      PROVE  /\ ~stepped /\ clock <= milli /\ clock' = milli
             /\ \A q \in Pairs : books[q].milli <= clock
  <2>1. clock' = milli /\ stepped' = (stepped \/ milli < clock)
    BY <1>5, <1>9
  <2>2. ~stepped /\ ~(milli < clock)
    BY <1>9, <2>1, Zenon
  <2>3. clock <= milli
    BY <1>1, <2>2
  <2> QED BY <1>9, <2>1, <2>2, <2>3 DEF Sound, Dated
<1>10. ASSUME ex = "edgex", ~stepped', NEW q \in Pairs PROVE books'[q].milli <= clock'
  <2>1. books[q].milli \in Nat /\ books[q].milli <= clock
    BY <1>1, <1>9, <1>10 DEF Book
  <2>2. CASE books'[q] = books[q]
    BY <1>1, <1>9, <1>10, <2>1, <2>2
  <2>3. CASE /\ q = push.p
             /\ books'[push.p] = [milli |-> milli, k |-> push.k, whole |-> whole, sized |-> sized]
    BY <1>9, <1>10, <2>3
  <2> QED BY <1>3, <2>2, <2>3
<1>11. Dated'
  <2>1. ASSUME ex # "edgex", NEW q \in Pairs PROVE books'[q].milli = Milli(q, got[q])'
    BY <1>8, <2>1 DEF Milli
  <2> QED BY <1>10, <2>1 DEF Dated
<1>12. ASSUME subscribes < 2, Steady', NEW q \in Pairs PROVE books'[q].k = got'[q]
  <2>1. ex = "edgex" => ~stepped'
    BY <1>12 DEF Steady
  <2>2. Steady
    BY <1>9, <2>1 DEF Steady
  <2>3. books[q].k = got[q]
    BY <1>12, <2>2 DEF Sound, OneFeed
  <2>4. CASE q # push.p
    BY <1>3, <2>3, <2>4
  <2>5. CASE q = push.p
    <3>1. got[push.p] < push.k
      BY <1>12 DEF Sound, OneFeed
    <3>2. ~(milli < books[push.p].milli)
      <4>1. CASE ex = "edgex"
        BY <1>1, <1>2, <1>4, <1>9, <2>1, <4>1
      <4>2. CASE ex # "edgex"
        <5>1. books'[q].milli = Milli(q, push.k) /\ milli = Milli(q, push.k)
          BY <1>3, <1>5, <1>8, <2>5, <3>1, <4>2
        <5> QED BY <1>3, <1>4, <2>5, <5>1
      <4> QED BY <4>1, <4>2
    <3>3. books'[push.p] = [milli |-> milli, k |-> push.k, whole |-> whole, sized |-> sized]
      BY <1>3, <3>2
    <3> QED BY <1>3, <2>5, <3>1, <3>3
  <2> QED BY <2>4, <2>5
<1> QED BY <1>6, <1>7, <1>11, <1>12

LEMMA Reads ==
  ASSUME Sound, harm = "no", NEW c \in DOMAIN conns, TakePush(c),
         \/ UNCHANGED <<books, got, clock, stepped>>
         \/ \E milli \in Nat, whole \in BOOLEAN, sized \in BOOLEAN :
              Applies(Head(conns[c].inbox), milli, whole, sized)
  PROVE  Sound'
<1>1. UNCHANGED <<ex, limit, known, refreshes, handler, params, timers, freed, harm, subscribes,
                  unsubscribes, since, wanted, skipped, market, drops>>
  BY DEF TakePush, callVars, tableVars
<1>2. /\ conns' \in Seq(Conn) /\ Len(conns') = Len(conns)
      /\ Head(conns[c].inbox) \in Push /\ 1 \in DOMAIN conns[c].inbox
      /\ Head(conns[c].inbox) = conns[c].inbox[1]
      /\ \A d \in 1 .. Len(conns) :
           /\ conns'[d].idx = conns[d].idx /\ conns'[d].subs = conns[d].subs
           /\ ~conns'[d].up => conns'[d].subs = {} /\ conns'[d].inbox = <<>>
           /\ \A i \in DOMAIN conns'[d].inbox :
                /\ i \in Nat /\ i >= 1 /\ Was(c, d, i) \in DOMAIN conns[d].inbox
                /\ conns'[d].inbox[i] = conns[d].inbox[Was(c, d, i)]
                /\ conns'[d].inbox[i] \in Push
  BY Taken
<1>3. PICK push \in Push : push = Head(conns[c].inbox) /\ push = conns[c].inbox[1]
  BY <1>2
<1>4. /\ DOMAIN conns = 1 .. Len(conns) /\ Len(conns) \in Nat /\ DOMAIN params = 1 .. Len(params)
      /\ books \in [Pairs -> Book] /\ got \in [Pairs -> 0 .. MaxTicks] /\ MaxTicks \in Nat
      /\ clock \in Times /\ stepped \in BOOLEAN /\ c \in 1 .. Len(conns)
      /\ params \in Seq(Parts) /\ limit \in Nat \ {0}
  BY Typed
<1>5. DOMAIN conns' = 1 .. Len(conns)
  BY <1>2
<1>6. /\ books' \in [Pairs -> Book] /\ got' \in [Pairs -> 0 .. MaxTicks]
      /\ clock' \in Times /\ stepped' \in BOOLEAN
      /\ Dated' /\ Filled' /\ \A q \in Pairs : got'[q] <= Len(market[q])
      /\ subscribes < 2 /\ Steady' => \A q \in Pairs : books'[q].k = got'[q]
      /\ \A q \in Pairs : q # push.p => got'[q] = got[q]
      /\ got'[push.p] = got[push.p] \/ got'[push.p] = push.k
  <2>1. CASE UNCHANGED <<books, got, clock, stepped>>
    <3>1. Dated' /\ Filled'
      BY <1>1, <2>1 DEF Sound, Dated, Filled, Milli
    <3>2. \A q \in Pairs : got'[q] <= Len(market[q])
      BY <2>1 DEF Sound, Behind
    <3>3. subscribes < 2 /\ Steady' => \A q \in Pairs : books'[q].k = got'[q]
      BY <1>1, <2>1 DEF Sound, OneFeed, Steady
    <3> QED BY <1>4, <2>1, <3>1, <3>2, <3>3
  <2>2. CASE \E milli \in Nat, whole \in BOOLEAN, sized \in BOOLEAN : Applies(push, milli, whole, sized)
    <3>1. PICK milli \in Nat, whole \in BOOLEAN, sized \in BOOLEAN : Applies(push, milli, whole, sized)
      BY <2>2
    <3>2. /\ books' \in [Pairs -> Book] /\ got' \in [Pairs -> 0 .. MaxTicks]
          /\ \A q \in Pairs : q # push.p => got'[q] = got[q]
          /\ got'[push.p] = IF got[push.p] < push.k THEN push.k ELSE got[push.p]
          /\ clock' \in Times /\ stepped' \in BOOLEAN
      BY <3>1, AppliesIs
    <3>3. /\ \A q \in Pairs : got'[q] <= Len(market[q])
          /\ Dated' /\ Filled'
          /\ subscribes < 2 /\ Steady' => \A q \in Pairs : books'[q].k = got'[q]
      BY <1>1, <1>2, <1>3, <3>1, BooksApplied
    <3> QED BY <3>2, <3>3
  <2> QED BY <1>3, <2>1, <2>2
<1>7. TypeOK'
  <2>1. \A d \in DOMAIN conns' : ~conns'[d].up => conns'[d].subs = {} /\ conns'[d].inbox = <<>>
    BY <1>2, <1>5
  <2>2. conns' \in Seq(Conn)
    BY <1>2 DEF Conn
  <2>3. {handler', freed', stepped'} \subseteq BOOLEAN
    BY <1>1, <1>6 DEF Sound, TypeOK
  <2>4. books' \in [Pairs -> [milli : Nat, k : 0 .. MaxTicks, whole : BOOLEAN, sized : BOOLEAN]]
    BY <1>6 DEF Book
  <2> HIDE DEF Clients, Pairs
  <2> QED BY <1>1, <1>6, <2>1, <2>2, <2>3, <2>4 DEF Sound, TypeOK
<1>8. MemorySafe'
  BY <1>1 DEF MemorySafe
<1>9. conns = <<>> => conns' = <<>>
  BY <1>2, <1>4
<1>10. Counted'
  BY <1>1, <1>9 DEF Sound, Counted
<1>11. Indexed'
  <2>1. \A d \in DOMAIN conns' : d \in DOMAIN conns /\ conns'[d].idx = conns[d].idx
    BY <1>2, <1>4, <1>5
  <2> QED BY <1>1, <1>2, <2>1 DEF Sound, Indexed
<1>12. Behind'
  <2>1. ASSUME NEW d \in DOMAIN conns', NEW i \in DOMAIN conns'[d].inbox
        PROVE  conns'[d].inbox[i].k <= Len(market[conns'[d].inbox[i].p])
    <3>1. Was(c, d, i) \in DOMAIN conns[d].inbox /\ conns'[d].inbox[i] = conns[d].inbox[Was(c, d, i)]
      BY <1>2, <1>5, <2>1
    <3> QED BY <1>4, <1>5, <2>1, <3>1 DEF Sound, Behind
  <2> QED BY <1>1, <1>6, <2>1 DEF Behind
<1>121. Rising'
  BY <1>1 DEF Sound, Rising, Milli
<1>13. OneFeed'
  <2> SUFFICES ASSUME subscribes < 2 PROVE OneFeed'
    BY <1>1 DEF OneFeed
  <2>0. \A d : Carries(d)' = Carries(d)
    BY <1>1 DEF Carries, Flat
  <2>1. /\ subscribes' = 0 => params' = <<>> /\ conns' = <<>>
        /\ \A i, j \in DOMAIN params' : i # j => params'[i] \cap params'[j] = {}
        /\ Steady' => \A q \in Pairs : books'[q].k = got'[q]
    BY <1>1, <1>6, <1>9 DEF Sound, OneFeed
  <2>2. ASSUME NEW d \in DOMAIN conns'
        PROVE  conns'[d].idx = d - 1 /\ conns'[d].subs \subseteq Carries(d)'
    BY <1>2, <1>4, <1>5, <2>0 DEF Sound, OneFeed
  <2>3. ASSUME NEW d \in DOMAIN conns', NEW i \in DOMAIN conns'[d].inbox
        PROVE  LET taken == conns'[d].inbox[i] IN
               /\ taken.p \in Carries(d)' /\ got'[taken.p] < taken.k
               /\ \A j \in DOMAIN conns'[d].inbox :
                    i < j /\ conns'[d].inbox[j].p = taken.p => taken.k < conns'[d].inbox[j].k
    <3>1. d \in 1 .. Len(conns) /\ d \in DOMAIN conns
      BY <1>4, <1>5
    <3>2. PICK e \in Push : e = conns'[d].inbox[i]
      BY <1>2, <3>1
    <3>3. PICK w \in DOMAIN conns[d].inbox : w = Was(c, d, i) /\ conns[d].inbox[w] = e
      BY <1>2, <3>1, <3>2
    <3>4. /\ e.p \in Carries(d) /\ got[e.p] < e.k
          /\ \A j \in DOMAIN conns[d].inbox :
               w < j /\ conns[d].inbox[j].p = e.p => e.k < conns[d].inbox[j].k
      BY <3>1, <3>3 DEF Sound, OneFeed
    <3>5. got'[e.p] < e.k
      <4>1. CASE e.p # push.p
        BY <1>6, <3>2, <3>4, <4>1 DEF Push
      <4>2. CASE e.p = push.p
        <5>1. push.p \in Carries(c) /\
              \A j \in DOMAIN conns[c].inbox : 1 < j /\ conns[c].inbox[j].p = push.p => push.k < conns[c].inbox[j].k
          BY <1>2, <1>3, <1>4 DEF Sound, OneFeed
        <5>2. d = c
          <6>1. d # c => Carries(d) \cap Carries(c) = {}
            <7>1. c \in Nat \ {0} /\ d \in Nat \ {0}
              BY <1>4, <3>1
            <7>2. \A g, h \in DOMAIN params : g # h => params[g] \cap params[h] = {}
              BY DEF Sound, OneFeed
            <7> QED BY <1>4, <7>1, <7>2, CarriesDisjoint
          <6> QED BY <3>4, <4>2, <5>1, <6>1
        <5>3. i \in Nat /\ i >= 1 /\ w = i + 1
          BY <1>2, <3>1, <3>3, <5>2 DEF Was
        <5>4. push.k < e.k
          BY <3>3, <4>2, <5>1, <5>2, <5>3
        <5> QED BY <1>6, <3>4, <4>2, <5>4
      <4> QED BY <4>1, <4>2
    <3>6. ASSUME NEW j \in DOMAIN conns'[d].inbox, i < j, conns'[d].inbox[j].p = e.p
          PROVE  e.k < conns'[d].inbox[j].k
      <4>1. /\ Was(c, d, j) \in DOMAIN conns[d].inbox /\ j \in Nat /\ i \in Nat
            /\ conns'[d].inbox[j] = conns[d].inbox[Was(c, d, j)]
        BY <1>2, <3>1
      <4>2. w < Was(c, d, j)
        BY <3>3, <3>6, <4>1 DEF Was
      <4> QED BY <3>4, <3>6, <4>1, <4>2
    <3> QED BY <2>0, <3>2, <3>4, <3>5, <3>6
  <2> QED BY <2>1, <2>2, <2>3 DEF OneFeed
<1> QED BY <1>6, <1>7, <1>8, <1>10, <1>11, <1>12, <1>121, <1>13 DEF Sound

-----------------------------------------------------------------------------
(* The six exchanges                                                       *)

\* What is pushed has a date.
LEMMA PushedDates ==
  ASSUME Sound, NEW c \in DOMAIN conns, TakePush(c), NEW push \in Push, push = Head(conns[c].inbox)
  PROVE  Milli(push.p, push.k) \in Nat
<1>1. 1 \in DOMAIN conns[c].inbox /\ push = conns[c].inbox[1]
  BY Taken
<1>2. push.k <= Len(market[push.p])
  BY <1>1 DEF Sound, Behind
<1>21. push.p \in Pairs /\ push.k \in 1 .. MaxTicks
  BY DEF Push
<1>3. push.p \in Pairs /\ Len(market[push.p]) \in Nat /\ push.k \in Nat
  <2>1. MaxTicks \in Nat /\ Len(market[push.p]) \in 0 .. MaxTicks
    BY <1>21, Typed
  <2> QED BY <1>21, <2>1
<1>4. push.k \in 0 .. Len(market[push.p])
  BY <1>2, <1>3
<1> QED BY <1>3, <1>4, MilliIs

\* Five of the six store a push whose sides and amounts are there.
LEMMA ReceiveBookSound ==
  ASSUME Sound, harm = "no", NEW c \in DOMAIN conns, NEW whole \in BOOLEAN,
         ReceiveBook(c, whole), whole \/ ex = "phemex", ex \notin {"edgex", "hyperliquid"}
  PROVE  Sound'
<1>1. PICK push \in Push : push = Head(conns[c].inbox)
  <2>1. TakePush(c)
    BY DEF ReceiveBook
  <2> QED BY <2>1, Taken
<1>2. PICK sized \in BOOLEAN : sized = (push.p <= known)
  <2>1. (push.p <= known) = TRUE \/ (push.p <= known) = FALSE
    BY SMT
  <2> QED BY <2>1, Zenon
<1>3. /\ TakePush(c) /\ ApplyOrderbookDelta(push, Milli(push.p, push.k), whole, sized) /\ UNCHANGED <<clock, stepped>>
  BY <1>1, <1>2 DEF ReceiveBook
<1>4. push.p \in Nat /\ known \in Nat /\ Milli(push.p, push.k) \in Nat
  <2>1. NumPairs \in Nat /\ known \in 0 .. NumPairs
    BY Typed
  <2> QED BY <1>1, <1>3, <2>1, PushedDates DEF Push, Pairs
<1>5. sized \/ push.p > known
  <2>1. push.p <= known \/ push.p > known
    BY <1>4
  <2> QED BY <1>2, <2>1
<1>6. Applies(push, Milli(push.p, push.k), whole, sized)
  BY <1>3, <1>5 DEF Applies
<1> QED BY <1>1, <1>3, <1>4, <1>6, Reads

LEMMA RequestedAre ==
  ASSUME Sound, NEW n \in Requests
  PROVE  Asked(n) \in 0 .. NumPairs /\ Asked(n) \in Nat /\ Asked(n) <= NumPairs
<1>1. NumPairs \in Nat /\ known \in 0 .. NumPairs
  BY Typed
<1> QED BY <1>1 DEF Asked, Requests

LEMMA NumberIs ==
  ASSUME Sound, NEW c \in DOMAIN conns
  PROVE  conns[c].idx \in Nat /\ conns[c].idx \in Clients
<1>1. conns[c] \in Conn /\ NumPairs \in Nat /\ MaxEvents \in Nat
  BY Typed
<1>2. conns[c].idx \in Clients
  <2> HIDE DEF Clients
  <2> QED BY <1>1 DEF Conn
<1> QED BY <1>1, <1>2 DEF Clients

LEMMA TimersAre == ASSUME Sound PROVE DOMAIN timers = Clients
<1>1. timers \in [Clients -> Nat]
  BY Typed
<1> QED BY <1>1

LEMMA KucoinSound ==
  ASSUME Sound, harm = "no", KucoinNext
  PROVE  Sound'
<1>1. ASSUME NEW n \in Requests, KucoinSubscribe(n) PROVE Sound'
  <2>1. PICK asked \in Nat : asked = Asked(n) /\ asked \in 0 .. NumPairs
    BY RequestedAre
  <2>2. /\ limit \in Nat \ {0} /\ Len(params) \in Nat /\ NumPairs \in Nat
    BY Typed
  <2>3. PICK new \in Seq(Parts) :
          /\ new = Singles(asked) /\ Len(new) = asked
          /\ \A i, j \in 1 .. Len(new) : i # j => new[i] \cap new[j] = {}
    BY <2>1, SinglesAre
  <2>4. PICK clients \in Nat : clients = FlatClients(asked) /\ clients <= asked + 1
    <3>1. asked \div limit \in Nat /\ asked \div limit <= asked
      BY <2>1, <2>2, Quotients
    <3> QED BY <2>1, <3>1 DEF FlatClients
  <2>5. ex = "kucoin" /\ Subscribe(n, new, clients)
    BY <1>1, <2>1, <2>3, <2>4 DEF KucoinSubscribe
  <2>6. Len(new) <= Len(params) + NumPairs /\ clients <= Len(params) + NumPairs + 1
    BY <2>1, <2>2, <2>3, <2>4
  <2> QED BY <2>3, <2>5, <2>6, Opens
<1>2. ASSUME KucoinUnsubscribe PROVE Sound'
  BY <1>2, UnsubscribeSound DEF KucoinUnsubscribe
<1>3. ASSUME NEW i \in DOMAIN timers, KucoinTimer(i) PROVE Sound'
  <2>1. i \in Clients /\ i \in Nat
    <3>1. NumPairs \in Nat /\ MaxEvents \in Nat
      BY Typed
    <3> QED BY <1>3, <3>1, TimersAre DEF Clients
  <2>2. Flat(i) \in SUBSET Pairs
    <3>1. params \in Seq(Parts) /\ limit \in Nat \ {0}
      BY Typed
    <3>2. Flat(i) \subseteq Pairs
      BY <2>1, <3>1, FlatIsPairs
    <3> QED BY <3>2
  <2>3. TimerSends(i, Flat(i)) /\ Flat(i) = Carries(i + 1)
    <3>1. (i + 1) - 1 = i
      BY <2>1
    <3> QED BY <1>3, <3>1 DEF KucoinTimer, Carries
  <2> QED BY <2>1, <2>2, <2>3, TimerSendsSound
<1>4. ASSUME NEW c \in DOMAIN conns, KucoinConnected(c) PROVE Sound'
  BY <1>4, ConnectedDelaysSound DEF KucoinConnected
<1>5. ASSUME NEW c \in DOMAIN conns, KucoinReceive(c) PROVE Sound'
  BY <1>5, ReceiveBookSound DEF KucoinReceive
<1> QED BY <1>1, <1>2, <1>3, <1>4, <1>5 DEF KucoinNext

LEMMA ToobitSound ==
  ASSUME Sound, harm = "no", ToobitNext
  PROVE  Sound'
<1>1. ASSUME NEW n \in Requests, ToobitSubscribe(n) PROVE Sound'
  <2>1. PICK asked \in Nat : asked = Asked(n) /\ asked \in 0 .. NumPairs
    BY RequestedAre
  <2>2. /\ limit \in Nat \ {0} /\ Len(params) \in Nat /\ NumPairs \in Nat
    BY Typed
  <2>3. PICK new \in Seq(Parts) :
          /\ new = Groups(asked) /\ Len(new) \in 0 .. asked
          /\ \A i, j \in 1 .. Len(new) : i # j => new[i] \cap new[j] = {}
    BY <2>1, <2>2, GroupsAre
  <2>4. ex = "toobit" /\ Subscribe(n, new, Len(new))
    BY <1>1, <2>1, <2>3 DEF ToobitSubscribe
  <2>5. /\ Len(new) <= Len(params) + NumPairs /\ Len(new) <= Len(params) + NumPairs + 1
        /\ Len(new) \in Nat
    BY <2>1, <2>2, <2>3
  <2> QED BY <2>3, <2>4, <2>5, Opens
<1>2. ASSUME ToobitUnsubscribe PROVE Sound'
  BY <1>2, UnsubscribeSound DEF ToobitUnsubscribe
<1>3. ASSUME NEW c \in DOMAIN conns, ToobitConnected(c) PROVE Sound'
  <2>1. conns[c].idx \in Nat /\ params \in Seq(Parts) /\ since \in Nat
    BY <1>3, NumberIs, Typed
  <2>2. CASE conns[c].idx < Len(params)
    <3>1. params[conns[c].idx + 1] \in SUBSET Pairs
      <4>1. conns[c].idx + 1 \in 1 .. Len(params)
        BY <2>1, <2>2
      <4>2. params[conns[c].idx + 1] \in Parts
        BY <2>1, <4>1
      <4> QED BY <4>2 DEF Parts
    <3>2. ConnectedSends(c, params[conns[c].idx + 1]) /\ ex = "toobit"
      BY <1>3, <2>2 DEF ToobitConnected
    <3>3. params[conns[c].idx + 1] = Carries(conns[c].idx + 1)
      <4>1. conns[c].idx + 1 \in DOMAIN params
        BY <2>1, <2>2
      <4> QED BY <3>2, <4>1 DEF Carries
    <3> QED BY <1>3, <3>1, <3>2, <3>3, ConnectedSendsSound
  <2>3. CASE ~(conns[c].idx < Len(params))
    <3>1. ex = "toobit" /\ Harmed("index")
      BY <1>3, <2>3 DEF ToobitConnected
    <3>2. since > 1
      BY <1>3, <2>1, <2>3, <3>1 DEF Sound, Indexed
    <3> QED BY <3>1, <3>2, Harms
  <2> QED BY <2>2, <2>3
<1>4. ASSUME NEW c \in DOMAIN conns, ToobitReceive(c) PROVE Sound'
  BY <1>4, ReceiveBookSound DEF ToobitReceive
<1> QED BY <1>1, <1>2, <1>3, <1>4 DEF ToobitNext

\* aster and phemex add the groups to those there are.
LEMMA GroupsAdded ==
  ASSUME Sound, NEW n \in Requests
  PROVE  LET all == params \o Groups(Asked(n)) IN
         /\ all \in Seq(Parts) /\ Len(all) \in Nat
         /\ Len(params) <= Len(all) /\ Len(all) <= Len(params) + NumPairs
         /\ subscribes = 0 => \A i, j \in 1 .. Len(all) : i # j => all[i] \cap all[j] = {}
<1>1. PICK asked \in Nat : asked = Asked(n) /\ asked \in 0 .. NumPairs
  BY RequestedAre
<1>2. /\ limit \in Nat \ {0} /\ Len(params) \in Nat /\ NumPairs \in Nat /\ params \in Seq(Parts)
  BY Typed
<1>3. PICK new \in Seq(Parts) :
        /\ new = Groups(asked) /\ Len(new) \in 0 .. asked
        /\ \A i, j \in 1 .. Len(new) : i # j => new[i] \cap new[j] = {}
  BY <1>1, <1>2, GroupsAre
<1>4. params \o new \in Seq(Parts) /\ Len(params \o new) = Len(params) + Len(new)
  BY <1>2, <1>3, ConcatProperties
<1>5. /\ Len(params) + Len(new) \in Nat /\ Len(params) <= Len(params) + Len(new)
      /\ Len(params) + Len(new) <= Len(params) + NumPairs
  BY <1>1, <1>2, <1>3
<1>6. subscribes = 0 => params \o new = new
  <2>1. subscribes = 0 => params = <<>>
    BY DEF Sound, OneFeed
  <2> QED BY <1>3, <2>1, ConcatEmptySeq
<1> QED BY <1>1, <1>3, <1>4, <1>5, <1>6

LEMMA PhemexSound ==
  ASSUME Sound, harm = "no", PhemexNext
  PROVE  Sound'
<1>1. ASSUME NEW n \in Requests, PhemexSubscribe(n) PROVE Sound'
  <2>1. PICK all \in Seq(Parts) :
          /\ all = params \o Groups(Asked(n)) /\ Len(all) \in Nat
          /\ Len(params) <= Len(all) /\ Len(all) <= Len(params) + NumPairs
          /\ subscribes = 0 => \A i, j \in 1 .. Len(all) : i # j => all[i] \cap all[j] = {}
    BY GroupsAdded
  <2>2. ex = "phemex" /\ Subscribe(n, all, Len(all))
    BY <1>1, <2>1 DEF PhemexSubscribe
  <2>3. Len(all) <= Len(params) + NumPairs + 1
    <3>1. Len(params) \in Nat /\ NumPairs \in Nat
      BY Typed
    <3> QED BY <2>1, <3>1
  <2> QED BY <2>1, <2>2, <2>3, Opens
<1>2. ASSUME PhemexUnsubscribe PROVE Sound'
  BY <1>2, UnsubscribeSound DEF PhemexUnsubscribe
<1>3. ASSUME NEW i \in DOMAIN timers, PhemexTimer(i) PROVE Sound'
  BY <1>3, TimersAre, TimerSendsGroupSound DEF PhemexTimer
<1>4. ASSUME NEW c \in DOMAIN conns, PhemexConnected(c) PROVE Sound'
  BY <1>4, ConnectedDelaysSound DEF PhemexConnected
<1>5. ASSUME NEW c \in DOMAIN conns, PhemexReceive(c) PROVE Sound'
  BY <1>5, ReceiveBookSound DEF PhemexReceive
<1> QED BY <1>1, <1>2, <1>3, <1>4, <1>5 DEF PhemexNext

LEMMA AsterSound ==
  ASSUME Sound, harm = "no", AsterNext
  PROVE  Sound'
<1>1. ASSUME NEW n \in Requests, AsterSubscribe(n) PROVE Sound'
  <2>1. PICK all \in Seq(Parts) :
          /\ all = params \o Groups(Asked(n)) /\ Len(all) \in Nat
          /\ Len(params) <= Len(all) /\ Len(all) <= Len(params) + NumPairs
          /\ subscribes = 0 => \A i, j \in 1 .. Len(all) : i # j => all[i] \cap all[j] = {}
    BY GroupsAdded
  <2>2. ex = "aster" /\ Subscribe(n, all, Len(all))
    BY <1>1, <2>1 DEF AsterSubscribe
  <2>3. Len(all) <= Len(params) + NumPairs + 1
    <3>1. Len(params) \in Nat /\ NumPairs \in Nat
      BY Typed
    <3> QED BY <2>1, <3>1
  <2> QED BY <2>1, <2>2, <2>3, Opens
<1>2. ASSUME AsterUnsubscribe PROVE Sound'
  BY <1>2, UnsubscribeSound DEF AsterUnsubscribe
<1>3. ASSUME NEW c \in DOMAIN conns, AsterConnected(c) PROVE Sound'
  <2>1. /\ ex = "aster" /\ ConnectedSends(c, params[conns[c].idx + 1])
        /\ conns[c].idx \in Nat /\ params \in Seq(Parts) /\ conns[c].idx < Len(params)
    BY <1>3, NumberIs, Typed DEF AsterConnected, Sound, Indexed
  <2>2. conns[c].idx + 1 \in 1 .. Len(params)
    BY <2>1
  <2>3. params[conns[c].idx + 1] \in Parts
    BY <2>1, <2>2
  <2>4. params[conns[c].idx + 1] \in SUBSET Pairs
    BY <2>3 DEF Parts
  <2>5. params[conns[c].idx + 1] = Carries(conns[c].idx + 1)
    BY <2>1, <2>2 DEF Carries
  <2> QED BY <1>3, <2>1, <2>4, <2>5, ConnectedSendsSound
<1>4. ASSUME NEW c \in DOMAIN conns, AsterReceive(c) PROVE Sound'
  BY <1>4, ReceiveBookSound DEF AsterReceive
<1> QED BY <1>1, <1>2, <1>3, <1>4 DEF AsterNext

LEMMA EdgexSound ==
  ASSUME Sound, harm = "no", EdgexNext
  PROVE  Sound'
<1>1. ASSUME NEW n \in Requests, EdgexSubscribe(n) PROVE Sound'
  <2>1. PICK asked \in Nat : asked = Asked(n) /\ asked \in 0 .. NumPairs
    BY RequestedAre
  <2>2. /\ limit \in Nat \ {0} /\ Len(params) \in Nat /\ NumPairs \in Nat /\ params \in Seq(Parts)
        /\ known \in Nat
    BY Typed
  <2>3. PICK new \in Seq(Parts) :
          /\ new = EdgexGroups(asked) /\ Len(new) \in 0 .. NumPairs
          /\ \A i, j \in 1 .. Len(new) : i # j => new[i] \cap new[j] = {}
    BY <2>1, <2>2, EdgexGroupsAre
  <2>4. PICK all : all = params \o new
    OBVIOUS
  <2>5. all \in Seq(Parts) /\ Len(all) = Len(params) + Len(new)
    BY <2>2, <2>3, <2>4, ConcatProperties
  <2>6. /\ Len(all) \in Nat /\ Len(params) <= Len(all) /\ Len(all) <= Len(params) + NumPairs
        /\ Len(all) <= Len(params) + NumPairs + 1
    BY <2>2, <2>3, <2>5
  <2>7. ex = "edgex" /\ Subscribe(n, all, Len(all))
    BY <1>1, <2>1, <2>3, <2>4 DEF EdgexSubscribe
  <2>8. ASSUME subscribes = 0
        PROVE  \A i, j \in 1 .. Len(all) : i # j => all[i] \cap all[j] = {}
    <3>1. params = <<>>
      BY <2>7, <2>8 DEF Sound, OneFeed
    <3>2. all = new
      BY <2>3, <2>4, <3>1, ConcatEmptySeq
    <3> QED BY <2>3, <3>2
  <2> QED BY <2>5, <2>6, <2>7, <2>8, Opens
<1>2. ASSUME EdgexUnsubscribe PROVE Sound'
  BY <1>2, UnsubscribeSound DEF EdgexUnsubscribe
<1>3. ASSUME NEW i \in DOMAIN timers, EdgexTimer(i) PROVE Sound'
  BY <1>3, TimersAre, TimerSendsGroupSound DEF EdgexTimer
<1>4. ASSUME NEW c \in DOMAIN conns, EdgexConnected(c) PROVE Sound'
  BY <1>4, ConnectedDelaysSound DEF EdgexConnected
<1>5. ASSUME NEW c \in DOMAIN conns, NEW now \in Times, EdgexReceive(c, now) PROVE Sound'
  <2>1. ex = "edgex" /\ TakePush(c)
    BY <1>5 DEF EdgexReceive
  <2>2. CASE Head(conns[c].inbox).p <= known
    <3>1. now \in Nat
      BY MarketAssumption
    <3>2. /\ ApplyOrderbookDelta(Head(conns[c].inbox), now, TRUE, TRUE)
          /\ clock' = now /\ stepped' = (stepped \/ now < clock)
      BY <1>5, <2>2 DEF EdgexReceive
    <3>3. Applies(Head(conns[c].inbox), now, TRUE, TRUE)
      BY <2>1, <3>2, Zenon DEF Applies
    <3>4. \E milli \in Nat, whole \in BOOLEAN, sized \in BOOLEAN :
            Applies(Head(conns[c].inbox), milli, whole, sized)
      BY <3>1, <3>3
    <3> QED BY <2>1, <3>4, Reads
  <2>3. CASE ~(Head(conns[c].inbox).p <= known)
    <3>1. UNCHANGED <<books, got, clock, stepped>>
      BY <1>5, <2>3 DEF EdgexReceive
    <3> QED BY <2>1, <3>1, Reads
  <2> QED BY <2>2, <2>3
<1> QED BY <1>1, <1>2, <1>3, <1>4, <1>5 DEF EdgexNext

LEMMA HyperliquidSound ==
  ASSUME Sound, harm = "no", HyperliquidNext
  PROVE  Sound'
<1>1. ASSUME NEW n \in Requests, HyperliquidSubscribe(n) PROVE Sound'
  <2>1. PICK asked \in Nat : asked = Asked(n) /\ asked <= NumPairs
    BY RequestedAre
  <2>2. /\ limit \in Nat \ {0} /\ Len(params) \in Nat /\ NumPairs \in Nat /\ params \in Seq(Parts)
        /\ known \in Nat
    BY Typed
  <2>3. PICK m \in 0 .. NumPairs : m = Min({asked, known})
    <3>1. Min({asked, known}) = IF asked < known THEN asked ELSE known
      BY <2>1, <2>2, SmallerOf
    <3>2. Min({asked, known}) \in 0 .. NumPairs
      BY <2>1, <2>2, <3>1
    <3> QED BY <3>2
  <2>4. PICK new \in Seq(Parts) :
          /\ new = Singles(m) /\ Len(new) = m
          /\ \A i, j \in 1 .. Len(new) : i # j => new[i] \cap new[j] = {}
    BY <2>3, SinglesAre
  <2>5. PICK all : all = params \o new
    OBVIOUS
  <2>6. all \in Seq(Parts) /\ Len(all) = Len(params) + m
    <3>1. params \o new \in Seq(Parts) /\ Len(params \o new) = Len(params) + Len(new)
      BY <2>2, ConcatProperties
    <3> QED BY <2>4, <2>5, <3>1
  <2>7. PICK clients \in Nat : clients = FlatClients(Len(all)) /\ clients <= Len(all) + 1
    <3>1. Len(all) \in Nat
      BY <2>6
    <3>2. Len(all) \div limit \in Nat /\ Len(all) \div limit <= Len(all)
      BY <2>2, <3>1, Quotients
    <3> QED BY <3>1, <3>2 DEF FlatClients
  <2>8. ex = "hyperliquid" /\ Subscribe(n, all, clients)
    BY <1>1, <2>1, <2>3, <2>4, <2>5, <2>7 DEF HyperliquidSubscribe
  <2>9. Len(all) <= Len(params) + NumPairs /\ clients <= Len(params) + NumPairs + 1
    BY <2>2, <2>3, <2>6, <2>7
  <2>10. ASSUME subscribes = 0
         PROVE  \A i, j \in 1 .. Len(all) : i # j => all[i] \cap all[j] = {}
    <3>1. params = <<>>
      BY <2>10 DEF Sound, OneFeed
    <3>2. all = new
      BY <2>4, <2>5, <3>1, ConcatEmptySeq
    <3> QED BY <2>4, <3>2
  <2> QED BY <2>6, <2>8, <2>9, <2>10, Opens
<1>2. ASSUME HyperliquidUnsubscribe PROVE Sound'
  BY <1>2, UnsubscribeSound DEF HyperliquidUnsubscribe
<1>3. ASSUME NEW c \in DOMAIN conns, HyperliquidConnected(c) PROVE Sound'
  <2>1. Flat(conns[c].idx) \in SUBSET Pairs
    <3>1. params \in Seq(Parts) /\ limit \in Nat \ {0} /\ conns[c].idx \in Nat
      BY <1>3, NumberIs, Typed
    <3>2. Flat(conns[c].idx) \subseteq Pairs
      BY <3>1, FlatIsPairs
    <3> QED BY <3>2
  <2>2. ConnectedSends(c, Flat(conns[c].idx)) /\ Flat(conns[c].idx) = Carries(conns[c].idx + 1)
    <3>1. (conns[c].idx + 1) - 1 = conns[c].idx
      BY <1>3, NumberIs
    <3> QED BY <1>3, <3>1 DEF HyperliquidConnected, Carries
  <2> QED BY <1>3, <2>1, <2>2, ConnectedSendsSound
<1>4. ASSUME NEW c \in DOMAIN conns, HyperliquidReceive(c) PROVE Sound'
  <2>1. PICK push \in Push : push = Head(conns[c].inbox)
    <3>1. TakePush(c)
      BY <1>4 DEF HyperliquidReceive
    <3> QED BY <1>4, <3>1, Taken
  <2>2. /\ ex = "hyperliquid" /\ TakePush(c) /\ UNCHANGED <<clock, stepped>>
        /\ ApplyOrderbookDelta(push, Milli(push.p, push.k), TRUE, TRUE)
    BY <1>4, <2>1 DEF HyperliquidReceive
  <2>3. Milli(push.p, push.k) \in Nat
    BY <1>4, <2>1, <2>2, PushedDates
  <2>4. Applies(push, Milli(push.p, push.k), TRUE, TRUE)
    BY <2>2 DEF Applies
  <2>5. \E milli \in Nat, whole \in BOOLEAN, sized \in BOOLEAN :
          Applies(Head(conns[c].inbox), milli, whole, sized)
    BY <2>1, <2>3, <2>4
  <2> QED BY <1>4, <2>2, <2>5, Reads
<1> QED BY <1>1, <1>2, <1>3, <1>4 DEF HyperliquidNext

-----------------------------------------------------------------------------
(* The specification                                                       *)

LEMMA InitSound == ASSUME Init PROVE Sound
<1>1. NumPairs \in Nat /\ MaxEvents \in Nat /\ MaxTicks \in Nat
  BY MarketAssumption
<1>2. /\ ex \in Exchanges /\ limit \in Limits /\ refreshes = 0 /\ handler = FALSE
      /\ params = <<>> /\ conns = <<>> /\ timers = [i \in 0 .. MaxEvents * NumPairs |-> 0]
      /\ freed = FALSE /\ harm = "no" /\ subscribes = 0 /\ unsubscribes = 0 /\ since = 0
      /\ wanted = {} /\ skipped = {} /\ market = [p \in Pairs |-> <<>>]
      /\ books = [p \in Pairs |-> [milli |-> 0, k |-> 0, whole |-> TRUE, sized |-> TRUE]]
      /\ got = [p \in Pairs |-> 0] /\ stepped = FALSE /\ drops = 0
  BY Zenon DEF Init
<1>3. known \in 0 .. NumPairs
  <2>1. known \in IF ex = "edgex" THEN Pairs ELSE 0 .. NumPairs
    BY Zenon DEF Init
  <2>2. Pairs \subseteq 0 .. NumPairs
    BY <1>1 DEF Pairs
  <2> QED BY <2>1, <2>2
<1>4. clock \in Times /\ clock \in Nat
  <2>1. clock \in IF ex = "edgex" THEN Times ELSE {Min(Times)}
    BY Zenon DEF Init
  <2>2. clock \in Times
    BY <2>1, EarliestTime
  <2> QED BY <2>2, MarketAssumption
<1>5. /\ market \in [Pairs -> Seq(Nat)] /\ got \in [Pairs -> 0 .. MaxTicks]
      /\ \A p \in Pairs : Len(market[p]) = 0 /\ got[p] = 0
  <2>1. PICK e \in Seq(Nat) : e = <<>> /\ Len(e) = 0
    <3>1. <<>> \in Seq(Nat) /\ Len(<<>>) = 0
      BY EmptySeq
    <3> QED BY <3>1
  <2>2. market = [p \in Pairs |-> e]
    BY <1>2, <2>1
  <2>3. PICK zero \in 0 .. MaxTicks : zero = 0
    BY <1>1
  <2>4. got = [p \in Pairs |-> zero]
    BY <1>2, <2>3
  <2> QED BY <2>1, <2>2, <2>3, <2>4
<1>6. /\ books \in [Pairs -> Book]
      /\ \A p \in Pairs : /\ books[p].milli = 0 /\ books[p].k = 0
                          /\ books[p].whole = TRUE /\ books[p].sized = TRUE
  <2>1. PICK b : b = [milli |-> 0, k |-> 0, whole |-> TRUE, sized |-> TRUE]
    OBVIOUS
  <2>2. PICK zero \in 0 .. MaxTicks : zero = 0
    BY <1>1
  <2>3. b = [milli |-> zero, k |-> zero, whole |-> TRUE, sized |-> TRUE] /\ zero \in Nat
    BY <2>1, <2>2
  <2>4. b \in Book /\ b.milli = 0 /\ b.k = 0 /\ b.whole = TRUE /\ b.sized = TRUE
    BY <2>2, <2>3 DEF Book
  <2>5. books = [p \in Pairs |-> b]
    BY <1>2, <2>1
  <2> QED BY <2>4, <2>5
<1>7. timers \in [Clients -> Nat] /\ \A i \in Clients : timers[i] = 0
  <2>1. timers = [i \in Clients |-> 0]
    BY <1>2 DEF Clients
  <2> QED BY <2>1
<1>8. /\ params \in Seq(Parts) /\ Len(params) = 0 /\ DOMAIN params = {}
      /\ conns \in Seq(Conn) /\ Len(conns) = 0 /\ DOMAIN conns = {}
  BY <1>2, EmptySeq
<1>9. TypeOK
  <2>1. /\ {subscribes, unsubscribes, since} \subseteq 0 .. MaxEvents
        /\ {refreshes, drops} \subseteq 0 .. MaxEvents
    BY <1>1, <1>2
  <2>2. /\ params \in Seq((SUBSET Pairs) \ {{}})
        /\ conns \in Seq(Conn)
        /\ books \in [Pairs -> [milli : Nat, k : 0 .. MaxTicks, whole : BOOLEAN, sized : BOOLEAN]]
    BY <1>6, <1>8 DEF Parts, Conn, Book
  <2> HIDE DEF Clients, Pairs
  <2> QED BY <1>1, <1>2, <1>3, <1>4, <1>5, <1>7, <1>8, <2>1, <2>2 DEF TypeOK
<1>10. MemorySafe
  BY <1>2 DEF MemorySafe
<1>11. Counted
  <2>1. 0 * NumPairs = 0
    BY <1>1
  <2> QED BY <1>1, <1>2, <1>8, <2>1 DEF Counted
<1>12. Indexed
  BY <1>7, <1>8 DEF Indexed
<1>13. \A p \in Pairs : Milli(p, 0) = 0
  BY DEF Milli
<1>14. Behind /\ Filled
  BY <1>5, <1>6, <1>8 DEF Behind, Filled
<1>15. Dated /\ Rising
  <2>1. ASSUME NEW p \in Pairs, NEW i \in 0 .. Len(market[p]) PROVE i = 0
    BY <1>5
  <2> QED BY <1>4, <1>5, <1>6, <1>13, <2>1 DEF Dated, Rising
<1>16. OneFeed
  BY <1>2, <1>5, <1>6, <1>8 DEF OneFeed
<1> QED BY <1>9, <1>10, <1>11, <1>12, <1>14, <1>15, <1>16 DEF Sound

LEMMA NextSound == ASSUME Sound, [Next]_vars PROVE Sound'
<1>1. ASSUME UNCHANGED vars PROVE Sound'
  <2>1. UNCHANGED <<ex, limit, known, refreshes, handler, params, conns, timers, freed, harm, subscribes,
                    unsubscribes, since, wanted, skipped, market, books, got, clock, stepped, drops>>
    BY <1>1 DEF vars, callVars, bookVars, tableVars
  <2>2. TypeOK'
    BY <2>1 DEF Sound, TypeOK
  <2>3. MemorySafe' /\ Counted' /\ Indexed' /\ Behind' /\ Rising' /\ Dated' /\ OneFeed' /\ Filled'
    BY <2>1, Untouched DEF Sound, MemorySafe, Counted, Indexed, Filled
  <2> QED BY <2>2, <2>3 DEF Sound
<1>2. ASSUME Next PROVE Sound'
  <2>1. harm = "no"
    BY <1>2, Zenon DEF Next
  <2>2. ASSUME KucoinNext PROVE Sound'
    BY <2>1, <2>2, KucoinSound
  <2>3. ASSUME ToobitNext PROVE Sound'
    BY <2>1, <2>3, ToobitSound
  <2>4. ASSUME PhemexNext PROVE Sound'
    BY <2>1, <2>4, PhemexSound
  <2>5. ASSUME AsterNext PROVE Sound'
    BY <2>1, <2>5, AsterSound
  <2>6. ASSUME EdgexNext PROVE Sound'
    BY <2>1, <2>6, EdgexSound
  <2>7. ASSUME HyperliquidNext PROVE Sound'
    BY <2>1, <2>7, HyperliquidSound
  <2>8. ASSUME RefreshPairs PROVE Sound'
    BY <2>1, <2>8, RefreshSound
  <2>9. ASSUME FreedHandlers PROVE Sound'
    BY <2>1, <2>9, FreedSound
  <2>10. ASSUME NEW p \in Pairs, Tick(p) PROVE Sound'
    BY <2>1, <2>10, TickSound
  <2>11. ASSUME NEW c \in DOMAIN conns, Drop(c) \/ Reconnects(c) PROVE Sound'
    BY <2>1, <2>11, DropSound
  <2>12. ASSUME NEW c \in DOMAIN conns, PingFails(c) \/ LookupFails(c) PROVE Sound'
    BY <2>1, <2>12, FailsSound
  <2> QED BY <1>2, <2>2, <2>3, <2>4, <2>5, <2>6, <2>7, <2>8, <2>9, <2>10, <2>11, <2>12 DEF Next
<1> QED BY <1>1, <1>2

LEMMA AlwaysSound == Spec => []Sound
<1>1. Init => Sound
  BY InitSound
<1>2. Sound /\ [Next]_vars => Sound'
  BY NextSound
<1> QED BY <1>1, <1>2, PTL DEF Spec

-----------------------------------------------------------------------------

\* Every variable stays within its type.
THEOREM TypeCorrect == Spec => []TypeOK
<1>1. Sound => TypeOK
  BY DEF Sound
<1> QED BY <1>1, AlwaysSound, PTL

\* A vector is indexed out of range, and a destroyed client used, only after the
\* call of unsubscribe_orderbook, or at toobit the second subscribe_orderbook,
\* that the property names.
THEOREM MemorySafety == Spec => []MemorySafe
<1>1. Sound => MemorySafe
  BY DEF Sound
<1> QED BY <1>1, AlwaysSound, PTL

\* apply_orderbook_delta keeps the newest book that was parsed, over however many
\* connections a pair comes, with the exceptions the property names: of two books
\* of one millisecond over two connections the older may come last and stay.
THEOREM BooksStayCurrent == Spec => []BooksCurrent
<1>1. Sound => BooksCurrent
  <2> SUFFICES ASSUME Sound, NEW p \in Pairs
               PROVE  /\ \/ books[p].k = got[p]
                         \/ subscribes > 1 /\ ex # "edgex" /\ books[p].milli = Milli(p, got[p])
                         \/ ex = "edgex" /\ (stepped \/ subscribes > 1)
                      /\ books[p].whole \/ ex = "phemex"
                      /\ books[p].sized \/ (ex \notin {"edgex", "hyperliquid"} /\ (p > known \/ refreshes > 0))
    BY DEF BooksCurrent
  <2>1. subscribes < 2 \/ subscribes > 1
    BY Typed
  <2>2. books[p].whole \/ ex = "phemex"
    BY DEF Sound, Filled
  <2>3. books[p].sized \/ (ex \notin {"edgex", "hyperliquid"} /\ (p > known \/ refreshes > 0))
    BY DEF Sound, Filled
  <2>4. subscribes < 2 => books[p].k = got[p] \/ (ex = "edgex" /\ stepped)
    BY DEF Sound, OneFeed, Steady
  <2>5. ex # "edgex" => books[p].milli = Milli(p, got[p])
    BY DEF Sound, Dated
  <2> QED BY <2>1, <2>2, <2>3, <2>4, <2>5
<1> QED BY <1>1, AlwaysSound, PTL
=============================================================================
