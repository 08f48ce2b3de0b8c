---------------------------- MODULE HttpClient_proofs ----------------------------
(***************************************************************************)
(* Proofs about HttpClient.                                                *)
(*                                                                         *)
(* The coroutines own their connections: a suspended one finds its         *)
(* connection in the pool at the index it remembers, is the only one that  *)
(* uses it, and a connection that is in use is used by some coroutine      *)
(* (Seated).  With what each step of a coroutine says of its other         *)
(* variables (Progress) this gives the type invariant and                  *)
(* UsersKeepTheirPlace.  HarmNeedsFaults is proved with a potential that   *)
(* also counts the harm that is still to come: a request that may be       *)
(* carried out a second time, a connection that a timeout has closed under *)
(* its user, and stale bytes in the buffer of a connection (HarmIsPaid).   *)
(***************************************************************************)
EXTENDS HttpClient, FiniteSetTheorems, SequenceTheorems, TLAPS

\* A nonempty set of naturals has a smallest element.
LEMMA SmallestOf ==
  ASSUME NEW T, T \subseteq Nat, T # {}
  PROVE  \E m \in T : \A n \in T : m <= n
<1> DEFINE R == {ss \in Nat \X Nat : ss[1] < ss[2]}
<1>1. IsWellFoundedOn(R, Nat)
  BY NatLessThanWellFounded DEF OpToRel
<1>2. PICK m \in T : \A n \in T : ~(<<n, m>> \in R)
  BY <1>1, WFMin
<1>3. ASSUME NEW n \in T PROVE m <= n
  <2>1. n \in Nat /\ m \in Nat /\ <<n, m>> \in Nat \X Nat
    OBVIOUS
  <2>2. ~(<<n, m>>[1] < <<n, m>>[2])
    BY <1>2, <2>1
  <2> QED BY <2>1, <2>2
<1> QED BY <1>3

\* ... and one of the numbers up to k a largest.
LEMMA LargestOf ==
  ASSUME NEW k \in Nat, NEW T, T \subseteq 1 .. k, T # {}
  PROVE  \E m \in T : \A n \in T : n <= m
<1> DEFINE U == {k - n : n \in T}
<1>1. \A n \in T : n \in Nat /\ k - n \in Nat
  OBVIOUS
<1>2. U \subseteq Nat /\ U # {}
  BY <1>1
<1>3. PICK u \in U : \A v \in U : u <= v
  <2> HIDE DEF U
  <2> QED BY <1>2, SmallestOf
<1>4. PICK m \in T : u = k - m
  BY <1>3
<1>5. \A n \in T : k - m <= k - n
  BY <1>3, <1>4
<1>6. \A n \in T : n <= m
  BY <1>1, <1>5
<1> QED BY <1>6
-----------------------------------------------------------------------------
(* The inductive invariant                                                 *)

\* No connection is in the pool twice.
Injective == \A i, j \in DOMAIN pool : pool[i] = pool[j] => i = j

\* A suspended coroutine's connection is in the pool at its index; exactly those
\* connections are in use, each by one coroutine.
Seated ==
  /\ \A r \in Requests : Waits(r) => req[r].index \in DOMAIN pool /\ pool[req[r].index] = Mine(r)
  /\ \A c \in Conns : conn[c].is_using <=> (\E r \in Requests : Waits(r) /\ Mine(r) = c)
  /\ \A r, s \in Requests : Waits(r) /\ Waits(s) /\ Mine(r) = Mine(s) => r = s

\* What the step of a coroutine says of its other variables.
Progress(r) ==
  /\ req[r].step = "new" =>
       ~req[r].arrived /\ req[r].executed = 0 /\ req[r].calls = 0 /\ req[r].result = "none"
  /\ Waits(r) => req[r].calls = 0 /\ req[r].result = "none"
  /\ req[r].step = "connecting" =>
       /\ ~req[r].arrived /\ ~req[r].reused /\ req[r].executed \in 0 .. 1
       /\ conn[Mine(r)].link \in {"open", "closed"}
  /\ req[r].step = "sending" /\ ~req[r].arrived => req[r].executed \in 0 .. 1
  /\ req[r].step = "sending" /\ req[r].reused =>
       req[r].executed = IF req[r].arrived THEN 1 ELSE 0
  /\ req[r].step = "sending" /\ ~req[r].reused => conn[Mine(r)].link \in {"up", "closed"}
Coroutines == \A r \in Requests : Progress(r)

\* Who has come to harm, or may without another failure of the network.
Hurt(r) ==
  \/ req[r].executed > 1
  \/ req[r].result \in {"error", "garbled"}
  \/ Waits(r) /\ req[r].executed = 1 /\ ~req[r].arrived
Marked == {r \in Requests : Hurt(r)}
ClosedInUse == {c \in Conns : conn[c].is_using /\ conn[c].link = "closed"}
LooseStale == {c \in Conns : conn[c].stale /\ ~\E r \in Requests : Waits(r) /\ Mine(r) = c /\ Hurt(r)}
HarmIsPaid == Cardinality(Marked) + Cardinality(ClosedInUse) + Cardinality(LooseStale) <= faults
Placed == TypeOK /\ Injective /\ Seated /\ Coroutines

-----------------------------------------------------------------------------
(* The pool                                                                *)

\* What is left of a pool holds every connection that is open or in use, each
\* at the index it had.
LEMMA TrimmedKeeps ==
  ASSUME NEW p \in Seq(Conns), NEW cs
  PROVE  \E n \in 0 .. Len(p) :
           /\ Trimmed(p, cs) = SubSeq(p, 1, n)
           /\ Trimmed(p, cs) \in Seq(Conns)
           /\ DOMAIN Trimmed(p, cs) = 1 .. n
           /\ \A i \in 1 .. n : Trimmed(p, cs)[i] = p[i]
           /\ \A i \in DOMAIN p : cs[p[i]].link # "closed" \/ cs[p[i]].is_using => i <= n
<1> DEFINE Kept(i) == cs[p[i]].link # "closed" \/ cs[p[i]].is_using
           all == {i \in DOMAIN p : Kept(i)}
           last == {i \in DOMAIN p : Kept(i) /\ \A j \in DOMAIN p : j > i => ~Kept(j)}
<1>1. DOMAIN p = 1 .. Len(p) /\ Len(p) \in Nat
  OBVIOUS
<1>2. Trimmed(p, cs) = IF last = {} THEN <<>> ELSE SubSeq(p, 1, CHOOSE i \in last : TRUE)
  BY DEF Trimmed
<1>3. CASE all = {}
  <2>1. last = {}
    BY <1>3
  <2>2. Trimmed(p, cs) = <<>>
    BY <1>2, <2>1
  <2>3. SubSeq(p, 1, 0) = <<>>
    BY SubSeqEmpty
  <2>4. \A i \in DOMAIN p : ~Kept(i)
    BY <1>3
  <2>5. 0 \in 0 .. Len(p) /\ 1 .. 0 = {} /\ DOMAIN <<>> = {}
    BY <1>1
  <2> QED BY <2>2, <2>3, <2>4, <2>5
<1>4. CASE all # {}
  <2>1. PICK m \in all : \A n \in all : n <= m
    <3>1. all \subseteq 1 .. Len(p)
      BY <1>1
    <3> HIDE DEF all
    <3> QED BY <3>1, <1>1, <1>4, LargestOf
  <2>2. m \in last
    BY <2>1, <1>1
  <2>3. \A i \in last : i = m
    BY <2>1, <1>1
  <2>4. (CHOOSE i \in last : TRUE) = m
    BY <2>2, <2>3
  <2>5. Trimmed(p, cs) = SubSeq(p, 1, m)
    BY <1>2, <2>2, <2>4
  <2>6. m \in 0 .. Len(p) /\ m \in 1 .. Len(p)
    BY <1>1
  <2>7. \A i \in 1 .. m : p[i] \in Conns
    BY <2>6, <1>1
  <2>8. /\ SubSeq(p, 1, m) \in Seq(Conns)
        /\ Len(SubSeq(p, 1, m)) = m
        /\ \A i \in 1 .. m : SubSeq(p, 1, m)[i] = p[i]
    BY <2>6, <2>7, SubSeqProperties
  <2>9. \A i \in DOMAIN p : Kept(i) => i <= m
    BY <2>1
  <2>10. DOMAIN SubSeq(p, 1, m) = 1 .. m
    BY <2>8
  <2> QED BY <2>5, <2>6, <2>8, <2>9, <2>10
<1> QED BY <1>3, <1>4

\* A pool that leaves a connection out is shorter than there are connections.
LEMMA RoomForOneMore ==
  ASSUME pool \in Seq(Conns), Injective, NEW c \in Conns, c \notin Pooled
  PROVE  Len(pool) + 1 \in 1 .. Cardinality(Conns)
<1> DEFINE Rest == Conns \ {c}
<1>1. IsFiniteSet(Rest) /\ Cardinality(Rest) = Cardinality(Conns) - 1
  BY HttpAssumption, FS_RemoveElement
<1>2. Cardinality(Conns) \in Nat
  BY HttpAssumption, FS_CardinalityType
<1>3. Len(pool) \in Nat /\ DOMAIN pool = 1 .. Len(pool)
  OBVIOUS
<1>4. \A i \in 1 .. Len(pool) : pool[i] \in Rest
  BY <1>3 DEF Pooled
<1>5. pool \in [1 .. Len(pool) -> Rest]
  BY <1>3, <1>4
<1>6. pool \in Injection(1 .. Len(pool), Rest)
  BY <1>5, <1>3 DEF Injection, IsInjective, Injective
<1>7. Cardinality(1 .. Len(pool)) <= Cardinality(Rest)
  <2> HIDE DEF Rest
  <2> QED BY <1>1, <1>6, FS_Injection
<1>8. Cardinality(1 .. Len(pool)) = Len(pool)
  BY <1>3, FS_Interval
<1> QED BY <1>1, <1>2, <1>3, <1>7, <1>8

-----------------------------------------------------------------------------
(* The two ways in which an exchange ends                                  *)

\* The coroutine r ends: its connection is free again, the pool is trimmed.
Ends(r, link, stale, result) ==
  /\ conn' = [conn EXCEPT ![Mine(r)] = [link |-> link, is_using |-> FALSE, stale |-> stale]]
  /\ req' = [req EXCEPT ![r].step = "done", ![r].calls = @ + 1, ![r].result = result]
  /\ pool' = Trimmed(pool, conn')

\* It connects anew, to send its request once more.
Again(r, stale) ==
  /\ conn' = [conn EXCEPT ![Mine(r)].link = "open", ![Mine(r)].stale = stale]
  /\ req' = [req EXCEPT ![r].step = "connecting", ![r].reused = FALSE, ![r].arrived = FALSE]
  /\ UNCHANGED pool

\* A failed connection, an answer and a failed exchange are one of the two.
LEMMA Endings ==
  ASSUME TypeOK, NEW r \in Requests
  PROVE  /\ \A link \in Links : ConnectFails(r, link) =>
              /\ req[r].step = "connecting" /\ link # "up"
              /\ Ends(r, link, conn[Mine(r)].stale, "error")
         /\ Answered(r) =>
              Ends(r, conn[Mine(r)].link, FALSE, IF conn[Mine(r)].stale THEN "garbled" ELSE "ok")
         /\ \A link \in Links, partial \in BOOLEAN : Fails(r, link, partial) =>
              /\ req[r].step = "sending" /\ (partial => req[r].arrived)
              /\ IF req[r].reused THEN Again(r, conn[Mine(r)].stale \/ partial)
                                  ELSE Ends(r, link, FALSE, "error")
<1>1. Mine(r) \in Conns /\ conn[Mine(r)] \in [link : Links, is_using : BOOLEAN, stale : BOOLEAN]
  BY DEF TypeOK, Mine
<1>2. \A link \in Links :
        [conn EXCEPT ![Mine(r)].link = link, ![Mine(r)].is_using = FALSE]
          = [conn EXCEPT ![Mine(r)] = [link |-> link, is_using |-> FALSE, stale |-> conn[Mine(r)].stale]]
  <2> TAKE link \in Links
  <2>1. [conn[Mine(r)] EXCEPT !.link = link, !.is_using = FALSE]
          = [link |-> link, is_using |-> FALSE, stale |-> conn[Mine(r)].stale]
    <3>1. PICK k : k = [conn[Mine(r)] EXCEPT !.link = link, !.is_using = FALSE]
      OBVIOUS
    <3>2. k = [link |-> link, is_using |-> FALSE, stale |-> conn[Mine(r)].stale]
      BY <1>1, <3>1
    <3> QED BY <3>1, <3>2
  <2>2. [conn EXCEPT ![Mine(r)].link = link, ![Mine(r)].is_using = FALSE]
          = [conn EXCEPT ![Mine(r)] = [conn[Mine(r)] EXCEPT !.link = link, !.is_using = FALSE]]
    BY <1>1 DEF TypeOK
  <2> QED BY <2>1, <2>2
<1>3. ASSUME NEW link \in Links, ConnectFails(r, link)
      PROVE  /\ req[r].step = "connecting" /\ link # "up"
             /\ Ends(r, link, conn[Mine(r)].stale, "error")
  BY <1>2, <1>3 DEF ConnectFails, Ends
<1>4. Answered(r) =>
        Ends(r, conn[Mine(r)].link, FALSE, IF conn[Mine(r)].stale THEN "garbled" ELSE "ok")
  BY DEF Answered, Finish, Ends
<1>5. ASSUME NEW link \in Links, NEW partial \in BOOLEAN, Fails(r, link, partial)
      PROVE  /\ req[r].step = "sending" /\ (partial => req[r].arrived)
             /\ IF req[r].reused THEN Again(r, conn[Mine(r)].stale \/ partial)
                                 ELSE Ends(r, link, FALSE, "error")
  <2>1. req[r].reused => Again(r, conn[Mine(r)].stale \/ partial)
    BY <1>5 DEF Fails, Again
  <2>2. ~req[r].reused => Ends(r, link, FALSE, "error")
    BY <1>5 DEF Fails, Finish, Ends
  <2> QED BY <1>5, <2>1, <2>2 DEF Fails
<1> QED BY <1>3, <1>4, <1>5

\* The next state has the types that conn and req need, one entry at a time.
ConnType == [link : Links, is_using : BOOLEAN, stale : BOOLEAN]
ReqType ==
  [step : {"new", "connecting", "sending", "done"}, conn : Conns,
   index : 0 .. Cardinality(Conns), reused : BOOLEAN, arrived : BOOLEAN,
   executed : 0 .. 2, calls : 0 .. 1,
   result : {"none", "ok", "garbled", "error"}]

\* The coroutine that ends gives its place up; the others keep theirs.
LEMMA EndsPlaced ==
  ASSUME Placed, NEW r \in Requests, Waits(r), NEW link \in Links, NEW stale \in BOOLEAN,
         NEW result \in {"ok", "garbled", "error"}, Ends(r, link, stale, result),
         faults' \in 0 .. MaxFaults
  PROVE  Placed'
<1> DEFINE c == Mine(r)
<1>0. Cardinality(Conns) \in Nat
  BY HttpAssumption, FS_CardinalityType
<1>1. /\ c \in Conns /\ c = req[r].conn
      /\ \A s \in Requests : Mine(s) \in Conns /\ Mine(s) = req[s].conn /\ req[s] \in ReqType
      /\ \A d \in Conns : conn[d] \in ConnType
  BY DEF Placed, TypeOK, Mine, ReqType, ConnType
<1>2. /\ conn'[c] = [link |-> link, is_using |-> FALSE, stale |-> stale]
      /\ \A d \in Conns : d # c => conn'[d] = conn[d]
      /\ conn' \in [Conns -> ConnType]
  BY <1>1 DEF Ends, Placed, TypeOK, ConnType
<1>3. /\ req'[r] = [req[r] EXCEPT !.step = "done", !.calls = @ + 1, !.result = result]
      /\ \A s \in Requests : s # r => req'[s] = req[s]
      /\ DOMAIN req' = Requests
  BY DEF Ends, Placed, TypeOK
<1>4. req[r].calls = 0
  BY DEF Placed, Coroutines, Progress
<1>5. req'[r] \in ReqType /\ req' \in [Requests -> ReqType]
  <2>1. req'[r] \in ReqType
    <3>1. req[r] \in ReqType /\ req[r].calls + 1 = 1
      BY <1>1, <1>4
    <3>2. PICK one \in 0 .. 1 : one = req[r].calls + 1
      BY <3>1
    <3>3. req'[r] = [req[r] EXCEPT !.step = "done", !.calls = one, !.result = result]
      BY <1>3, <3>2
    <3> QED BY <3>1, <3>3 DEF ReqType
  <2>2. req' = [s \in Requests |-> req'[s]]
    BY DEF Ends, Placed, TypeOK
  <2> QED BY <1>1, <1>3, <2>1, <2>2
<1>6. PICK n \in 0 .. Len(pool) :
        /\ pool' \in Seq(Conns)
        /\ DOMAIN pool' = 1 .. n
        /\ \A i \in 1 .. n : pool'[i] = pool[i]
        /\ \A i \in DOMAIN pool : conn'[pool[i]].link # "closed" \/ conn'[pool[i]].is_using => i <= n
  BY TrimmedKeeps DEF Ends, Placed, TypeOK
<1>7. DOMAIN pool = 1 .. Len(pool) /\ Len(pool) \in Nat
  BY DEF Placed, TypeOK
<1>8. /\ ~Waits(r)' /\ Mine(r)' = c
      /\ \A s \in Requests : s # r => (Waits(s)' <=> Waits(s)) /\ Mine(s)' = Mine(s)
  BY <1>1, <1>3 DEF Waits, Mine
<1>9. TypeOK'
  BY <1>2, <1>5, <1>6 DEF TypeOK, ConnType, ReqType
<1>10. Injective'
  BY <1>6, <1>7 DEF Placed, Injective
<1>11. \A s \in Requests : Waits(s) /\ s # r => Mine(s) # c
  BY DEF Placed, Seated
<1>12. ASSUME NEW s \in Requests, Waits(s)'
       PROVE  req'[s].index \in DOMAIN pool' /\ pool'[req'[s].index] = Mine(s)'
  <2>1. s # r /\ Waits(s) /\ Mine(s) # c /\ req'[s] = req[s] /\ Mine(s)' = Mine(s)
    BY <1>3, <1>8, <1>11, <1>12
  <2>2. req[s].index \in DOMAIN pool /\ pool[req[s].index] = Mine(s)
    BY <2>1 DEF Placed, Seated
  <2>3. conn[Mine(s)].is_using
    BY <2>1, <1>1 DEF Placed, Seated
  <2>4. conn'[pool[req[s].index]].is_using
    BY <2>1, <2>2, <2>3, <1>1, <1>2
  <2>5. req[s].index <= n
    BY <2>2, <2>4, <1>6
  <2> QED BY <2>1, <2>2, <2>5, <1>6, <1>7
<1>13. ASSUME NEW d \in Conns
       PROVE  conn'[d].is_using <=> (\E s \in Requests : Waits(s)' /\ Mine(s)' = d)
  <2>1. CASE d = c
    BY <2>1, <1>2, <1>8, <1>11
  <2>2. CASE d # c
    <3>1. conn[d].is_using <=> (\E s \in Requests : Waits(s) /\ Mine(s) = d)
      BY DEF Placed, Seated
    <3> QED BY <2>2, <3>1, <1>2, <1>8
  <2> QED BY <2>1, <2>2
<1>14. \A s, t \in Requests : Waits(s)' /\ Waits(t)' /\ Mine(s)' = Mine(t)' => s = t
  BY <1>8 DEF Placed, Seated
<1>15. Seated'
  BY <1>12, <1>13, <1>14 DEF Seated
<1>16. ASSUME NEW s \in Requests PROVE Progress(s)'
  <2>1. CASE s = r
    BY <2>1, <1>1, <1>3, <1>8 DEF Progress, ReqType
  <2>2. CASE s # r /\ Waits(s)
    <3>1. req'[s] = req[s] /\ conn'[Mine(s)] = conn[Mine(s)] /\ Mine(s)' = Mine(s)
      BY <2>2, <1>1, <1>2, <1>3, <1>8, <1>11
    <3>2. Progress(s)
      BY DEF Placed, Coroutines
    <3> QED BY <2>2, <3>1, <3>2, <1>8 DEF Progress
  <2>3. CASE s # r /\ ~Waits(s)
    <3>1. Progress(s)
      BY DEF Placed, Coroutines
    <3> QED BY <2>3, <3>1, <1>3 DEF Progress, Waits
  <2> QED BY <2>1, <2>2, <2>3
<1> QED BY <1>9, <1>10, <1>15, <1>16 DEF Placed, Coroutines

-----------------------------------------------------------------------------
(* The steps after which a coroutine is suspended                          *)

\* A coroutine that has its place, and changes only its own connection, leaves
\* everybody in theirs.
LEMMA WaitsPlaced ==
  ASSUME Placed, NEW r \in Requests,
         pool' \in Seq(Conns), Injective', DOMAIN pool \subseteq DOMAIN pool',
         \A i \in DOMAIN pool : pool'[i] = pool[i],
         conn' \in [Conns -> ConnType], \A d \in Conns : d # Mine(r)' => conn'[d] = conn[d],
         req' \in [Requests -> ReqType], \A s \in Requests : s # r => req'[s] = req[s],
         faults' \in 0 .. MaxFaults,
         Waits(r)', req'[r].index \in DOMAIN pool', pool'[req'[r].index] = Mine(r)',
         conn'[Mine(r)'].is_using, Waits(r) => Mine(r)' = Mine(r),
         \A s \in Requests : Waits(s) /\ s # r => Mine(s) # Mine(r)',
         Progress(r)'
  PROVE  Placed'
<1>1. \A s \in Requests : s # r => (Waits(s)' <=> Waits(s)) /\ Mine(s)' = Mine(s)
  BY DEF Waits, Mine
<1>2. \A s \in Requests : Mine(s) \in Conns /\ Mine(s)' \in Conns
  BY DEF Placed, TypeOK, Mine, ReqType
<1>3. TypeOK'
  BY DEF TypeOK, ConnType, ReqType
<1>4. ASSUME NEW s \in Requests, Waits(s)'
      PROVE  req'[s].index \in DOMAIN pool' /\ pool'[req'[s].index] = Mine(s)'
  <2>1. CASE s = r
    BY <2>1
  <2>2. CASE s # r
    <3>1. req[s].index \in DOMAIN pool /\ pool[req[s].index] = Mine(s)
      BY <2>2, <1>1, <1>4 DEF Placed, Seated
    <3> QED BY <2>2, <3>1, <1>1
  <2> QED BY <2>1, <2>2
<1>5. ASSUME NEW d \in Conns
      PROVE  conn'[d].is_using <=> (\E s \in Requests : Waits(s)' /\ Mine(s)' = d)
  <2>1. CASE d = Mine(r)'
    BY <2>1
  <2>2. CASE d # Mine(r)'
    <3>1. conn[d].is_using <=> (\E s \in Requests : Waits(s) /\ Mine(s) = d)
      BY DEF Placed, Seated
    <3>2. conn'[d] = conn[d]
      BY <2>2
    <3>3. \A s \in Requests : Waits(s)' /\ Mine(s)' = d <=> Waits(s) /\ Mine(s) = d
      BY <2>2, <1>1
    <3> QED BY <3>1, <3>2, <3>3
  <2> QED BY <2>1, <2>2
<1>6. \A s, t \in Requests : Waits(s)' /\ Waits(t)' /\ Mine(s)' = Mine(t)' => s = t
  BY <1>1 DEF Placed, Seated
<1>7. Seated'
  BY <1>4, <1>5, <1>6 DEF Seated
<1>8. ASSUME NEW s \in Requests PROVE Progress(s)'
  <2>1. CASE s = r
    BY <2>1
  <2>2. CASE s # r
    <3>1. Progress(s)
      BY DEF Placed, Coroutines
    <3>2. req'[s] = req[s] /\ Mine(s)' = Mine(s) /\ (Waits(s)' <=> Waits(s))
      BY <2>2, <1>1
    <3>3. Waits(s) => conn'[Mine(s)] = conn[Mine(s)]
      BY <2>2, <1>2
    <3>4. req[s].step \in {"connecting", "sending"} <=> Waits(s)
      BY DEF Waits
    <3> QED BY <3>1, <3>2, <3>3, <3>4 DEF Progress
  <2> QED BY <2>1, <2>2
<1> QED BY <1>3, <1>7, <1>8 DEF Placed, Coroutines

\* The first free connection is taken.
LEMMA TakePlaced ==
  ASSUME Placed, NEW r \in Requests, req[r].step = "new", NEW i \in DOMAIN pool, Take(r, i)
  PROVE  Placed'
<1> DEFINE c == pool[i]
           works == conn[c].link \in {"up", "half"}
<1>1. c \in Conns /\ ~conn[c].is_using
  BY DEF Take, Unused, Placed, TypeOK
<1>2. conn[c] \in ConnType /\ req[r] \in ReqType
  BY <1>1 DEF Placed, TypeOK, ConnType, ReqType
<1>3. PICK k : k = [conn[c] EXCEPT !.is_using = TRUE, !.link = IF works THEN @ ELSE "open"]
  OBVIOUS
<1>4. k \in ConnType /\ k.is_using /\ k.link = IF works THEN conn[c].link ELSE "open"
  BY <1>2, <1>3 DEF ConnType, Links
<1>5. conn' = [conn EXCEPT ![c] = k]
  BY <1>1, <1>3 DEF Take, Placed, TypeOK
<1>6. i \in 0 .. Cardinality(Conns)
  <2>1. Injection(DOMAIN pool, Conns) # {} /\ pool \in Injection(1 .. Len(pool), Conns)
    BY DEF Placed, TypeOK, Injective, Injection, IsInjective
  <2>2. Cardinality(1 .. Len(pool)) <= Cardinality(Conns)
    BY <2>1, HttpAssumption, FS_Injection
  <2>3. Len(pool) \in Nat /\ i \in 1 .. Len(pool)
    BY DEF Placed, TypeOK
  <2>4. Cardinality(1 .. Len(pool)) = Len(pool)
    <3>1. Len(pool) \in Int /\ 1 \in Int
      BY <2>3
    <3>2. Cardinality(1 .. Len(pool)) = IF 1 > Len(pool) THEN 0 ELSE Len(pool) - 1 + 1
      BY <3>1, FS_Interval
    <3> QED BY <2>3, <3>2
  <2>5. Cardinality(Conns) \in Nat
    BY HttpAssumption, FS_CardinalityType
  <2> QED BY <2>2, <2>3, <2>4, <2>5
<1>7. PICK st \in {"connecting", "sending"}, w \in BOOLEAN :
        /\ w = works /\ st = IF works THEN "sending" ELSE "connecting"
  <2>1. CASE works
    <3>1. TRUE = works /\ "sending" = IF works THEN "sending" ELSE "connecting"
      BY <2>1, Zenon
    <3> HIDE DEF works
    <3> QED BY <3>1
  <2>2. CASE ~works
    <3>1. FALSE = works
      <4>1. works = TRUE \/ works = FALSE
        BY SMT
      <4> HIDE DEF works
      <4> QED BY <2>2, <4>1, Zenon
    <3>2. "connecting" = IF works THEN "sending" ELSE "connecting"
      BY <2>2
    <3> HIDE DEF works
    <3> QED BY <3>1, <3>2
  <2> QED BY <2>1, <2>2
<1>8. PICK q : q = [req[r] EXCEPT !.step = st, !.conn = c, !.index = i, !.reused = w]
  OBVIOUS
<1>9. /\ q \in ReqType /\ q.step = st /\ q.conn = c /\ q.index = i /\ q.reused = w
      /\ q.arrived = req[r].arrived /\ q.executed = req[r].executed /\ q.calls = req[r].calls
      /\ q.result = req[r].result
  BY <1>1, <1>2, <1>6, <1>8 DEF ReqType
<1>10. req' = [req EXCEPT ![r] = q]
  BY <1>7, <1>8 DEF Take, Placed, TypeOK
<1>11. /\ req'[r] = q /\ \A s \in Requests : s # r => req'[s] = req[s]
       /\ req' \in [Requests -> ReqType]
  BY <1>9, <1>10 DEF Placed, TypeOK, ReqType
<1>12. /\ conn'[c] = k /\ \A d \in Conns : d # c => conn'[d] = conn[d]
       /\ conn' \in [Conns -> ConnType]
  BY <1>1, <1>4, <1>5 DEF Placed, TypeOK, ConnType
<1>13. Mine(r)' = c /\ Waits(r)' /\ ~Waits(r)
  BY <1>9, <1>11, <1>7 DEF Mine, Waits
<1>14. \A s \in Requests : Waits(s) => Mine(s) # c
  BY <1>1 DEF Placed, Seated
<1>15. ~req[r].arrived /\ req[r].executed = 0 /\ req[r].calls = 0 /\ req[r].result = "none"
  BY DEF Placed, Coroutines, Progress
<1>16. Progress(r)'
  <2>1. CASE works
    <3>1. q.step = "sending" /\ q.reused
      BY <2>1, <1>7, <1>9
    <3> QED BY <3>1, <1>9, <1>11, <1>13, <1>15 DEF Progress
  <2>2. CASE ~works
    <3>1. q.step = "connecting" /\ ~q.reused
      BY <2>2, <1>7, <1>9
    <3>2. conn'[Mine(r)'].link = "open"
      BY <2>2, <1>4, <1>12, <1>13
    <3> QED BY <3>1, <3>2, <1>9, <1>11, <1>13, <1>15 DEF Progress
  <2> QED BY <2>1, <2>2
<1>17. pool' = pool /\ faults' = faults /\ Injective'
  BY DEF Take, Placed, Injective
<1>18. pool \in Seq(Conns) /\ faults \in 0 .. MaxFaults
  BY DEF Placed, TypeOK
<1>19. req'[r].index \in DOMAIN pool' /\ pool'[req'[r].index] = Mine(r)' /\ conn'[Mine(r)'].is_using
  BY <1>4, <1>9, <1>11, <1>12, <1>13, <1>17
<1> HIDE DEF c, works
<1>20. pool' \in Seq(Conns) /\ DOMAIN pool \subseteq DOMAIN pool' /\ \A j \in DOMAIN pool : pool'[j] = pool[j]
  BY <1>17, <1>18
<1> QED BY <1>11, <1>12, <1>13, <1>14, <1>16, <1>17, <1>18, <1>19, <1>20, WaitsPlaced

\* A new connection is appended.
LEMMA EnlargePlaced ==
  ASSUME Placed, NEW r \in Requests, req[r].step = "new", NEW c \in Conns, Enlarge(r, c)
  PROVE  Placed'
<1>0. /\ c \notin Pooled /\ pool' = Append(pool, c)
      /\ conn' = [conn EXCEPT ![c] = [Fresh EXCEPT !.is_using = TRUE, !.link = "open"]]
      /\ req' = [req EXCEPT ![r].step = "connecting", ![r].conn = c,
                            ![r].index = Len(pool) + 1, ![r].reused = FALSE]
      /\ faults' = faults
  BY Zenon DEF Enlarge
<1>1. c \notin Pooled /\ pool \in Seq(Conns) /\ DOMAIN pool = 1 .. Len(pool) /\ Len(pool) \in Nat
  BY <1>0 DEF Placed, TypeOK
<1>2. Len(pool) + 1 \in 1 .. Cardinality(Conns)
  BY <1>1, RoomForOneMore DEF Placed
<1>3. /\ pool' = Append(pool, c) /\ pool' \in Seq(Conns) /\ Len(pool') = Len(pool) + 1
      /\ \A i \in 1 .. Len(pool) : pool'[i] = pool[i]
      /\ pool'[Len(pool) + 1] = c
  BY <1>0, <1>1, AppendProperties
<1>4. DOMAIN pool' = 1 .. Len(pool) + 1 /\ DOMAIN pool \subseteq DOMAIN pool'
  BY <1>1, <1>3
<1>5. \A i \in 1 .. Len(pool) : pool[i] # c
  BY <1>1 DEF Pooled
<1>6. Injective'
  <2>1. ASSUME NEW i \in DOMAIN pool', NEW j \in DOMAIN pool', pool'[i] = pool'[j]
        PROVE  i = j
    <3>1. i \in 1 .. Len(pool) \/ i = Len(pool) + 1
      BY <1>1, <1>4
    <3>2. j \in 1 .. Len(pool) \/ j = Len(pool) + 1
      BY <1>1, <1>4
    <3> QED BY <2>1, <3>1, <3>2, <1>1, <1>3, <1>5 DEF Placed, Injective
  <2> QED BY <2>1 DEF Injective
<1>7. PICK k : k = [Fresh EXCEPT !.is_using = TRUE, !.link = "open"]
  OBVIOUS
<1>8. k \in ConnType /\ k.is_using /\ k.link = "open" /\ ~k.stale
  BY <1>7 DEF Fresh, ConnType, Links
<1>9. /\ conn'[c] = k /\ \A d \in Conns : d # c => conn'[d] = conn[d]
      /\ conn' \in [Conns -> ConnType]
  BY <1>0, <1>7, <1>8 DEF Placed, TypeOK, ConnType
<1>10. PICK n \in 0 .. Cardinality(Conns) : n = Len(pool) + 1
  BY <1>1, <1>2
<1>11. PICK q : q = [req[r] EXCEPT !.step = "connecting", !.conn = c, !.index = n, !.reused = FALSE]
  OBVIOUS
<1>12. req[r] \in ReqType
  BY DEF Placed, TypeOK, ReqType
<1>13. /\ q \in ReqType /\ q.step = "connecting" /\ q.conn = c /\ q.index = n /\ ~q.reused
       /\ q.arrived = req[r].arrived /\ q.executed = req[r].executed /\ q.calls = req[r].calls
       /\ q.result = req[r].result
  BY <1>11, <1>12 DEF ReqType
<1>14. /\ req'[r] = q /\ \A s \in Requests : s # r => req'[s] = req[s]
       /\ req' \in [Requests -> ReqType]
  BY <1>10, <1>11, <1>13, <1>0 DEF Placed, TypeOK, ReqType
<1>15. Mine(r)' = c /\ Waits(r)' /\ ~Waits(r)
  BY <1>13, <1>14 DEF Mine, Waits
<1>16. \A s \in Requests : Waits(s) => Mine(s) # c
  BY <1>1, <1>5 DEF Placed, Seated
<1>17. ~req[r].arrived /\ req[r].executed = 0 /\ req[r].calls = 0 /\ req[r].result = "none"
  BY DEF Placed, Coroutines, Progress
<1>18. Progress(r)'
  BY <1>8, <1>9, <1>13, <1>14, <1>15, <1>17 DEF Progress
<1>19. faults' \in 0 .. MaxFaults
  BY <1>0 DEF Placed, TypeOK
<1>20. req'[r].index \in DOMAIN pool' /\ pool'[req'[r].index] = Mine(r)' /\ conn'[Mine(r)'].is_using
  BY <1>1, <1>3, <1>4, <1>8, <1>9, <1>10, <1>13, <1>14, <1>15
<1> QED BY <1>1, <1>3, <1>4, <1>6, <1>9, <1>14, <1>15, <1>16, <1>18, <1>19, <1>20, WaitsPlaced

\* A suspended coroutine that stays one, with the same connection and index.
LEMMA StaysPlaced ==
  ASSUME Placed, NEW r \in Requests, Waits(r), NEW k \in ConnType, NEW q \in ReqType,
         k.is_using, q.step \in {"connecting", "sending"}, q.conn = Mine(r), q.index = req[r].index,
         conn' = [conn EXCEPT ![Mine(r)] = k], req' = [req EXCEPT ![r] = q], pool' = pool,
         faults' \in 0 .. MaxFaults, Progress(r)'
  PROVE  Placed'
<1>1. Mine(r) \in Conns
  BY DEF Placed, TypeOK, Mine
<1>2. /\ req'[r] = q /\ \A s \in Requests : s # r => req'[s] = req[s]
      /\ req' \in [Requests -> ReqType]
  BY DEF Placed, TypeOK, ReqType
<1>3. /\ conn'[Mine(r)] = k /\ \A d \in Conns : d # Mine(r) => conn'[d] = conn[d]
      /\ conn' \in [Conns -> ConnType]
  BY <1>1 DEF Placed, TypeOK, ConnType
<1>4. Mine(r)' = Mine(r) /\ Waits(r)'
  BY <1>2 DEF Mine, Waits
<1>5. \A s \in Requests : Waits(s) /\ s # r => Mine(s) # Mine(r)
  BY DEF Placed, Seated
<1>6. req[r].index \in DOMAIN pool /\ pool[req[r].index] = Mine(r)
  BY DEF Placed, Seated
<1>7. pool \in Seq(Conns) /\ Injective'
  BY DEF Placed, TypeOK, Injective
<1>8. /\ pool' \in Seq(Conns) /\ DOMAIN pool \subseteq DOMAIN pool'
      /\ \A i \in DOMAIN pool : pool'[i] = pool[i]
  BY <1>7
<1>9. req'[r].index \in DOMAIN pool' /\ pool'[req'[r].index] = Mine(r)' /\ conn'[Mine(r)'].is_using
  BY <1>2, <1>3, <1>4, <1>6
<1> QED BY <1>2, <1>3, <1>4, <1>5, <1>7, <1>8, <1>9, WaitsPlaced

\* The facts about a suspended coroutine that the following steps start from.
LEMMA Suspended ==
  ASSUME Placed, NEW r \in Requests, Waits(r)
  PROVE  /\ Mine(r) \in Conns /\ req[r] \in ReqType /\ conn[Mine(r)] \in ConnType
         /\ conn[Mine(r)].is_using /\ Progress(r) /\ req[r].conn = Mine(r)
         /\ req[r].calls = 0 /\ req[r].result = "none"
<1>1. Mine(r) \in Conns /\ req[r] \in ReqType /\ req[r].conn = Mine(r)
  BY DEF Placed, TypeOK, Mine, ReqType
<1>2. conn[Mine(r)] \in ConnType
  BY <1>1 DEF Placed, TypeOK, ConnType
<1>3. conn[Mine(r)].is_using
  BY <1>1 DEF Placed, Seated
<1>4. Progress(r)
  BY DEF Placed, Coroutines
<1> QED BY <1>1, <1>2, <1>3, <1>4 DEF Progress

\* The time is over.
LEMMA ExpiresPlaced ==
  ASSUME Placed, NEW r \in Requests, Expires(r)
  PROVE  Placed'
<1>1. Waits(r)
  BY DEF Expires
<1>2. PICK k : k = [conn[Mine(r)] EXCEPT !.link = "closed"]
  OBVIOUS
<1>3. k \in ConnType /\ k.is_using /\ k.link = "closed"
  BY <1>1, <1>2, Suspended DEF ConnType, Links
<1>4. conn' = [conn EXCEPT ![Mine(r)] = k] /\ conn'[Mine(r)] = k
  BY <1>1, <1>2, Suspended DEF Expires, Placed, TypeOK
<1>5. req' = req /\ req' = [req EXCEPT ![r] = req[r]] /\ Mine(r)' = Mine(r)
  BY DEF Expires, Placed, TypeOK, Mine
<1>6. faults' \in 0 .. MaxFaults /\ pool' = pool
  BY HttpAssumption DEF Expires, Placed, TypeOK
<1>7. Waits(r)'
  BY <1>1, <1>5 DEF Waits
<1>8. Progress(r)'
  BY <1>1, <1>3, <1>4, <1>5, <1>7, Suspended DEF Progress
<1>9. req[r] \in ReqType /\ req[r].conn = Mine(r) /\ req[r].step \in {"connecting", "sending"}
  BY <1>1, Suspended DEF Waits
<1> QED BY <1>1, <1>3, <1>4, <1>5, <1>6, <1>8, <1>9, StaysPlaced

\* The connection is made.
LEMMA ConnectedPlaced ==
  ASSUME Placed, NEW r \in Requests, Connected(r)
  PROVE  Placed'
<1>1. Waits(r)
  BY DEF Connected, Waits
<1>2. PICK k : k = [conn[Mine(r)] EXCEPT !.link = "up"]
  OBVIOUS
<1>3. k \in ConnType /\ k.is_using /\ k.link = "up"
  BY <1>1, <1>2, Suspended DEF ConnType, Links
<1>4. conn' = [conn EXCEPT ![Mine(r)] = k] /\ conn'[Mine(r)] = k
  BY <1>1, <1>2, Suspended DEF Connected, Placed, TypeOK
<1>5. PICK q : q = [req[r] EXCEPT !.step = "sending"]
  OBVIOUS
<1>6. /\ q \in ReqType /\ q.step = "sending" /\ q.conn = Mine(r) /\ q.index = req[r].index
      /\ q.reused = req[r].reused /\ q.arrived = req[r].arrived /\ q.executed = req[r].executed
      /\ q.calls = req[r].calls /\ q.result = req[r].result
  BY <1>1, <1>5, Suspended DEF ReqType
<1>7. req' = [req EXCEPT ![r] = q] /\ req'[r] = q
  BY <1>5 DEF Connected, Placed, TypeOK
<1>8. Mine(r)' = Mine(r) /\ Waits(r)'
  BY <1>6, <1>7 DEF Mine, Waits
<1>9. ~req[r].arrived /\ ~req[r].reused /\ req[r].executed \in 0 .. 1
  BY <1>1, Suspended DEF Progress, Connected
<1>10. Progress(r)'
  BY <1>1, <1>3, <1>4, <1>6, <1>7, <1>8, <1>9, Suspended DEF Progress
<1>11. faults' \in 0 .. MaxFaults /\ pool' = pool
  BY DEF Connected, Placed, TypeOK
<1> QED BY <1>1, <1>3, <1>4, <1>6, <1>7, <1>10, <1>11, StaysPlaced

\* The server carries the request out.
LEMMA ExecutesPlaced ==
  ASSUME Placed, NEW r \in Requests, Executes(r)
  PROVE  Placed'
<1>1. Waits(r)
  BY DEF Executes, Waits
<1>2. conn' = conn /\ conn' = [conn EXCEPT ![Mine(r)] = conn[Mine(r)]]
  BY DEF Executes, Placed, TypeOK
<1>3. req[r].executed \in 0 .. 1 /\ req[r].step = "sending" /\ ~req[r].arrived
  BY <1>1, Suspended DEF Progress, Executes
<1>4. PICK n \in 0 .. 2 : n = req[r].executed + 1
  BY <1>3
<1>5. PICK q : q = [req[r] EXCEPT !.arrived = TRUE, !.executed = n]
  OBVIOUS
<1>6. /\ q \in ReqType /\ q.step = "sending" /\ q.conn = Mine(r) /\ q.index = req[r].index
      /\ q.reused = req[r].reused /\ q.arrived /\ q.executed = n
      /\ q.calls = req[r].calls /\ q.result = req[r].result
  BY <1>1, <1>3, <1>5, Suspended DEF ReqType
<1>7. req' = [req EXCEPT ![r] = q] /\ req'[r] = q
  BY <1>4, <1>5 DEF Executes, Placed, TypeOK
<1>8. Mine(r)' = Mine(r) /\ Waits(r)'
  BY <1>6, <1>7 DEF Mine, Waits
<1>9. req[r].reused => n = 1
  BY <1>1, <1>3, <1>4, Suspended DEF Progress
<1>10. Progress(r)'
  BY <1>1, <1>2, <1>3, <1>6, <1>7, <1>8, <1>9, Suspended DEF Progress
<1>11. faults' \in 0 .. MaxFaults /\ pool' = pool
  BY DEF Executes, Placed, TypeOK
<1> QED BY <1>1, <1>2, <1>6, <1>7, <1>10, <1>11, Suspended, StaysPlaced

\* The request is to be sent once more.
LEMMA AgainPlaced ==
  ASSUME Placed, NEW r \in Requests, req[r].step = "sending", req[r].reused,
         NEW stale \in BOOLEAN, Again(r, stale), faults' \in 0 .. MaxFaults
  PROVE  Placed'
<1>1. Waits(r)
  BY DEF Waits
<1>2. PICK k : k = [conn[Mine(r)] EXCEPT !.link = "open", !.stale = stale]
  OBVIOUS
<1>3. k \in ConnType /\ k.is_using /\ k.link = "open"
  BY <1>1, <1>2, Suspended DEF ConnType, Links
<1>4. conn' = [conn EXCEPT ![Mine(r)] = k] /\ conn'[Mine(r)] = k
  BY <1>1, <1>2, Suspended DEF Again, Placed, TypeOK
<1>5. PICK q : q = [req[r] EXCEPT !.step = "connecting", !.reused = FALSE, !.arrived = FALSE]
  OBVIOUS
<1>6. /\ q \in ReqType /\ q.step = "connecting" /\ q.conn = Mine(r) /\ q.index = req[r].index
      /\ ~q.reused /\ ~q.arrived /\ q.executed = req[r].executed
      /\ q.calls = req[r].calls /\ q.result = req[r].result
  BY <1>1, <1>5, Suspended DEF ReqType
<1>7. req' = [req EXCEPT ![r] = q] /\ req'[r] = q
  BY <1>5 DEF Again, Placed, TypeOK
<1>8. Mine(r)' = Mine(r) /\ Waits(r)'
  BY <1>6, <1>7 DEF Mine, Waits
<1>9. req[r].executed \in 0 .. 1
  BY <1>1, Suspended DEF Progress
<1>10. Progress(r)'
  BY <1>1, <1>3, <1>4, <1>6, <1>7, <1>8, <1>9, Suspended DEF Progress
<1>11. pool' = pool
  BY DEF Again
<1> QED BY <1>1, <1>3, <1>4, <1>6, <1>7, <1>10, <1>11, StaysPlaced

\* The server closes an idle connection.
LEMMA IdlePlaced ==
  ASSUME Placed, NEW c \in Conns, IdleCloses(c)
  PROVE  Placed'
<1>1. PICK link \in {"half", "open"} : conn' = [conn EXCEPT ![c].link = link]
  BY DEF IdleCloses
<1>2. PICK k : k = [conn[c] EXCEPT !.link = link]
  OBVIOUS
<1>3. conn[c] \in ConnType /\ ~conn[c].is_using
  BY DEF IdleCloses, Placed, TypeOK, ConnType
<1>4. k \in ConnType /\ ~k.is_using
  BY <1>2, <1>3 DEF ConnType, Links
<1>5. /\ conn'[c] = k /\ \A d \in Conns : d # c => conn'[d] = conn[d]
      /\ conn' \in [Conns -> ConnType]
  BY <1>1, <1>2, <1>4 DEF Placed, TypeOK, ConnType
<1>6. pool' = pool /\ req' = req /\ faults' = faults
  BY DEF IdleCloses
<1>7. \A s \in Requests : Waits(s)' = Waits(s) /\ Mine(s)' = Mine(s)
  BY <1>6 DEF Waits, Mine
<1>8. \A s \in Requests : Waits(s) => Mine(s) # c
  BY <1>3 DEF Placed, Seated
<1>9. TypeOK'
  BY <1>5, <1>6 DEF Placed, TypeOK, ConnType
<1>10. \A d \in Conns : conn'[d].is_using = conn[d].is_using
  <2>1. conn'[c].is_using = conn[c].is_using
    BY <1>2, <1>3, <1>5 DEF ConnType
  <2> QED BY <2>1, <1>5
<1>11. Seated'
  BY <1>6, <1>7, <1>10 DEF Placed, Seated
<1>12. ASSUME NEW s \in Requests PROVE Progress(s)'
  <2>1. Progress(s) /\ Mine(s) \in Conns
    BY DEF Placed, Coroutines, TypeOK, Mine
  <2>2. Waits(s) => conn'[Mine(s)] = conn[Mine(s)]
    BY <2>1, <1>5, <1>8
  <2>3. req[s].step \in {"connecting", "sending"} <=> Waits(s)
    BY DEF Waits
  <2> QED BY <2>1, <2>2, <2>3, <1>6, <1>7 DEF Progress
<1> QED BY <1>6, <1>9, <1>11, <1>12 DEF Placed, Coroutines, Injective

-----------------------------------------------------------------------------
(* Types and places                                                        *)

LEMMA InitPlaced == Init => Placed
<1> SUFFICES ASSUME Init PROVE Placed
  OBVIOUS
<1>0. Cardinality(Conns) \in Nat /\ MaxFaults \in Nat
  BY HttpAssumption, FS_CardinalityType
<1>1. PICK c : c = CHOOSE d \in Conns : TRUE
  OBVIOUS
<1>2. c \in Conns
  BY <1>1, HttpAssumption
<1>3. PICK q : q = NewRequest
  OBVIOUS
<1>4. /\ q \in ReqType /\ q.step = "new" /\ ~q.arrived /\ q.executed = 0 /\ q.calls = 0
      /\ q.result = "none"
  BY <1>0, <1>1, <1>2, <1>3 DEF NewRequest, ReqType
<1>5. Fresh \in ConnType /\ ~Fresh.is_using
  BY DEF Fresh, ConnType, Links
<1>6. req = [r \in Requests |-> q]
  BY <1>3 DEF Init
<1>7. TypeOK
  BY <1>0, <1>4, <1>5, <1>6 DEF Init, TypeOK, ConnType, ReqType
<1>8. \A r \in Requests : ~Waits(r)
  BY <1>4, <1>6 DEF Waits
<1>9. Injective /\ Seated
  BY <1>5, <1>8 DEF Init, Injective, Seated
<1>10. Coroutines
  BY <1>4, <1>6, <1>8 DEF Coroutines, Progress
<1> QED BY <1>7, <1>9, <1>10 DEF Placed

\* A resumed coroutine ends or connects anew, or its connection is made.
LEMMA ResumesPlaced ==
  ASSUME Placed, NEW r \in Requests, Resumes(r)
  PROVE  Placed'
<1>1. TypeOK /\ faults \in 0 .. MaxFaults /\ MaxFaults \in Nat
  BY HttpAssumption DEF Placed, TypeOK
<1>2. CASE Connected(r)
  BY <1>2, ConnectedPlaced
<1>3. ASSUME NEW link \in Links, ConnectFails(r, link) PROVE Placed'
  <2>1. req[r].step = "connecting" /\ Ends(r, link, conn[Mine(r)].stale, "error")
    BY <1>1, <1>3, Endings
  <2>2. Waits(r)
    BY <2>1 DEF Waits
  <2>3. faults' \in 0 .. MaxFaults
    BY <1>1, <1>3 DEF ConnectFails
  <2>4. conn[Mine(r)].stale \in BOOLEAN
    BY <2>2, Suspended DEF ConnType
  <2> QED BY <2>1, <2>2, <2>3, <2>4, EndsPlaced
<1>4. CASE Answered(r)
  <2>1. PICK result \in {"ok", "garbled", "error"} : Ends(r, conn[Mine(r)].link, FALSE, result)
    BY <1>1, <1>4, Endings
  <2>2. Waits(r)
    BY <1>4 DEF Waits, Answered
  <2>3. conn[Mine(r)].link \in Links
    BY <2>2, Suspended DEF ConnType
  <2>4. faults' \in 0 .. MaxFaults
    BY <1>1, <1>4 DEF Answered
  <2> QED BY <2>1, <2>2, <2>3, <2>4, EndsPlaced
<1>5. ASSUME NEW link \in Links, NEW partial \in BOOLEAN, Fails(r, link, partial),
             faults' \in 0 .. MaxFaults
      PROVE  Placed'
  <2>1. /\ req[r].step = "sending"
        /\ IF req[r].reused THEN Again(r, conn[Mine(r)].stale \/ partial)
                            ELSE Ends(r, link, FALSE, "error")
    BY <1>1, <1>5, Endings
  <2>2. Waits(r)
    BY <2>1 DEF Waits
  <2>3. CASE req[r].reused
    <3>1. PICK stale \in BOOLEAN : Again(r, stale)
      BY <2>1, <2>3
    <3> QED BY <1>5, <2>1, <2>3, <3>1, AgainPlaced
  <2>4. CASE ~req[r].reused
    BY <1>5, <2>1, <2>2, <2>4, EndsPlaced
  <2> QED BY <2>3, <2>4
<1>6. CASE Breaks(r)
  <2>1. PICK link \in {"half", "open"}, partial \in BOOLEAN : Fails(r, link, partial)
    BY <1>6 DEF Breaks
  <2>2. faults' \in 0 .. MaxFaults /\ link \in Links
    BY <1>1, <1>6 DEF Breaks, Links
  <2> QED BY <1>5, <2>1, <2>2
<1>7. CASE TimedOut(r)
  <2>1. PICK partial \in BOOLEAN : Fails(r, "closed", partial)
    BY <1>7 DEF TimedOut
  <2>2. faults' \in 0 .. MaxFaults /\ "closed" \in Links
    BY <1>1, <1>7 DEF TimedOut, Links
  <2> QED BY <1>5, <2>1, <2>2
<1>8. CASE FindsClosed(r)
  <2>1. Fails(r, "half", FALSE) /\ faults' \in 0 .. MaxFaults /\ "half" \in Links
    BY <1>1, <1>8 DEF FindsClosed, Links
  <2> QED BY <1>5, <2>1
<1> QED BY <1>2, <1>3, <1>4, <1>6, <1>7, <1>8 DEF Resumes

LEMMA NextPlaced == Placed /\ [Next]_vars => Placed'
<1> SUFFICES ASSUME Placed, [Next]_vars PROVE Placed'
  OBVIOUS
<1>1. ASSUME NEW r \in Requests, Send(r) PROVE Placed'
  <2>1. req[r].step = "new"
    BY <1>1 DEF Send
  <2>2. CASE \E i \in DOMAIN pool : Take(r, i)
    BY <2>1, <2>2, TakePlaced
  <2>3. CASE \E c \in Conns : Enlarge(r, c)
    BY <2>1, <2>3, EnlargePlaced
  <2> QED BY <1>1, <2>2, <2>3 DEF Send
<1>2. CASE UNCHANGED vars
  BY <1>2 DEF vars, Placed, TypeOK, Injective, Seated, Coroutines, Progress, Waits, Mine
<1> QED BY <1>1, <1>2, ExecutesPlaced, ExpiresPlaced, ResumesPlaced, IdlePlaced DEF Next

\* The types.
THEOREM TypeCorrect == Spec => []TypeOK
<1>1. Placed => TypeOK
  BY DEF Placed
<1> QED BY <1>1, InitPlaced, NextPlaced, PTL DEF Spec

\* A suspended coroutine keeps its connection, and its connection its place in
\* the pool: neither the reference nor the index it holds over a co_await goes
\* stale, however many requests enlarge the pool or trim it.
THEOREM PlacesKept == Spec => []UsersKeepTheirPlace
<1>1. Placed => UsersKeepTheirPlace
  <2> SUFFICES ASSUME Placed PROVE UsersKeepTheirPlace
    OBVIOUS
  <2>1. \A c \in Pooled : c \in Conns
    BY DEF Placed, TypeOK, Pooled
  <2> QED BY <2>1 DEF Placed, Seated, UsersKeepTheirPlace
<1> QED BY <1>1, InitPlaced, NextPlaced, PTL DEF Spec

-----------------------------------------------------------------------------
(* The potential                                                           *)

LEMMA Sizes ==
  ASSUME NEW S, NEW T, NEW x, IsFiniteSet(S)
  PROVE  /\ Cardinality(S) \in Nat
         /\ T \subseteq S => Cardinality(T) \in Nat /\ Cardinality(T) <= Cardinality(S)
         /\ T \subseteq S \cup {x} => Cardinality(T) \in Nat /\ Cardinality(T) <= Cardinality(S) + 1
         /\ x \in S /\ T \subseteq S \ {x} =>
              Cardinality(T) \in Nat /\ Cardinality(T) <= Cardinality(S) - 1
<1>1. Cardinality(S) \in Nat
  BY FS_CardinalityType
<1>2. ASSUME T \subseteq S PROVE Cardinality(T) \in Nat /\ Cardinality(T) <= Cardinality(S)
  BY <1>2, FS_Subset, FS_CardinalityType
<1>3. ASSUME T \subseteq S \cup {x}
      PROVE  Cardinality(T) \in Nat /\ Cardinality(T) <= Cardinality(S) + 1
  <2>1. IsFiniteSet(S \cup {x}) /\ Cardinality(S \cup {x}) \in {Cardinality(S), Cardinality(S) + 1}
    BY FS_AddElement
  <2>2. IsFiniteSet(T) /\ Cardinality(T) <= Cardinality(S \cup {x})
    BY <1>3, <2>1, FS_Subset
  <2>3. Cardinality(T) \in Nat
    BY <2>2, FS_CardinalityType
  <2> QED BY <1>1, <2>1, <2>2, <2>3
<1>4. ASSUME x \in S, T \subseteq S \ {x}
      PROVE  Cardinality(T) \in Nat /\ Cardinality(T) <= Cardinality(S) - 1
  <2>1. IsFiniteSet(S \ {x}) /\ Cardinality(S \ {x}) = Cardinality(S) - 1
    BY <1>4, FS_RemoveElement
  <2>2. IsFiniteSet(T) /\ Cardinality(T) <= Cardinality(S \ {x})
    BY <1>4, <2>1, FS_Subset
  <2>3. Cardinality(T) \in Nat
    BY <2>2, FS_CardinalityType
  <2> QED BY <1>1, <2>1, <2>2, <2>3
<1> QED BY <1>1, <1>2, <1>3, <1>4

LEMMA Finite ==
  /\ IsFiniteSet(Marked) /\ IsFiniteSet(ClosedInUse) /\ IsFiniteSet(LooseStale)
  /\ Cardinality(Marked) \in Nat /\ Cardinality(ClosedInUse) \in Nat /\ Cardinality(LooseStale) \in Nat
<1>1. Marked \subseteq Requests /\ ClosedInUse \subseteq Conns /\ LooseStale \subseteq Conns
  BY DEF Marked, ClosedInUse, LooseStale
<1>2. IsFiniteSet(Marked) /\ IsFiniteSet(ClosedInUse) /\ IsFiniteSet(LooseStale)
  BY <1>1, HttpAssumption, FS_Subset
<1> QED BY <1>2, FS_CardinalityType

\* A step that marks at most one request, closes at most one connection and
\* leaves no more stale bytes behind is paid if the network has failed for each.
LEMMA NoWorse ==
  ASSUME HarmIsPaid, faults \in Nat, faults' = faults,
         Marked' \subseteq Marked, ClosedInUse' \subseteq ClosedInUse, LooseStale' \subseteq LooseStale
  PROVE  HarmIsPaid'
<1>1. /\ Cardinality(Marked') \in Nat /\ Cardinality(Marked') <= Cardinality(Marked)
      /\ Cardinality(ClosedInUse') \in Nat /\ Cardinality(ClosedInUse') <= Cardinality(ClosedInUse)
      /\ Cardinality(LooseStale') \in Nat /\ Cardinality(LooseStale') <= Cardinality(LooseStale)
  BY Finite, Sizes
<1> QED BY <1>1, Finite DEF HarmIsPaid

LEMMA OneFault ==
  ASSUME HarmIsPaid, faults \in Nat, faults' = faults + 1, NEW r, NEW c,
         \/ /\ Marked' \subseteq Marked \cup {r}
            /\ ClosedInUse' \subseteq ClosedInUse /\ LooseStale' \subseteq LooseStale
         \/ /\ Marked' \subseteq Marked
            /\ ClosedInUse' \subseteq ClosedInUse \cup {c} /\ LooseStale' \subseteq LooseStale
         \/ /\ Marked' \subseteq Marked
            /\ ClosedInUse' \subseteq ClosedInUse /\ LooseStale' \subseteq LooseStale \cup {c}
  PROVE  HarmIsPaid'
<1> DEFINE m == Cardinality(Marked)
           u == Cardinality(ClosedInUse)
           l == Cardinality(LooseStale)
           mp == Cardinality(Marked')
           up == Cardinality(ClosedInUse')
           lp == Cardinality(LooseStale')
<1>1. m \in Nat /\ u \in Nat /\ l \in Nat
  BY Finite
<1>2. /\ Marked' \subseteq Marked => mp \in Nat /\ mp <= m
      /\ Marked' \subseteq Marked \cup {r} => mp \in Nat /\ mp <= m + 1
  BY Finite, Sizes
<1>3. /\ ClosedInUse' \subseteq ClosedInUse => up \in Nat /\ up <= u
      /\ ClosedInUse' \subseteq ClosedInUse \cup {c} => up \in Nat /\ up <= u + 1
  BY Finite, Sizes
<1>4. /\ LooseStale' \subseteq LooseStale => lp \in Nat /\ lp <= l
      /\ LooseStale' \subseteq LooseStale \cup {c} => lp \in Nat /\ lp <= l + 1
  BY Finite, Sizes
<1>5. mp \in Nat /\ up \in Nat /\ lp \in Nat /\ mp + up + lp <= m + u + l + 1
  <2> HIDE DEF m, u, l, mp, up, lp
  <2> QED BY <1>1, <1>2, <1>3, <1>4
<1>6. m + u + l <= faults
  BY DEF HarmIsPaid
<1>7. mp + up + lp <= faults'
  <2> HIDE DEF m, u, l, mp, up, lp
  <2> QED BY <1>1, <1>5, <1>6
<1> QED BY <1>7 DEF HarmIsPaid

\* The harm that a timeout does was paid when it closed the connection, that of
\* stale bytes when they were left behind.
LEMMA PaidBefore ==
  ASSUME HarmIsPaid, faults \in Nat, faults' = faults, NEW r, NEW c,
         \/ /\ c \in ClosedInUse /\ ClosedInUse' \subseteq ClosedInUse \ {c}
            /\ \/ Marked' \subseteq Marked \cup {r} /\ LooseStale' \subseteq LooseStale
               \/ Marked' \subseteq Marked /\ LooseStale' \subseteq LooseStale \cup {c}
         \/ /\ c \in LooseStale /\ LooseStale' \subseteq LooseStale \ {c}
            /\ Marked' \subseteq Marked \cup {r} /\ ClosedInUse' \subseteq ClosedInUse
  PROVE  HarmIsPaid'
<1> DEFINE m == Cardinality(Marked)
           u == Cardinality(ClosedInUse)
           l == Cardinality(LooseStale)
           mp == Cardinality(Marked')
           up == Cardinality(ClosedInUse')
           lp == Cardinality(LooseStale')
<1>1. m \in Nat /\ u \in Nat /\ l \in Nat
  BY Finite
<1>2. /\ Marked' \subseteq Marked => mp \in Nat /\ mp <= m
      /\ Marked' \subseteq Marked \cup {r} => mp \in Nat /\ mp <= m + 1
  BY Finite, Sizes
<1>3. /\ ClosedInUse' \subseteq ClosedInUse => up \in Nat /\ up <= u
      /\ c \in ClosedInUse /\ ClosedInUse' \subseteq ClosedInUse \ {c} => up \in Nat /\ up <= u - 1
  BY Finite, Sizes
<1>4. /\ LooseStale' \subseteq LooseStale => lp \in Nat /\ lp <= l
      /\ LooseStale' \subseteq LooseStale \cup {c} => lp \in Nat /\ lp <= l + 1
      /\ c \in LooseStale /\ LooseStale' \subseteq LooseStale \ {c} => lp \in Nat /\ lp <= l - 1
  BY Finite, Sizes
<1>5. mp \in Nat /\ up \in Nat /\ lp \in Nat /\ mp + up + lp <= m + u + l
  <2> HIDE DEF m, u, l, mp, up, lp
  <2> QED BY <1>1, <1>2, <1>3, <1>4
<1>6. m + u + l <= faults
  BY DEF HarmIsPaid
<1>7. mp + up + lp <= faults'
  <2> HIDE DEF m, u, l, mp, up, lp
  <2> QED BY <1>1, <1>5, <1>6
<1> QED BY <1>7 DEF HarmIsPaid

\* What the end of r's coroutine does to the three sets.
LEMMA EndsCounts ==
  ASSUME Placed, NEW r \in Requests, Waits(r), NEW link \in Links, NEW stale \in BOOLEAN,
         NEW result \in {"ok", "garbled", "error"}, Ends(r, link, stale, result)
  PROVE  /\ Marked' \subseteq Marked \cup {r}
         /\ r \in Marked \/ result = "ok" => Marked' \subseteq Marked
         /\ ClosedInUse' \subseteq ClosedInUse \ {Mine(r)}
         /\ ~stale => LooseStale' \subseteq LooseStale \ {Mine(r)}
         /\ LooseStale' \subseteq LooseStale \cup {Mine(r)}
         /\ conn[Mine(r)].stale /\ r \notin Marked => Mine(r) \in LooseStale
<1> DEFINE c == Mine(r)
<1>1. c \in Conns /\ req[r] \in ReqType /\ req[r].result = "none" /\ \A s \in Requests : Mine(s) \in Conns
  BY Suspended DEF Placed, TypeOK, Mine
<1>2. /\ conn'[c] = [link |-> link, is_using |-> FALSE, stale |-> stale]
      /\ \A d \in Conns : d # c => conn'[d] = conn[d]
  BY <1>1 DEF Ends, Placed, TypeOK
<1>3. PICK n : n = req[r].calls + 1
  OBVIOUS
<1>4. /\ req'[r] = [req[r] EXCEPT !.step = "done", !.calls = n, !.result = result]
      /\ \A s \in Requests : s # r => req'[s] = req[s]
  BY <1>3 DEF Ends, Placed, TypeOK
<1>5. /\ req'[r].step = "done" /\ req'[r].result = result /\ req'[r].executed = req[r].executed
  BY <1>1, <1>4 DEF ReqType
<1>6. \A s \in Requests : s # r => (Hurt(s)' <=> Hurt(s)) /\ (Waits(s)' <=> Waits(s)) /\ Mine(s)' = Mine(s)
  BY <1>4 DEF Hurt, Waits, Mine
<1>7. ~Waits(r)'
  BY <1>5 DEF Waits
<1>8. \A s \in Requests : Waits(s) /\ s # r => Mine(s) # c
  BY DEF Placed, Seated
<1>9. Marked' \subseteq Marked \cup {r}
  BY <1>6 DEF Marked
<1>10. ASSUME result = "ok" PROVE Hurt(r)' => Hurt(r)
  BY <1>5, <1>7, <1>10 DEF Hurt
<1>11. r \in Marked \/ result = "ok" => Marked' \subseteq Marked
  BY <1>6, <1>10 DEF Marked
<1>12. ClosedInUse' \subseteq ClosedInUse \ {c}
  BY <1>2 DEF ClosedInUse
<1>13. ASSUME NEW d \in LooseStale', d # c PROVE d \in LooseStale
  <2>1. d \in Conns /\ conn[d].stale
    BY <1>2, <1>13 DEF LooseStale
  <2>2. \A s \in Requests : ~(Waits(s)' /\ Mine(s)' = d /\ Hurt(s)')
    BY DEF LooseStale
  <2>3. \A s \in Requests : ~(Waits(s) /\ Mine(s) = d /\ Hurt(s))
    BY <2>2, <1>6, <1>13
  <2> QED BY <2>1, <2>3 DEF LooseStale
<1>14. ~stale => c \notin LooseStale'
  BY <1>2 DEF LooseStale
<1>15. conn[c].stale /\ r \notin Marked => c \in LooseStale
  BY <1>1, <1>8 DEF LooseStale, Marked
<1> HIDE DEF c
<1>16. (~stale => LooseStale' \subseteq LooseStale \ {c}) /\ LooseStale' \subseteq LooseStale \cup {c}
  BY <1>13, <1>14
<1> QED BY <1>9, <1>11, <1>12, <1>15, <1>16 DEF c

\* What sending again does to them: the request that the server has carried out,
\* and no other, is marked; whoever has left stale bytes behind is it.
LEMMA AgainCounts ==
  ASSUME Placed, NEW r \in Requests, req[r].step = "sending", req[r].reused,
         NEW partial \in BOOLEAN, partial => req[r].arrived,
         Again(r, conn[Mine(r)].stale \/ partial)
  PROVE  /\ Marked' \subseteq Marked \cup {r}
         /\ ~req[r].arrived => Marked' \subseteq Marked
         /\ ClosedInUse' \subseteq ClosedInUse \ {Mine(r)}
         /\ LooseStale' \subseteq LooseStale
<1> DEFINE c == Mine(r)
<1>0. Waits(r)
  BY DEF Waits
<1>1. c \in Conns /\ req[r] \in ReqType /\ conn[c] \in ConnType
  BY <1>0, Suspended
<1>2. req[r].result = "none" /\ req[r].executed = IF req[r].arrived THEN 1 ELSE 0
  BY <1>0, Suspended DEF Progress
<1>3. PICK stale \in BOOLEAN : stale = (conn[c].stale \/ partial)
  BY Zenon
<1>4. conn' = [conn EXCEPT ![c].link = "open", ![c].stale = stale]
  BY <1>3 DEF Again
<1>5. /\ conn'[c] = [conn[c] EXCEPT !.link = "open", !.stale = stale]
      /\ \A d \in Conns : d # c => conn'[d] = conn[d]
  BY <1>1, <1>4 DEF Placed, TypeOK
<1>6. conn'[c].link = "open" /\ conn'[c].stale = stale
  BY <1>1, <1>5 DEF ConnType
<1>7. /\ req'[r] = [req[r] EXCEPT !.step = "connecting", !.reused = FALSE, !.arrived = FALSE]
      /\ \A s \in Requests : s # r => req'[s] = req[s]
  BY DEF Again, Placed, TypeOK
<1>8. /\ req'[r].step = "connecting" /\ ~req'[r].arrived /\ req'[r].result = "none"
      /\ req'[r].executed = req[r].executed /\ req'[r].conn = c
  BY <1>0, <1>1, <1>2, <1>7, Suspended DEF ReqType
<1>9. \A s \in Requests : s # r => (Hurt(s)' <=> Hurt(s)) /\ (Waits(s)' <=> Waits(s)) /\ Mine(s)' = Mine(s)
  BY <1>7 DEF Hurt, Waits, Mine
<1>10. Waits(r)' /\ Mine(r)' = c
  BY <1>8 DEF Waits, Mine
<1>11. /\ req[r].arrived => Hurt(r)'
       /\ ~req[r].arrived => ~Hurt(r)' /\ ~Hurt(r)
  <2>1. req[r].arrived => Hurt(r)'
    BY <1>2, <1>8, <1>10 DEF Hurt
  <2>2. ASSUME ~req[r].arrived PROVE ~Hurt(r)' /\ ~Hurt(r)
    <3>1. req[r].executed = 0 /\ req'[r].executed = 0
      BY <1>2, <1>8, <2>2
    <3> QED BY <3>1, <1>2, <1>8 DEF Hurt
  <2> QED BY <2>1, <2>2
<1>12. Marked' \subseteq Marked \cup {r}
  BY <1>9 DEF Marked
<1>13. ~req[r].arrived => Marked' \subseteq Marked
  BY <1>9, <1>11 DEF Marked
<1>14. ClosedInUse' \subseteq ClosedInUse \ {c}
  BY <1>5, <1>6 DEF ClosedInUse
<1>15. \A s \in Requests : Waits(s) /\ s # r => Mine(s) # c
  BY <1>0 DEF Placed, Seated
<1>16. ASSUME NEW d \in LooseStale' PROVE d \in LooseStale
  <2>1. \A s \in Requests : ~(Waits(s)' /\ Mine(s)' = d /\ Hurt(s)')
    BY DEF LooseStale
  <2>2. d \in Conns /\ conn'[d].stale
    BY DEF LooseStale
  <2>3. CASE d = c
    <3>1. ~req[r].arrived
      BY <2>1, <2>3, <1>10, <1>11
    <3>2. conn[c].stale
      <4>1. stale /\ ~partial
        BY <2>2, <2>3, <3>1, <1>6
      <4> QED BY <4>1, <1>3
    <3>3. \A s \in Requests : ~(Waits(s) /\ Mine(s) = d /\ Hurt(s))
      BY <2>3, <3>1, <1>11, <1>15
    <3> QED BY <2>2, <2>3, <3>2, <3>3 DEF LooseStale
  <2>4. CASE d # c
    <3>1. conn[d].stale
      BY <2>2, <2>4, <1>5
    <3>2. \A s \in Requests : ~(Waits(s) /\ Mine(s) = d /\ Hurt(s))
      BY <2>1, <2>4, <1>9
    <3> QED BY <2>2, <3>1, <3>2 DEF LooseStale
  <2> QED BY <2>3, <2>4
<1> QED BY <1>12, <1>13, <1>14, <1>16

\* Nobody is hurt by a request that is given a connection.
LEMMA SendCounts ==
  ASSUME Placed, NEW r \in Requests, Send(r)
  PROVE  /\ Marked' \subseteq Marked /\ ClosedInUse' \subseteq ClosedInUse
         /\ LooseStale' \subseteq LooseStale /\ faults' = faults
<1>1. /\ req[r].step = "new" /\ ~Waits(r) /\ req[r] \in ReqType
      /\ req[r].executed = 0 /\ req[r].result = "none"
  BY DEF Send, Placed, TypeOK, ReqType, Coroutines, Progress, Waits
<1>2. ASSUME NEW c \in Conns, NEW k \in ConnType, NEW q,
             q.executed = 0, q.result = "none", q.conn = c, ~conn[c].is_using,
             k.link # "closed", k.stale => conn[c].stale,
             conn' = [conn EXCEPT ![c] = k], req' = [req EXCEPT ![r] = q]
      PROVE  /\ Marked' \subseteq Marked /\ ClosedInUse' \subseteq ClosedInUse
             /\ LooseStale' \subseteq LooseStale
  <2>1. /\ req'[r] = q /\ \A s \in Requests : s # r => req'[s] = req[s]
        /\ conn'[c] = k /\ \A d \in Conns : d # c => conn'[d] = conn[d]
    BY <1>2 DEF Placed, TypeOK
  <2>2. \A s \in Requests : s # r => (Hurt(s)' <=> Hurt(s)) /\ (Waits(s)' <=> Waits(s)) /\ Mine(s)' = Mine(s)
    BY <2>1 DEF Hurt, Waits, Mine
  <2>3. ~Hurt(r)' /\ ~Hurt(r)
    BY <1>1, <1>2, <2>1 DEF Hurt
  <2>4. Marked' \subseteq Marked
    BY <2>2, <2>3 DEF Marked
  <2>5. ClosedInUse' \subseteq ClosedInUse
    BY <1>2, <2>1 DEF ClosedInUse
  <2>6. ASSUME NEW d \in LooseStale' PROVE d \in LooseStale
    <3>1. d \in Conns /\ conn[d].stale
      BY <1>2, <2>1 DEF LooseStale
    <3>2. \A s \in Requests : ~(Waits(s)' /\ Mine(s)' = d /\ Hurt(s)')
      BY DEF LooseStale
    <3>3. \A s \in Requests : ~(Waits(s) /\ Mine(s) = d /\ Hurt(s))
      BY <2>2, <2>3, <3>2
    <3> QED BY <3>1, <3>3 DEF LooseStale
  <2> QED BY <2>4, <2>5, <2>6
<1>3. ASSUME NEW i \in DOMAIN pool, Take(r, i)
      PROVE  /\ Marked' \subseteq Marked /\ ClosedInUse' \subseteq ClosedInUse
             /\ LooseStale' \subseteq LooseStale /\ faults' = faults
  <2> DEFINE c == pool[i]
  <2>1. PICK works \in BOOLEAN : works = (conn[c].link \in {"up", "half"})
    <3>1. (conn[c].link \in {"up", "half"}) \in BOOLEAN
      BY SMT
    <3>2. \E works \in BOOLEAN : works = (conn[c].link \in {"up", "half"})
      BY <3>1, Zenon
    <3> QED BY <3>2
  <2>2. /\ conn' = [conn EXCEPT ![c].is_using = TRUE, ![c].link = IF works THEN @ ELSE "open"]
        /\ req' = [req EXCEPT ![r].step = IF works THEN "sending" ELSE "connecting",
                              ![r].conn = c, ![r].index = i, ![r].reused = works]
        /\ faults' = faults
    BY <1>3, <2>1, Zenon DEF Take
  <2>3. c \in Conns /\ conn[c] \in ConnType /\ ~conn[c].is_using
    BY <1>3 DEF Take, Unused, Placed, TypeOK, ConnType
  <2>4. PICK k : k = [conn[c] EXCEPT !.is_using = TRUE, !.link = IF works THEN @ ELSE "open"]
    OBVIOUS
  <2>5. k \in ConnType /\ k.link # "closed" /\ (k.stale => conn[c].stale)
    BY <2>1, <2>3, <2>4 DEF ConnType, Links
  <2>6. conn' = [conn EXCEPT ![c] = k]
    BY <2>2, <2>3, <2>4 DEF Placed, TypeOK
  <2>7. PICK st : st = IF works THEN "sending" ELSE "connecting"
    OBVIOUS
  <2>8. PICK q : q = [req[r] EXCEPT !.step = st, !.conn = c, !.index = i, !.reused = works]
    OBVIOUS
  <2>9. q.executed = 0 /\ q.result = "none" /\ q.conn = c
    BY <1>1, <2>8 DEF ReqType
  <2>10. req' = [req EXCEPT ![r] = q]
    BY <2>2, <2>7, <2>8 DEF Placed, TypeOK
  <2> HIDE DEF c
  <2> QED BY <1>2, <2>2, <2>3, <2>5, <2>6, <2>9, <2>10
<1>4. ASSUME NEW c \in Conns, Enlarge(r, c)
      PROVE  /\ Marked' \subseteq Marked /\ ClosedInUse' \subseteq ClosedInUse
             /\ LooseStale' \subseteq LooseStale /\ faults' = faults
  <2>1. /\ conn' = [conn EXCEPT ![c] = [Fresh EXCEPT !.is_using = TRUE, !.link = "open"]]
        /\ req' = [req EXCEPT ![r].step = "connecting", ![r].conn = c,
                              ![r].index = Len(pool) + 1, ![r].reused = FALSE]
        /\ faults' = faults /\ c \notin Pooled
    BY <1>4, Zenon DEF Enlarge
  <2>2. ~conn[c].is_using
    <3>1. \A s \in Requests : Waits(s) => Mine(s) \in Pooled
      BY DEF Placed, Seated, Pooled
    <3> QED BY <2>1, <3>1 DEF Placed, Seated
  <2>3. PICK k : k = [Fresh EXCEPT !.is_using = TRUE, !.link = "open"]
    OBVIOUS
  <2>4. k \in ConnType /\ k.link # "closed" /\ ~k.stale
    BY <2>3 DEF ConnType, Links, Fresh
  <2>5. PICK n : n = Len(pool) + 1
    OBVIOUS
  <2>6. PICK q : q = [req[r] EXCEPT !.step = "connecting", !.conn = c, !.index = n, !.reused = FALSE]
    OBVIOUS
  <2>7. q.executed = 0 /\ q.result = "none" /\ q.conn = c
    BY <1>1, <2>6 DEF ReqType
  <2>8. req' = [req EXCEPT ![r] = q] /\ conn' = [conn EXCEPT ![c] = k]
    BY <2>1, <2>3, <2>5, <2>6 DEF Placed, TypeOK
  <2> QED BY <1>2, <2>1, <2>2, <2>4, <2>7, <2>8
<1> QED BY <1>1, <1>3, <1>4 DEF Send

\* Nor when the server carries it out, the first time or again.
LEMMA ExecutesCounts ==
  ASSUME Placed, NEW r \in Requests, Executes(r)
  PROVE  /\ Marked' \subseteq Marked /\ ClosedInUse' \subseteq ClosedInUse
         /\ LooseStale' \subseteq LooseStale /\ faults' = faults
<1>0. Waits(r)
  BY DEF Waits, Executes
<1>1. /\ req[r] \in ReqType /\ req[r].result = "none" /\ ~req[r].arrived /\ req[r].executed \in 0 .. 1
      /\ req[r].step = "sending"
  BY <1>0, Suspended DEF Executes, Progress
<1>2. PICK n : n = req[r].executed + 1
  OBVIOUS
<1>3. /\ req'[r] = [req[r] EXCEPT !.arrived = TRUE, !.executed = n]
      /\ \A s \in Requests : s # r => req'[s] = req[s]
      /\ conn' = conn /\ faults' = faults
  BY <1>2 DEF Executes, Placed, TypeOK
<1>4. /\ req'[r].arrived /\ req'[r].executed = n /\ req'[r].result = "none"
      /\ req'[r].conn = req[r].conn /\ req'[r].step = "sending"
  BY <1>1, <1>3 DEF ReqType
<1>5. \A s \in Requests : (Waits(s)' <=> Waits(s)) /\ Mine(s)' = Mine(s)
  BY <1>1, <1>3, <1>4 DEF Waits, Mine
<1>6. Hurt(r)' <=> Hurt(r)
  <2>1. Hurt(r)' <=> n > 1
    BY <1>4 DEF Hurt
  <2>2. Hurt(r) <=> req[r].executed = 1
    BY <1>0, <1>1 DEF Hurt
  <2>3. n > 1 <=> req[r].executed = 1
    BY <1>1, <1>2
  <2> QED BY <2>1, <2>2, <2>3
<1>7. \A s \in Requests : Hurt(s)' <=> Hurt(s)
  <2>1. \A s \in Requests : s # r => (Hurt(s)' <=> Hurt(s))
    BY <1>3 DEF Hurt, Waits
  <2> QED BY <2>1, <1>6
<1>8. Marked' \subseteq Marked
  BY <1>7 DEF Marked
<1>9. ClosedInUse' \subseteq ClosedInUse
  BY <1>3 DEF ClosedInUse
<1>10. LooseStale' \subseteq LooseStale
  BY <1>3, <1>5, <1>7 DEF LooseStale
<1> QED BY <1>3, <1>8, <1>9, <1>10

\* A timeout closes one connection.
LEMMA ExpiresCounts ==
  ASSUME Placed, NEW r \in Requests, Expires(r)
  PROVE  /\ Marked' \subseteq Marked /\ ClosedInUse' \subseteq ClosedInUse \cup {Mine(r)}
         /\ LooseStale' \subseteq LooseStale /\ faults' = faults + 1
<1>1. Mine(r) \in Conns /\ conn[Mine(r)] \in ConnType
  BY Suspended DEF Expires
<1>2. /\ conn'[Mine(r)] = [conn[Mine(r)] EXCEPT !.link = "closed"]
      /\ \A d \in Conns : d # Mine(r) => conn'[d] = conn[d]
      /\ req' = req /\ faults' = faults + 1
  BY <1>1 DEF Expires, Placed, TypeOK
<1>3. \A d \in Conns : conn'[d].stale = conn[d].stale
  <2>1. conn'[Mine(r)].stale = conn[Mine(r)].stale
    BY <1>1, <1>2 DEF ConnType
  <2> QED BY <2>1, <1>2
<1>4. \A s \in Requests : (Waits(s)' <=> Waits(s)) /\ Mine(s)' = Mine(s) /\ (Hurt(s)' <=> Hurt(s))
  BY <1>2 DEF Hurt, Waits, Mine
<1>5. Marked' \subseteq Marked /\ LooseStale' \subseteq LooseStale
  BY <1>3, <1>4 DEF Marked, LooseStale
<1>6. ClosedInUse' \subseteq ClosedInUse \cup {Mine(r)}
  BY <1>2 DEF ClosedInUse
<1> QED BY <1>2, <1>5, <1>6

LEMMA ConnectedCounts ==
  ASSUME Placed, NEW r \in Requests, Connected(r)
  PROVE  /\ Marked' \subseteq Marked /\ ClosedInUse' \subseteq ClosedInUse
         /\ LooseStale' \subseteq LooseStale /\ faults' = faults
<1>0. Waits(r)
  BY DEF Waits, Connected
<1>1. /\ Mine(r) \in Conns /\ conn[Mine(r)] \in ConnType /\ req[r] \in ReqType
  BY <1>0, Suspended
<1>2. /\ conn'[Mine(r)] = [conn[Mine(r)] EXCEPT !.link = "up"]
      /\ \A d \in Conns : d # Mine(r) => conn'[d] = conn[d]
      /\ req'[r] = [req[r] EXCEPT !.step = "sending"]
      /\ \A s \in Requests : s # r => req'[s] = req[s]
      /\ faults' = faults
  BY <1>1 DEF Connected, Placed, TypeOK
<1>3. /\ req'[r].step = "sending" /\ req'[r].conn = req[r].conn /\ req'[r].arrived = req[r].arrived
      /\ req'[r].executed = req[r].executed /\ req'[r].result = req[r].result
  BY <1>1, <1>2 DEF ReqType
<1>4. conn'[Mine(r)].link = "up" /\ conn'[Mine(r)].stale = conn[Mine(r)].stale
  BY <1>1, <1>2 DEF ConnType
<1>5. Waits(r)' /\ Mine(r)' = Mine(r) /\ (Hurt(r)' <=> Hurt(r))
  BY <1>0, <1>3 DEF Hurt, Waits, Mine
<1>6. \A s \in Requests : (Waits(s)' <=> Waits(s)) /\ Mine(s)' = Mine(s) /\ (Hurt(s)' <=> Hurt(s))
  <2>1. \A s \in Requests : s # r => (Waits(s)' <=> Waits(s)) /\ Mine(s)' = Mine(s) /\ (Hurt(s)' <=> Hurt(s))
    BY <1>2 DEF Hurt, Waits, Mine
  <2> QED BY <2>1, <1>0, <1>5
<1>7. \A d \in Conns : conn'[d].stale = conn[d].stale
  BY <1>2, <1>4
<1>8. Marked' \subseteq Marked /\ LooseStale' \subseteq LooseStale
  BY <1>6, <1>7 DEF Marked, LooseStale
<1>9. ClosedInUse' \subseteq ClosedInUse
  BY <1>2, <1>4 DEF ClosedInUse
<1> QED BY <1>2, <1>8, <1>9

LEMMA IdleCounts ==
  ASSUME Placed, NEW c \in Conns, IdleCloses(c)
  PROVE  /\ Marked' \subseteq Marked /\ ClosedInUse' \subseteq ClosedInUse
         /\ LooseStale' \subseteq LooseStale /\ faults' = faults
<1>1. PICK link \in {"half", "open"} : conn' = [conn EXCEPT ![c].link = link]
  BY DEF IdleCloses
<1>2. conn[c] \in ConnType /\ req' = req /\ faults' = faults
  BY DEF IdleCloses, Placed, TypeOK, ConnType
<1>3. /\ conn'[c] = [conn[c] EXCEPT !.link = link]
      /\ \A d \in Conns : d # c => conn'[d] = conn[d]
  BY <1>1 DEF Placed, TypeOK
<1>4. conn'[c].stale = conn[c].stale /\ conn'[c].link # "closed"
  BY <1>2, <1>3 DEF ConnType
<1>5. \A s \in Requests : (Waits(s)' <=> Waits(s)) /\ Mine(s)' = Mine(s) /\ (Hurt(s)' <=> Hurt(s))
  BY <1>2 DEF Hurt, Waits, Mine
<1>6. Marked' \subseteq Marked /\ LooseStale' \subseteq LooseStale
  BY <1>3, <1>4, <1>5 DEF Marked, LooseStale
<1>7. ClosedInUse' \subseteq ClosedInUse
  BY <1>3, <1>4 DEF ClosedInUse
<1> QED BY <1>2, <1>6, <1>7

LEMMA InitPaid == Init => HarmIsPaid
<1> SUFFICES ASSUME Init PROVE HarmIsPaid
  OBVIOUS
<1>1. PICK q : q = NewRequest
  OBVIOUS
<1>2. q.step = "new" /\ q.executed = 0 /\ q.result = "none"
  BY <1>1 DEF NewRequest
<1>3. req = [r \in Requests |-> q]
  BY <1>1 DEF Init
<1>4. Marked = {}
  BY <1>2, <1>3 DEF Marked, Hurt, Waits
<1>5. ClosedInUse = {} /\ LooseStale = {}
  BY DEF Init, Fresh, ClosedInUse, LooseStale
<1>6. faults = 0
  BY DEF Init
<1> QED BY <1>4, <1>5, <1>6, FS_EmptySet DEF HarmIsPaid

\* A coroutine that ends is one that the network has let down, now or before, or
\* it has its answer.
LEMMA EndsPaid ==
  ASSUME Placed, HarmIsPaid, NEW r \in Requests, Waits(r), NEW link \in Links, NEW stale \in BOOLEAN,
         NEW result \in {"ok", "garbled", "error"}, Ends(r, link, stale, result),
         stale => conn[Mine(r)].stale,
         \/ faults' = faults + 1
         \/ faults' = faults /\ (\/ conn[Mine(r)].link = "closed"
                                 \/ ~stale /\ result = "ok"
                                 \/ ~stale /\ conn[Mine(r)].stale)
  PROVE  HarmIsPaid'
<1> DEFINE c == Mine(r)
<1>1. /\ Marked' \subseteq Marked \cup {r}
      /\ r \in Marked \/ result = "ok" => Marked' \subseteq Marked
      /\ ClosedInUse' \subseteq ClosedInUse \ {c}
      /\ ~stale => LooseStale' \subseteq LooseStale \ {c}
      /\ LooseStale' \subseteq LooseStale \cup {c}
      /\ conn[c].stale /\ r \notin Marked => c \in LooseStale
  BY EndsCounts
<1>2. faults \in Nat
  BY HttpAssumption DEF Placed, TypeOK
<1>3. conn[c].link = "closed" => c \in ClosedInUse
  BY Suspended DEF ClosedInUse
<1>4. ClosedInUse' \subseteq ClosedInUse
  BY <1>1
<1> HIDE DEF c
<1>5. \/ Marked' \subseteq Marked /\ LooseStale' \subseteq LooseStale \cup {c}
      \/ Marked' \subseteq Marked \cup {r} /\ LooseStale' \subseteq LooseStale
  <2>1. CASE r \in Marked
    BY <1>1, <2>1
  <2>2. CASE r \notin Marked
    <3>1. LooseStale' \subseteq LooseStale
      <4>1. CASE stale
        BY <1>1, <2>2, <4>1 DEF c
      <4>2. CASE ~stale
        BY <1>1, <4>2
      <4> QED BY <4>1, <4>2
    <3> QED BY <1>1, <3>1
  <2> QED BY <2>1, <2>2
<1>6. CASE faults' = faults + 1
  BY <1>2, <1>4, <1>5, <1>6, OneFault
<1>7. CASE faults' = faults /\ conn[c].link = "closed"
  BY <1>1, <1>2, <1>3, <1>5, <1>7, PaidBefore
<1>8. CASE faults' = faults /\ ~stale /\ result = "ok"
  <2>1. Marked' \subseteq Marked /\ LooseStale' \subseteq LooseStale
    BY <1>1, <1>8
  <2> QED BY <1>2, <1>4, <1>8, <2>1, NoWorse
<1>9. CASE faults' = faults /\ ~stale /\ conn[c].stale
  <2>1. LooseStale' \subseteq LooseStale \ {c} /\ LooseStale' \subseteq LooseStale
    BY <1>1, <1>9
  <2>2. CASE r \in Marked
    BY <1>1, <1>2, <1>4, <1>9, <2>1, <2>2, NoWorse
  <2>3. CASE r \notin Marked
    BY <1>1, <1>2, <1>4, <1>9, <2>1, <2>3, PaidBefore
  <2> QED BY <2>2, <2>3
<1> QED BY <1>6, <1>7, <1>8, <1>9 DEF c

\* An exchange that fails has failed now, or its time was over before, or the
\* server had closed the connection and nothing was carried out.
LEMMA FailsPaid ==
  ASSUME Placed, HarmIsPaid, NEW r \in Requests, NEW link \in Links, NEW partial \in BOOLEAN,
         Fails(r, link, partial),
         \/ faults' = faults + 1
         \/ faults' = faults /\ conn[Mine(r)].link = "closed"
         \/ faults' = faults /\ conn[Mine(r)].link = "half" /\ ~req[r].arrived
  PROVE  HarmIsPaid'
<1>1. /\ req[r].step = "sending" /\ (partial => req[r].arrived)
      /\ IF req[r].reused THEN Again(r, conn[Mine(r)].stale \/ partial)
                          ELSE Ends(r, link, FALSE, "error")
  BY Endings DEF Placed
<1>2. Waits(r) /\ faults \in Nat
  BY <1>1, HttpAssumption DEF Waits, Placed, TypeOK
<1>3. CASE ~req[r].reused
  <2>1. conn[Mine(r)].link \in {"up", "closed"}
    BY <1>1, <1>2, <1>3, Suspended DEF Progress
  <2>2. Ends(r, link, FALSE, "error")
    BY <1>1, <1>3
  <2>3. faults' = faults + 1 \/ (faults' = faults /\ conn[Mine(r)].link = "closed")
    BY <2>1
  <2> QED BY <1>2, <2>2, <2>3, EndsPaid
<1>4. CASE req[r].reused
  <2>1. /\ Marked' \subseteq Marked \cup {r}
        /\ ~req[r].arrived => Marked' \subseteq Marked
        /\ ClosedInUse' \subseteq ClosedInUse \ {Mine(r)}
        /\ LooseStale' \subseteq LooseStale
    BY <1>1, <1>4, AgainCounts
  <2>2. ClosedInUse' \subseteq ClosedInUse
    BY <2>1
  <2>3. CASE faults' = faults + 1
    BY <1>2, <2>1, <2>2, <2>3, OneFault
  <2>4. CASE faults' = faults /\ conn[Mine(r)].link = "closed"
    <3>1. Mine(r) \in ClosedInUse
      BY <1>2, <2>4, Suspended DEF ClosedInUse
    <3> QED BY <1>2, <2>1, <2>4, <3>1, PaidBefore
  <2>5. CASE faults' = faults /\ ~req[r].arrived
    BY <1>2, <2>1, <2>2, <2>5, NoWorse
  <2> QED BY <2>3, <2>4, <2>5
<1> QED BY <1>3, <1>4

LEMMA ResumesPaid ==
  ASSUME Placed, HarmIsPaid, NEW r \in Requests, Resumes(r)
  PROVE  HarmIsPaid'
<1>1. TypeOK /\ faults \in Nat
  BY HttpAssumption DEF Placed, TypeOK
<1>2. CASE Connected(r)
  BY <1>1, <1>2, ConnectedCounts, NoWorse
<1>3. ASSUME NEW link \in Links, ConnectFails(r, link) PROVE HarmIsPaid'
  <2>1. req[r].step = "connecting" /\ Ends(r, link, conn[Mine(r)].stale, "error")
    BY <1>1, <1>3, Endings
  <2>2. Waits(r)
    BY <2>1 DEF Waits
  <2>3. PICK stale \in BOOLEAN : stale = conn[Mine(r)].stale
    BY <2>2, Suspended DEF ConnType
  <2>4. faults' = faults + 1 \/ (faults' = faults /\ conn[Mine(r)].link = "closed")
    BY <1>3 DEF ConnectFails
  <2>5. Ends(r, link, stale, "error") /\ (stale => conn[Mine(r)].stale)
    BY <2>1, <2>3
  <2> QED BY <2>2, <2>4, <2>5, EndsPaid
<1>4. CASE Answered(r)
  <2>1. Ends(r, conn[Mine(r)].link, FALSE, IF conn[Mine(r)].stale THEN "garbled" ELSE "ok")
    BY <1>1, <1>4, Endings
  <2>2. PICK result \in {"ok", "garbled"} : /\ Ends(r, conn[Mine(r)].link, FALSE, result)
                                           /\ (result = "ok" \/ conn[Mine(r)].stale)
    BY <2>1
  <2>3. Waits(r) /\ faults' = faults
    BY <1>4 DEF Waits, Answered
  <2>4. conn[Mine(r)].link \in Links
    BY <2>3, Suspended DEF ConnType
  <2> QED BY <2>2, <2>3, <2>4, EndsPaid
<1>5. CASE Breaks(r)
  <2>1. PICK link \in {"half", "open"}, partial \in BOOLEAN : Fails(r, link, partial)
    BY <1>5 DEF Breaks
  <2>2. faults' = faults + 1 /\ link \in Links
    BY <1>5 DEF Breaks, Links
  <2> QED BY <2>1, <2>2, FailsPaid
<1>6. CASE TimedOut(r)
  <2>1. PICK partial \in BOOLEAN : Fails(r, "closed", partial)
    BY <1>6 DEF TimedOut
  <2>2. faults' = faults /\ conn[Mine(r)].link = "closed" /\ "closed" \in Links
    BY <1>6 DEF TimedOut, Links
  <2> QED BY <2>1, <2>2, FailsPaid
<1>7. CASE FindsClosed(r)
  <2>1. /\ Fails(r, "half", FALSE) /\ faults' = faults /\ "half" \in Links
        /\ conn[Mine(r)].link = "half" /\ ~req[r].arrived
    BY <1>7 DEF FindsClosed, Links
  <2> QED BY <2>1, FailsPaid
<1> QED BY <1>2, <1>3, <1>4, <1>5, <1>6, <1>7 DEF Resumes

LEMMA NextPaid == Placed /\ HarmIsPaid /\ [Next]_vars => HarmIsPaid'
<1> SUFFICES ASSUME Placed, HarmIsPaid, [Next]_vars PROVE HarmIsPaid'
  OBVIOUS
<1>1. faults \in Nat
  BY HttpAssumption DEF Placed, TypeOK
<1>2. ASSUME NEW r \in Requests, Send(r) PROVE HarmIsPaid'
  BY <1>1, <1>2, SendCounts, NoWorse
<1>3. ASSUME NEW r \in Requests, Executes(r) PROVE HarmIsPaid'
  BY <1>1, <1>3, ExecutesCounts, NoWorse
<1>4. ASSUME NEW r \in Requests, Expires(r) PROVE HarmIsPaid'
  <2>1. /\ Marked' \subseteq Marked /\ ClosedInUse' \subseteq ClosedInUse \cup {Mine(r)}
        /\ LooseStale' \subseteq LooseStale /\ faults' = faults + 1
    BY <1>4, ExpiresCounts
  <2> QED BY <1>1, <2>1, OneFault
<1>5. ASSUME NEW c \in Conns, IdleCloses(c) PROVE HarmIsPaid'
  BY <1>1, <1>5, IdleCounts, NoWorse
<1>6. CASE UNCHANGED vars
  BY <1>6 DEF vars, HarmIsPaid, Marked, ClosedInUse, LooseStale, Hurt, Waits, Mine
<1> QED BY <1>2, <1>3, <1>4, <1>5, <1>6, ResumesPaid DEF Next

\* Every request that is carried out twice, or ends without its answer, costs
\* the network a failure of its own: none is lost or doubled because the server
\* closes idle connections, and no failure harms two requests, although stale
\* bytes and closed sockets stay behind in connections that others use later.
THEOREM EveryHarmIsPaid == Spec => []HarmNeedsFaults
<1>1. Placed /\ HarmIsPaid => HarmNeedsFaults
  <2> SUFFICES ASSUME Placed, HarmIsPaid PROVE HarmNeedsFaults
    OBVIOUS
  <2> DEFINE harmed == {r \in Requests : req[r].executed > 1 \/ req[r].result \in {"error", "garbled"}}
  <2>1. harmed \subseteq Marked
    BY DEF Marked, Hurt
  <2>2. Cardinality(harmed) \in Nat /\ Cardinality(harmed) <= Cardinality(Marked)
    <3> HIDE DEF harmed
    <3> QED BY <2>1, Finite, Sizes
  <2>3. faults \in Nat /\ Cardinality(Marked) + Cardinality(ClosedInUse) + Cardinality(LooseStale) <= faults
    BY HttpAssumption DEF Placed, TypeOK, HarmIsPaid
  <2>4. Cardinality(harmed) <= faults
    <3> HIDE DEF harmed
    <3> QED BY <2>2, <2>3, Finite
  <2> QED BY <2>4 DEF HarmNeedsFaults
<1> QED BY <1>1, InitPlaced, NextPlaced, InitPaid, NextPaid, PTL DEF Spec

=============================================================================
