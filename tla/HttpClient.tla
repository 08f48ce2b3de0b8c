----------------------------- MODULE HttpClient -----------------------------
(***************************************************************************)
(* HttpClient (third-party/network/rest.h): the pool of keep-alive         *)
(* connections to one host and port, and the coroutine send_ of each       *)
(* request.                                                                *)
(*                                                                         *)
(* The coroutines share one thread and give it up only at co_await: what   *)
(* send_ does between two of them is one action.  A suspended coroutine    *)
(* keeps a reference to its Connection and, in the loop over the pool, its *)
(* index i, which it compares with conn_vec.size() when it is resumed.     *)
(*                                                                         *)
(* Requests for other hosts use other pools.  All connections of a pool    *)
(* have the endpoints that requests ask for (is_same_ip answers true), and *)
(* callbacks do not throw.                                                 *)
(***************************************************************************)
EXTENDS Integers, Sequences, FiniteSets

CONSTANTS
  Requests,
  Conns,       \* identities of Connection objects
  MaxFaults    \* operations of the network that fail

ASSUME HttpAssumption ==
  MaxFaults \in Nat /\ IsFiniteSet(Requests) /\ IsFiniteSet(Conns) /\ Conns # {}

VARIABLES
  pool,   \* connection_pool[key]; <<>> is a key without an entry
  conn,   \* the Connection objects
  req,    \* the coroutines
  faults
vars == <<pool, conn, req, faults>>

(* link: "closed" the socket is closed (by a timeout); "open" it is open but *)
(* not connected; "up" connected; "half" connected but of no use (the peer   *)
(* has closed its side), which remote_endpoint() does not notice.  stale:    *)
(* buffer_ holds the beginning of an answer whose rest never came.           *)
Links == {"closed", "open", "up", "half"}
Fresh == [link |-> "closed", is_using |-> FALSE, stale |-> FALSE]

(* step: "new", "connecting", "sending", "done".  reused: over a connection *)
(* from the pool as it was.  index: i.  executed: how often the server has  *)
(* carried the request out; arrived: also in this attempt.  result: what    *)
(* the callback was given.                                                  *)
NewRequest ==
  [step |-> "new", conn |-> CHOOSE c \in Conns : TRUE, index |-> 0, reused |-> FALSE,
   arrived |-> FALSE, executed |-> 0, calls |-> 0, result |-> "none"]

Init ==
  /\ pool = <<>>
  /\ conn = [c \in Conns |-> Fresh]
  /\ req = [r \in Requests |-> NewRequest]
  /\ faults = 0

Pooled == {pool[i] : i \in DOMAIN pool}
Mine(r) == req[r].conn
Waits(r) == req[r].step \in {"connecting", "sending"}

-----------------------------------------------------------------------------
(* Choosing a connection                                                   *)

Unused == {i \in DOMAIN pool : ~conn[pool[i]].is_using}

\* The first connection nobody uses is taken as it is if it has endpoints,
\* and is connected anew otherwise.
Take(r, i) ==
  LET c == pool[i]
      works == conn[c].link \in {"up", "half"}
  IN
  /\ i \in Unused /\ \A j \in Unused : i <= j
  /\ conn' = [conn EXCEPT ![c].is_using = TRUE,
                          ![c].link = IF works THEN @ ELSE "open"]
  /\ req' = [req EXCEPT ![r].step = IF works THEN "sending" ELSE "connecting",
                        ![r].conn = c, ![r].index = i, ![r].reused = works]
  /\ UNCHANGED <<pool, faults>>

\* All are in use, or there are none: a new one is appended.  Which of the free
\* identities it gets makes no difference.
Enlarge(r, c) ==
  /\ Unused = {}
  /\ c \notin Pooled /\ c = CHOOSE d \in Conns : d \notin Pooled
  /\ pool' = Append(pool, c)
  /\ conn' = [conn EXCEPT ![c] = [Fresh EXCEPT !.is_using = TRUE, !.link = "open"]]
  /\ req' = [req EXCEPT ![r].step = "connecting", ![r].conn = c,
                        ![r].index = Len(pool) + 1, ![r].reused = FALSE]
  /\ UNCHANGED faults

Send(r) ==
  /\ req[r].step = "new"
  /\ (\E i \in DOMAIN pool : Take(r, i)) \/ (\E c \in Conns : Enlarge(r, c))

-----------------------------------------------------------------------------
(* The end of a request                                                    *)

\* Faulty: closed connections are dropped, in use or not.
TrimmedInUse(p, cs) ==
  LET Kept(i) == cs[p[i]].link # "closed"
      last == {i \in DOMAIN p : Kept(i) /\ \A j \in DOMAIN p : j > i => ~Kept(j)}
  IN  IF last = {} THEN <<>> ELSE SubSeq(p, 1, CHOOSE i \in last : TRUE)

\* Closed connections that nobody uses are dropped from the back of the pool.
Trimmed(p, cs) ==
  LET Kept(i) == cs[p[i]].link # "closed" \/ cs[p[i]].is_using
      last == {i \in DOMAIN p : Kept(i) /\ \A j \in DOMAIN p : j > i => ~Kept(j)}
  IN  IF last = {} THEN <<>> ELSE SubSeq(p, 1, CHOOSE i \in last : TRUE)

\* Faulty: what is left in buffer_ stays there.
FinishUnconsumed(r, link, result) ==
  /\ conn' = [conn EXCEPT ![Mine(r)] = [link |-> link, is_using |-> FALSE,
                                         stale |-> conn[Mine(r)].stale]]
  /\ req' = [req EXCEPT ![r].step = "done", ![r].calls = @ + 1, ![r].result = result]
  /\ pool' = Trimmed(pool, conn')

\* The callback is called, the connection is free again, the pool is trimmed.
Finish(r, link, result) ==
  /\ conn' = [conn EXCEPT ![Mine(r)] = [link |-> link, is_using |-> FALSE, stale |-> FALSE]]
  /\ req' = [req EXCEPT ![r].step = "done", ![r].calls = @ + 1, ![r].result = result]
  /\ pool' = Trimmed(pool, conn')

-----------------------------------------------------------------------------
(* connect_                                                                *)

\* The time of connect_timeout, or of the exchange, is over: the socket is closed
\* under the coroutine, which is resumed later.
Expires(r) ==
  /\ Waits(r) /\ faults < MaxFaults
  /\ conn[Mine(r)].link # "closed"
  /\ conn' = [conn EXCEPT ![Mine(r)].link = "closed"]
  /\ faults' = faults + 1
  /\ UNCHANGED <<pool, req>>

Connected(r) ==
  /\ req[r].step = "connecting"
  /\ conn[Mine(r)].link # "closed"
  /\ conn' = [conn EXCEPT ![Mine(r)].link = "up"]
  /\ req' = [req EXCEPT ![r].step = "sending"]
  /\ UNCHANGED <<pool, faults>>

\* The lookup, the connection or the TLS handshake fails ("half": of a socket
\* that stays connected), or has been timed out.  The response is the error's
\* text; what is in buffer_ stays there.
ConnectFails(r, link) ==
  /\ req[r].step = "connecting"
  /\ IF conn[Mine(r)].link = "closed"
     THEN link = "closed" /\ UNCHANGED faults
     ELSE link \in {"half", "open"} /\ faults < MaxFaults /\ faults' = faults + 1
  /\ conn' = [conn EXCEPT ![Mine(r)].link = link, ![Mine(r)].is_using = FALSE]
  /\ req' = [req EXCEPT ![r].step = "done", ![r].calls = @ + 1, ![r].result = "error"]
  /\ pool' = Trimmed(pool, conn')

-----------------------------------------------------------------------------
(* process_send                                                            *)

\* The server has the request and carries it out.
Executes(r) ==
  /\ req[r].step = "sending" /\ ~req[r].arrived
  /\ conn[Mine(r)].link = "up"
  /\ req' = [req EXCEPT ![r].arrived = TRUE, ![r].executed = @ + 1]
  /\ UNCHANGED <<pool, conn, faults>>

\* The answer is here.  Behind stale bytes it cannot be parsed, and the
\* callback is given the parser's error.
Answered(r) ==
  /\ req[r].step = "sending" /\ req[r].arrived
  /\ conn[Mine(r)].link # "closed"
  /\ Finish(r, conn[Mine(r)].link, IF conn[Mine(r)].stale THEN "garbled" ELSE "ok")
  /\ UNCHANGED faults

\* Faulty: a request over a reused connection is given up without a callback.
FailsSilently(r, link, partial) ==
  /\ req[r].step = "sending"
  /\ partial => req[r].arrived
  /\ IF req[r].reused
     THEN /\ conn' = [conn EXCEPT ![Mine(r)].link = "open",
                                  ![Mine(r)].stale = @ \/ partial]
          /\ req' = [req EXCEPT ![r].step = "done"]
          /\ UNCHANGED pool
     ELSE Finish(r, link, "error")

\* Faulty: it is sent again as often as it fails.
FailsForever(r, link, partial) ==
  /\ req[r].step = "sending"
  /\ partial => req[r].arrived
  /\ IF req[r].reused
     THEN /\ conn' = [conn EXCEPT ![Mine(r)].link = "open",
                                  ![Mine(r)].stale = @ \/ partial]
          /\ req' = [req EXCEPT ![r].step = "connecting", ![r].arrived = FALSE]
          /\ UNCHANGED pool
     ELSE Finish(r, link, "error")

(* The exchange fails: the connection is gone, or was timed out, before or   *)
(* after the server has carried the request out, perhaps in the middle of an *)
(* answer's header.  Over a reused connection the request is sent once more, *)
(* over a connection that is made anew in the same object.                   *)
Fails(r, link, partial) ==
  /\ req[r].step = "sending"
  /\ partial => req[r].arrived
  /\ IF req[r].reused
     THEN /\ conn' = [conn EXCEPT ![Mine(r)].link = "open",
                                  ![Mine(r)].stale = @ \/ partial]
          /\ req' = [req EXCEPT ![r].step = "connecting", ![r].reused = FALSE,
                                ![r].arrived = FALSE]
          /\ UNCHANGED pool
     ELSE Finish(r, link, "error")

Breaks(r) ==
  /\ conn[Mine(r)].link # "closed" /\ faults < MaxFaults
  /\ \E link \in {"half", "open"}, partial \in BOOLEAN : Fails(r, link, partial)
  /\ faults' = faults + 1

TimedOut(r) ==
  /\ conn[Mine(r)].link = "closed"
  /\ \E partial \in BOOLEAN : Fails(r, "closed", partial)
  /\ UNCHANGED faults

\* On a connection whose peer has closed it no request arrives.
FindsClosed(r) ==
  /\ conn[Mine(r)].link = "half" /\ ~req[r].arrived
  /\ Fails(r, "half", FALSE)
  /\ UNCHANGED faults

\* The server closes a connection that is idle.
IdleCloses(c) ==
  /\ c \in Pooled /\ conn[c].link = "up" /\ ~conn[c].is_using
  /\ \E link \in {"half", "open"} : conn' = [conn EXCEPT ![c].link = link]
  /\ UNCHANGED <<pool, req, faults>>

-----------------------------------------------------------------------------
Resumes(r) ==
  \/ Connected(r)
  \/ \E link \in Links : ConnectFails(r, link)
  \/ Answered(r)
  \/ Breaks(r)
  \/ TimedOut(r)
  \/ FindsClosed(r)

Next ==
  \/ \E r \in Requests : Send(r) \/ Executes(r) \/ Expires(r) \/ Resumes(r)
  \/ \E c \in Conns : IdleCloses(c)

Spec == Init /\ [][Next]_vars

\* A coroutine that was started runs, and each of its operations ends: connect
\* and exchange have timeouts, and a server that has a request answers it.
Fairness == \A r \in Requests : WF_vars(Send(r)) /\ WF_vars(Executes(r)) /\ WF_vars(Resumes(r))
FairSpec == Spec /\ Fairness

-----------------------------------------------------------------------------
(* Properties                                                              *)

\* Type invariant.
TypeOK ==
  /\ pool \in Seq(Conns)
  /\ conn \in [Conns -> [link : Links, is_using : BOOLEAN, stale : BOOLEAN]]
  /\ req \in [Requests ->
       [step : {"new", "connecting", "sending", "done"}, conn : Conns,
        index : 0 .. Cardinality(Conns), reused : BOOLEAN, arrived : BOOLEAN,
        executed : 0 .. 2, calls : 0 .. 1,
        result : {"none", "ok", "garbled", "error"}]]
  /\ faults \in 0 .. MaxFaults

\* While a coroutine is suspended its connection is its own, stays in the pool
\* and keeps its index there, whatever other requests append to the pool or
\* drop from it: the reference c does not dangle, and i == conn_vec.size()
\* never holds after a co_await, where it would send the request a second time.
UsersKeepTheirPlace ==
  /\ \A r \in Requests : Waits(r) => req[r].index \in DOMAIN pool /\ pool[req[r].index] = Mine(r)
  /\ \A c \in Pooled : conn[c].is_using <=> (\E r \in Requests : Waits(r) /\ Mine(r) = c)
  /\ \A r, s \in Requests : Waits(r) /\ Waits(s) /\ Mine(r) = Mine(s) => r = s

\* Resending over a new connection makes good for servers that close idle
\* connections, and every request that comes to harm costs the network one
\* failure: it is carried out twice, or ends without its answer.
HarmNeedsFaults ==
  Cardinality({r \in Requests : req[r].executed > 1 \/ req[r].result \in {"error", "garbled"}})
    <= faults

\* Every request gets its callback.
EveryRequestEnds == \A r \in Requests : <>(req[r].calls = 1)
=============================================================================
