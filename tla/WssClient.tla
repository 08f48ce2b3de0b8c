----------------------------- MODULE WssClient -----------------------------
(***************************************************************************)
(* WssClient<T> (third-party/network/websocket.h): one WebSocket client on *)
(* a single-threaded io_context.                                           *)
(*                                                                         *)
(* Everything the client does happens in a completion handler, and the     *)
(* io_context runs completed handlers in the order in which they became    *)
(* ready.  `ready' is that queue, `pending' the operations the network has *)
(* not completed yet.  When resolve_reconnect destroys the stream, the     *)
(* operations pending on it complete as aborted, and their handlers run    *)
(* afterwards, on the new stream: a handler captures only `this'.          *)
(*                                                                         *)
(* Bodies of messages, and what on_message does with them, are left out.   *)
(* The client is a record because a handler is a composition of calls that *)
(* each change it: LeaveCallback(ProcessError(c)) reads as the code does.  *)
(***************************************************************************)
EXTENDS Integers, Sequences, FiniteSets

CONSTANTS
  Owners,       \* which on_error handlers are checked: "logs", "trade"
  MaxFaults,    \* network failures
  MaxLookups,   \* name lookups that fail
  MaxUnsent,    \* messages waiting in send_sizes when one more is sent
  MaxReady,     \* handlers waiting to run when the network or a timer adds one
  MaxResolving, \* lookups under way when a reconnect starts one more
  MaxSpins,     \* the trade owner's 5 s timers, and failing closes, that are told apart
  Wrap          \* n_callbacks and the indices of send_sizes are unsigned: they are
                \* counted modulo Wrap

ASSUME WssAssumption ==
  /\ Owners \subseteq {"logs", "trade"}
  /\ MaxFaults \in Nat /\ MaxLookups \in Nat /\ MaxUnsent \in Nat
  /\ MaxReady \in Nat \ {0}
  /\ MaxSpins \in Nat \ {0} /\ Wrap \in Nat \ {0}

\* They are of type size_t: more handlers, and messages, than can be under way fit
\* in them.
ASSUME WrapAssumption == Wrap > 2 * MaxUnsent + 6

VARIABLES
  ws,       \* the client
  faults,   \* network failures so far
  lookups   \* failed lookups so far
vars == <<ws, faults, lookups>>

StreamOps == {"connect", "ssl", "handshake", "read", "write", "close"}
Handlers == StreamOps \cup {"shutdown", "resolve", "reconnect", "ping", "trade"}

(* owner: "logs" for every handler whose on_error only logs, "trade" for   *)
(* KucoinExecution's wss_trade_, which has disabled auto-reconnect.        *)
AutoReconnect(c) == c.owner = "logs"

-----------------------------------------------------------------------------
(* Operations of Boost.Asio and Boost.Beast                                *)

\* How many handlers of a kind are ready.
Ready(c, op) == Cardinality({i \in DOMAIN c.ready : c.ready[i][1] = op})

(* A handler becomes ready: it will run after those that are.  Each on_error *)
(* of the trade owner adds a close, and each of these fails and calls        *)
(* on_error again: closes beyond MaxSpins are not told apart.                *)
Post(c, op, ok) ==
  IF op = "close" /\ Ready(c, op) >= MaxSpins THEN c
  ELSE [c EXCEPT !.ready = Append(@, <<op, ok>>)]

Alive(c) == c.status \in {"open", "closing"}

\* Beast refuses an operation on a stream that is not in the state for it.
Possible(c, op) ==
  CASE op = "connect"   -> c.link = "none" /\ op \notin c.pending
    [] op = "ssl"       -> c.link = "tcp"
    [] op = "handshake" -> c.link = "tls" /\ c.status = "closed"
    [] op \in {"read", "write", "close"} -> Alive(c)
    [] OTHER            -> FALSE

\* ++n_callbacks and async_xxx: what cannot start fails through the queue.
Async(c, op) ==
  LET d == [c EXCEPT !.n_callbacks = (@ + 1) % Wrap] IN
  IF ~Possible(c, op) THEN Post(d, op, FALSE)
  ELSE [d EXCEPT !.pending = @ \cup {op},
                 !.overlap = @ \/ op \in c.pending \cap {"read", "write"},
                 !.status = IF op = "close" THEN "closing" ELSE @]

\* A destroyed stream's operations complete in this order.  A close that waits
\* behind a write was never started, and its handler is dropped.
Aborted(c) ==
  LET Ended(op) == IF op \in c.pending THEN <<<<op, FALSE>>>> ELSE <<>> IN
  Ended("connect") \o Ended("ssl") \o Ended("handshake") \o Ended("read") \o Ended("write")
    \o (IF "write" \in c.pending THEN <<>> ELSE Ended("close"))

\* What is under way on the stream: operations, handlers that have not run yet,
\* lookups for its connection.
UnderWay(c) ==
  \/ c.pending # {}
  \/ c.resolving > 0
  \/ \E i \in DOMAIN c.ready : c.ready[i][1] \notin {"reconnect", "ping", "trade"}

\* m_ws.~Stream(); new (&m_ws) Stream(m_ioc, m_ctx)
NewStream(c) ==
  [c EXCEPT !.torn = @ \/ UnderWay(c),
            !.ready = @ \o Aborted(c),
            !.pending = {}, !.status = "closed", !.link = "none"]

-----------------------------------------------------------------------------
(* Member functions                                                        *)

\* Wss::reset.
Reset(c) == [c EXCEPT !.m_writing = FALSE, !.m_reading = FALSE, !.unsent = 0]

\* bind_resolve_connect_, for a local address that can be bound.
BindResolveConnect(c) ==
  [c EXCEPT !.n_callbacks = (@ + 1) % Wrap, !.resolving = @ + 1]

ResolveReconnect(c) ==
  BindResolveConnect([Reset(NewStream(c)) EXCEPT !.n_callbacks = 0])

SendNext(c) ==
  IF c.m_writing THEN c ELSE Async([c EXCEPT !.m_writing = TRUE], "write")

\* save, and what starts writing.  sq_head and sq_tail run freely, and unsent is
\* their difference: handlers of replaced streams take sizes off a queue that
\* reset has emptied, which then is not empty() until the difference is 0 again.
Send(c) == SendNext([c EXCEPT !.unsent = (@ + 1) % Wrap])

\* Faulty: the read is not counted.
ReceiveUncounted(c) ==
  IF c.m_reading THEN c
  ELSE [Async([c EXCEPT !.m_reading = TRUE], "read") EXCEPT !.n_callbacks = c.n_callbacks]

Receive(c) ==
  IF c.m_reading THEN c ELSE Async([c EXCEPT !.m_reading = TRUE], "read")

\* expires_after and cancel abort a wait of the ping timer that has not expired.
CancelPing(c) ==
  IF c.ping_wait THEN Post([c EXCEPT !.ping_wait = FALSE], "ping", FALSE) ELSE c
StartPingPong(c) == [CancelPing(c) EXCEPT !.ping_wait = TRUE]

\* close_ is dispatched: inside a handler it runs at once.
Close(c) == CancelPing(Async([c EXCEPT !.stopping = TRUE], "close"))

(* The handler's on_error.  KucoinExecution's closes wss_trade_ and starts *)
(* a timer of 5 s that reconnects; beyond MaxSpins they are not counted.  *)
OnError(c) ==
  IF c.owner = "logs" THEN c
  ELSE [Close(c) EXCEPT !.timers = IF @ = MaxSpins THEN @ ELSE @ + 1]

\* A new wait of m_reconnect_timer cancels the old, whose handler does nothing.
StartReconnect(c) ==
  IF c.stopping THEN c
  ELSE [c EXCEPT !.n_callbacks = (@ + 1) % Wrap, !.reconnect_wait = TRUE]

\* Faulty: the error is reported, and that is all.
ProcessErrorReports(c) == OnError(c)

ProcessError(c) ==
  LET d == OnError(c) IN IF AutoReconnect(c) THEN StartReconnect(d) ELSE d

\* --n_callbacks; at 0 the handler's on_close is called.
LeaveCallback(c) ==
  LET n == (c.n_callbacks - 1) % Wrap IN
  [c EXCEPT !.n_callbacks = n,
            !.early = @ \/ (n = 0 /\ UnderWay(c))]

\* Faulty: a timer that expired before close() still reconnects.
TryReconnectAnyway(c) ==
  ResolveReconnect(IF c.status = "open" THEN Async(c, "close") ELSE c)

TryReconnect(c) ==
  IF c.stopping THEN c
  ELSE ResolveReconnect(IF c.status = "open" THEN Async(c, "close") ELSE c)

-----------------------------------------------------------------------------
(* The initial state: resolve_connect has been called                      *)

Fresh ==
  [status : {"closed"}, link : {"none"}, pending : {{}}, ready : {<<>>},
   resolving : {0}, n_callbacks : {0}, m_reading : {FALSE}, m_writing : {FALSE},
   unsent : {0}, reconnect_wait : {FALSE}, ping_wait : {FALSE}, stopping : {FALSE},
   owner : Owners, timers : {0}, torn : {FALSE}, overlap : {FALSE}, early : {FALSE}]

Init ==
  /\ \E c \in Fresh : ws = BindResolveConnect(c)
  /\ faults = 0
  /\ lookups = 0

-----------------------------------------------------------------------------
(* Completion handlers                                                     *)

\* The io_context runs the oldest ready handler: new is the client after it.
Run(op, ok, New(_)) ==
  /\ ws.ready # <<>>
  /\ Head(ws.ready) = <<op, ok>>
  /\ ws' = New([ws EXCEPT !.ready = Tail(@)])
  /\ UNCHANGED <<faults, lookups>>

Failed(c) == LeaveCallback(ProcessError(c))

OnResolve == \/ Run("resolve", TRUE, LAMBDA c : LeaveCallback(Async(c, "connect")))
             \/ Run("resolve", FALSE, LAMBDA c : LeaveCallback(OnError(c)))

OnConnect == \/ Run("connect", TRUE, LAMBDA c : LeaveCallback(Async(c, "ssl")))
             \/ Run("connect", FALSE, Failed)

\* Faulty: a failed TLS handshake is reported as a failed lookup is.
OnSslHandshakeReports ==
  \/ Run("ssl", TRUE, LAMBDA c : LeaveCallback(Async(c, "handshake")))
  \/ Run("ssl", FALSE, LAMBDA c : LeaveCallback(OnError(c)))

OnSslHandshake == \/ Run("ssl", TRUE, LAMBDA c : LeaveCallback(Async(c, "handshake")))
                  \/ Run("ssl", FALSE, Failed)

\* Every handler's on_connect starts its ping timer and returns NONE or RECEIVE.
OnHandshake ==
  \/ Run("handshake", TRUE, LAMBDA c : LeaveCallback(Receive(StartPingPong(c))))
  \/ Run("handshake", FALSE, Failed)

OnWrite ==
  \/ Run("write", TRUE, LAMBDA c :
       LET d == [c EXCEPT !.unsent = (@ - 1) % Wrap] IN
       LeaveCallback(IF d.unsent # 0 THEN Async(d, "write")
                     ELSE [d EXCEPT !.m_writing = FALSE]))
  \/ Run("write", FALSE, LAMBDA c : Failed([c EXCEPT !.m_writing = FALSE]))

\* Faulty: no further message is read.
OnReadOnce ==
  \/ Run("read", TRUE, LeaveCallback)
  \/ Run("read", FALSE, LAMBDA c : Failed([c EXCEPT !.m_reading = FALSE]))

OnRead ==
  \/ Run("read", TRUE, LAMBDA c : LeaveCallback(Async(c, "read")))
  \/ Run("read", FALSE, LAMBDA c : Failed([c EXCEPT !.m_reading = FALSE]))

OnClose ==
  \/ Run("close", TRUE, LAMBDA c : LeaveCallback(Async(c, "shutdown")))
  \/ Run("close", FALSE, Failed)

OnSslShutdown == Run("shutdown", FALSE, LAMBDA c : LeaveCallback(OnError(c)))

ReconnectTimer == Run("reconnect", TRUE, TryReconnect)

\* Faulty: the handler of an aborted wait pings too.
PingTimerAnyway ==
  \/ Run("ping", TRUE, LAMBDA c : StartPingPong(Send(c)))
  \/ Run("ping", FALSE, LAMBDA c : StartPingPong(Send(OnError(c))))

PingTimer == \/ Run("ping", TRUE, LAMBDA c : StartPingPong(Send(c)))
             \/ Run("ping", FALSE, OnError)

\* The timer of KucoinExecution's on_error, which ignores its error code.
TradeTimer == Run("trade", TRUE, ResolveReconnect)

RunHandler ==
  \/ OnResolve \/ OnConnect \/ OnSslHandshake \/ OnHandshake
  \/ OnWrite \/ OnRead \/ OnClose \/ OnSslShutdown
  \/ ReconnectTimer \/ PingTimer \/ TradeTimer

-----------------------------------------------------------------------------
(* The network, the clock and the user                                     *)

Done(c, op, ok) == Post([c EXCEPT !.pending = @ \ {op}], op, ok)

Has(op) == Ready(ws, op) > 0

\* Handlers run fast enough that fewer than MaxReady others wait for their turn.
Backlog == Len(ws.ready) - Ready(ws, "close")

LookupSucceeds ==
  /\ Backlog < MaxReady
  /\ ws.resolving > 0
  /\ ws' = Post([ws EXCEPT !.resolving = @ - 1], "resolve", TRUE)
  /\ UNCHANGED <<faults, lookups>>

LookupFails ==
  /\ Backlog < MaxReady
  /\ ws.resolving > 0 /\ lookups < MaxLookups
  /\ ws' = Post([ws EXCEPT !.resolving = @ - 1], "resolve", FALSE)
  /\ lookups' = lookups + 1
  /\ UNCHANGED faults

\* One phase of connecting ends well.
Connects(op) ==
  /\ Backlog < MaxReady
  /\ op \in ws.pending
  /\ ws' = CASE op = "connect"   -> [Done(ws, op, TRUE) EXCEPT !.link = "tcp"]
             [] op = "ssl"       -> [Done(ws, op, TRUE) EXCEPT !.link = "tls"]
             [] op = "handshake" -> [Done(ws, op, TRUE) EXCEPT !.status = "open"]
  /\ UNCHANGED <<faults, lookups>>

ConnectFails(op) ==
  /\ Backlog < MaxReady
  /\ op \in ws.pending /\ faults < MaxFaults
  /\ ws' = Done(ws, op, FALSE)
  /\ faults' = faults + 1
  /\ UNCHANGED lookups

\* A message has been written, or one has been read.
Transfers(op) ==
  /\ Backlog < MaxReady
  /\ op \in ws.pending /\ Alive(ws)
  /\ ws' = Done(ws, op, TRUE)
  /\ UNCHANGED <<faults, lookups>>

\* The closing handshake is over: Beast has closed the socket, and the stream is
\* of no more use than a broken one.
Closes ==
  /\ Backlog < MaxReady
  /\ "close" \in ws.pending /\ "write" \notin ws.pending /\ ws.status = "closing"
  /\ ws' = [Done(ws, "close", TRUE) EXCEPT !.status = "failed"]
  /\ UNCHANGED <<faults, lookups>>

\* The connection breaks, or its idle timeout expires.
Breaks ==
  /\ Alive(ws) /\ faults < MaxFaults
  /\ ws' = [ws EXCEPT !.status = "failed"]
  /\ faults' = faults + 1
  /\ UNCHANGED lookups

\* What is pending on a closed or broken stream fails.
Fails(op) ==
  /\ Backlog < MaxReady
  /\ op \in ws.pending /\ ~Alive(ws)
  /\ ws' = Done(ws, op, FALSE)
  /\ UNCHANGED <<faults, lookups>>

\* At most MaxUnsent messages wait when one more is sent.  A difference of the
\* indices beyond that is the one of a queue that was popped below empty.
FewWait == ws.unsent < MaxUnsent \/ ws.unsent > MaxUnsent + 1

\* 500 ms: operations on a dead stream have failed by then.
ReconnectDue ==
  /\ Backlog < MaxReady
  /\ ws.reconnect_wait /\ ws.resolving < MaxResolving
  /\ Alive(ws) \/ ws.pending \cap {"read", "write", "close"} = {}
  /\ ws' = Post([ws EXCEPT !.reconnect_wait = FALSE], "reconnect", TRUE)
  /\ UNCHANGED <<faults, lookups>>

\* 10 to 30 s: the last ping's handler has run by then, and earlier messages but
\* MaxUnsent have been sent.
PingDue ==
  /\ Backlog < MaxReady
  /\ ws.ping_wait /\ ~Has("ping") /\ FewWait
  /\ ws' = Post([ws EXCEPT !.ping_wait = FALSE], "ping", TRUE)
  /\ UNCHANGED <<faults, lookups>>

TradeDue ==
  /\ Backlog < MaxReady
  /\ ws.timers > 0 /\ ws.resolving < MaxResolving
  /\ ws' = Post([ws EXCEPT !.timers = @ - 1], "trade", TRUE)
  /\ UNCHANGED <<faults, lookups>>

\* Callers of send ask is_socket_open first.
UserSends ==
  /\ ws.status = "open" /\ FewWait
  /\ ws' = Send(ws)
  /\ UNCHANGED <<faults, lookups>>

\* shutdown or unsubscribe_order of the owners that log.
UserCloses ==
  /\ AutoReconnect(ws) /\ ~ws.stopping
  /\ ws' = Close(ws)
  /\ UNCHANGED <<faults, lookups>>

ConnectOps == {"connect", "ssl", "handshake"}

Network ==
  \/ LookupSucceeds \/ LookupFails \/ Closes \/ Breaks
  \/ \E op \in ConnectOps : Connects(op) \/ ConnectFails(op)
  \/ \E op \in {"read", "write"} : Transfers(op)
  \/ \E op \in {"read", "write", "close"} : Fails(op)

Next ==
  \/ RunHandler
  \/ Network
  \/ ReconnectDue \/ PingDue \/ TradeDue
  \/ UserSends \/ UserCloses

Spec == Init /\ [][Next]_vars

\* The io_context runs, timers expire, and every operation ends in time: Beast
\* and the socket have timeouts for all of them.  Nothing makes a user act, a
\* server send, or the network fail.
Fairness ==
  /\ WF_vars(RunHandler)
  /\ WF_vars(LookupSucceeds)
  /\ \A op \in ConnectOps : WF_vars(Connects(op))
  /\ \A op \in {"read", "write", "close"} : WF_vars(Fails(op))
  /\ WF_vars(Transfers("write")) /\ WF_vars(Closes)
  /\ WF_vars(ReconnectDue) /\ WF_vars(TradeDue)
FairSpec == Spec /\ Fairness

-----------------------------------------------------------------------------
(* Properties                                                              *)

\* Type invariant.  The indices of send_sizes agree with the messages that wait
\* until a reconnect has replaced a stream that was still in use.
TypeOK ==
  /\ ws.status \in {"closed", "open", "closing", "failed"}
  /\ ws.link \in {"none", "tcp", "tls"}
  /\ ws.pending \subseteq StreamOps
  /\ ws.ready \in Seq(Handlers \X BOOLEAN)
  /\ ws.resolving \in Nat /\ ws.n_callbacks \in 0 .. Wrap - 1
  /\ ws.unsent \in 0 .. Wrap - 1 /\ (~ws.torn => ws.unsent <= MaxUnsent + 1)
  /\ ws.timers \in 0 .. MaxSpins
  /\ ws.owner \in Owners
  /\ \A f \in {ws.m_reading, ws.m_writing, ws.reconnect_wait, ws.ping_wait,
               ws.stopping, ws.torn, ws.overlap, ws.early} : f \in BOOLEAN
  /\ faults \in 0 .. MaxFaults /\ lookups \in 0 .. MaxLookups

\* A connection that is up is listened to: on every stream that has been opened
\* a read is under way, whatever handlers of earlier streams did to m_reading.
OpenIsRead ==
  ws.status = "open" => "read" \in ws.pending \/ Has("read") \/ Has("handshake")

\* n_callbacks tells on_close when nothing of the client is under way any more,
\* and a stream has one reader and one writer at a time, as Beast demands, as
\* long as no reconnect replaced a stream that was still in use.
OnCloseMeansIdle == ~ws.torn => ~ws.early /\ ~ws.overlap

\* There is no dead end: a client that is down, and that nobody closed, is on
\* its way up or has a reconnect ahead, unless a lookup failed (on_resolve
\* reports that and schedules nothing).
NeverStranded ==
  AutoReconnect(ws) /\ ~ws.stopping /\ lookups = 0 /\ ~Alive(ws)
     => UnderWay(ws) \/ ws.reconnect_wait \/ Has("reconnect")

\* After close() no reconnect begins, also if its timer had already expired.
StopIsFinal ==
  [][AutoReconnect(ws) /\ ws.stopping => ws'.resolving <= ws.resolving]_vars

\* When the network has stopped failing, the connection comes up and stays up,
\* unless it was closed, a lookup failed, or a reconnect replaced a stream that
\* was still in use: its aborted handlers schedule the next one.
Settles ==
  <>[](ws.status = "open") \/ <>(ws.owner = "trade" \/ ws.torn \/ lookups > 0 \/ ws.stopping)

\* KucoinExecution's on_error replaces the library's reconnecting for the trade
\* connection ("cannot rely on the library's own", kucoin_execution.cpp): when
\* the network has stopped failing, that connection comes up and stays up.
TradeConnectionReturns == <>[](ws.status = "open")

-----------------------------------------------------------------------------
(* The client implements Connection                                        *)

\* An operation has ended well, and its handler is ready.
Passed(c, op) == \E i \in DOMAIN c.ready : c.ready[i] = <<op, TRUE>>

\* Connecting can still succeed without a new attempt: one of its phases is under
\* way or has ended well, and the stream is in the state for it.
WayUp(c) ==
  /\ c.status = "closed"
  /\ \/ c.link = "none" /\ (c.resolving > 0 \/ Passed(c, "resolve") \/ "connect" \in c.pending)
     \/ c.link = "tcp" /\ (Passed(c, "connect") \/ "ssl" \in c.pending)
     \/ c.link = "tls" /\ (Passed(c, "ssl") \/ "handshake" \in c.pending)

\* What an owner that only logs sees of the connection.  The trade owner, which
\* reconnects on its own, is promised nothing.
Conn(c) ==
  IF ~AutoReconnect(c) THEN "connecting"
  ELSE CASE c.status = "open"     -> "up"
         [] c.status = "closing"  -> "closing"
         [] c.status \in {"closed", "failed"} ->
              IF ~c.stopping \/ WayUp(c) THEN "connecting" ELSE "down"
Promised ==
  INSTANCE Connection WITH conn <- Conn(ws), stopping <- AutoReconnect(ws) /\ ws.stopping

\* The library's connection is what its owners take it for (resolve_connect,
\* process_error_, try_reconnect_, close), whatever reconnects replaced and
\* whichever handlers of earlier streams still run.
ImplementsConnection == Promised!Spec
=============================================================================
