-------------------------- MODULE WssClient_proofs --------------------------
(***************************************************************************)
(* Proofs about WssClient, for any number of faults, failed lookups,       *)
(* queued handlers and messages.                                           *)
(*                                                                         *)
(* The argument: until a stream is replaced, what a handler calls only     *)
(* adds to what is under way, and new handlers come last in the queue      *)
(* (Adds, one lemma per member function); resolve_reconnect alone replaces *)
(* the stream (Renews), and whatever was under way on the old one ends in  *)
(* the queue as a failure.  The invariant (IInv) survives both.  It says   *)
(* that a client which thinks it is reading will hear of that read         *)
(* (Answered); that on an open stream no failed read of an earlier stream  *)
(* comes after the handshake's handler, so that its receive() is not taken *)
(* back (Heard); that only the trade owner has timers of its own (Owned);  *)
(* and that something under way leads a client that is down to a reconnect *)
(* (Returning).                                                            *)
(*                                                                         *)
(* The second part counts (from One on).  A kind of handler is under way   *)
(* when its operation is pending or it is ready (Of); that all the kinds   *)
(* together (Count) never exceed n_callbacks is what on_close relies on.   *)
(* For that to be preserved, n_callbacks must not wrap, so it is bounded   *)
(* too (Counted), although a handler that fails raises it for a wait which *)
(* nothing takes off again: how many can fail before a reconnect resets it *)
(* depends on what is under way, on the messages that wait, one of which a *)
(* failed write leaves behind, and on one close.  Hence the messages       *)
(* (Messages); one reader, one writer and one attempt to connect (Alone,   *)
(* OneAttempt); and when the trade owner's timers run out (Leaving).  All  *)
(* of it holds until a reconnect replaces a stream that is still in use    *)
(* (Balanced).                                                             *)
(*                                                                         *)
(* The last part (from Staged on) shows that the client implements         *)
(* Connection.  A member function leaves the owner's view of the stream    *)
(* alone (Quiet) or at worst loses a phase of connecting (Fades); each     *)
(* step of the client is then a step of Connection or none (Moves).  It    *)
(* rests on the phases being under way on the stream they belong to, and   *)
(* on nothing but close() closing one (Staged).                            *)
(***************************************************************************)
EXTENDS WssClient, SequenceTheorems, FiniteSetTheorems, FunctionTheorems, TLAPS

-----------------------------------------------------------------------------
(* Types                                                                    *)

Statuses == {"closed", "open", "closing", "failed"}
Links == {"none", "tcp", "tls"}
Entry == Handlers \X BOOLEAN

Client ==
  [status : Statuses, link : Links, pending : SUBSET StreamOps, ready : Seq(Entry),
   resolving : Nat, n_callbacks : 0 .. Wrap - 1, m_reading : BOOLEAN, m_writing : BOOLEAN,
   unsent : 0 .. Wrap - 1, reconnect_wait : BOOLEAN, ping_wait : BOOLEAN, stopping : BOOLEAN,
   owner : Owners, timers : 0 .. MaxSpins, torn : BOOLEAN, overlap : BOOLEAN, early : BOOLEAN]

\* A handler with this outcome, or with any, is ready.
Waits(c, op, ok) == \E i \in DOMAIN c.ready : c.ready[i] = <<op, ok>>
WaitsAny(c, op) == \E i \in DOMAIN c.ready : c.ready[i][1] = op

\* The unsigned counter stays below Wrap.
LEMMA Modulo == \A n \in Int : n % Wrap \in 0 .. Wrap - 1
BY WssAssumption DEF WssAssumption

\* The message that is sent, and the one that is taken off, are counted modulo.
LEMMA CountedModulo ==
  ASSUME NEW c \in Client
  PROVE  /\ \E u \in 0 .. Wrap - 1 : u = (c.unsent + 1) % Wrap
         /\ \E u \in 0 .. Wrap - 1 : u = (c.unsent - 1) % Wrap
<1>1. c.unsent \in 0 .. Wrap - 1
  BY DEF Client
<1>2. c.unsent + 1 \in Int /\ c.unsent - 1 \in Int
  BY <1>1, WssAssumption DEF WssAssumption
<1> QED BY <1>2, Modulo

\* A handler and its outcome are an entry of the queue.
LEMMA EntryIs == \A op \in Handlers, ok \in BOOLEAN : <<op, ok>> \in Entry
BY DEF Entry

\* Cardinalities only tell whether a handler is ready at all.
LEMMA ReadyIs ==
  ASSUME NEW c \in Client, NEW op
  PROVE  Ready(c, op) \in Nat /\ (Ready(c, op) > 0 <=> WaitsAny(c, op))
<1> DEFINE S == {i \in DOMAIN c.ready : c.ready[i][1] = op}
<1>1. c.ready \in Seq(Entry)
  BY DEF Client
<1>2. Len(c.ready) \in Nat /\ DOMAIN c.ready = 1 .. Len(c.ready)
  BY <1>1, LenProperties
<1>3. IsFiniteSet(DOMAIN c.ready)
  BY <1>2, FS_Interval
<1>4. IsFiniteSet(S)
  BY <1>3, FS_Subset
<1>5. Cardinality(S) \in Nat /\ (Cardinality(S) = 0 <=> S = {})
  BY <1>4, FS_CardinalityType, FS_EmptySet
<1> QED BY <1>5 DEF Ready, WaitsAny

\* What Post does.
LEMMA PostIs ==
  ASSUME NEW c \in Client, NEW op \in Handlers, NEW ok \in BOOLEAN
  PROVE  \/ /\ Post(c, op, ok) = [c EXCEPT !.ready = Append(@, <<op, ok>>)]
            /\ Post(c, op, ok) \in Client
         \/ Post(c, op, ok) = c /\ op = "close" /\ WaitsAny(c, "close")
<1>1. CASE op = "close" /\ Ready(c, op) >= MaxSpins
  <2>1. Ready(c, op) > 0
    BY <1>1, ReadyIs, WssAssumption DEF WssAssumption
  <2> QED BY <1>1, <2>1, ReadyIs DEF Post
<1>2. CASE ~(op = "close" /\ Ready(c, op) >= MaxSpins)
  <2>1. Post(c, op, ok) = [c EXCEPT !.ready = Append(@, <<op, ok>>)]
    BY <1>2 DEF Post
  <2>2. c.ready \in Seq(Entry) /\ <<op, ok>> \in Entry
    BY EntryIs DEF Client
  <2>3. PICK s \in Seq(Entry) : s = Append(c.ready, <<op, ok>>)
    BY <2>2, AppendProperties
  <2>4. [c EXCEPT !.ready = s] \in Client
    BY DEF Client
  <2> QED BY <2>1, <2>3, <2>4
<1> QED BY <1>1, <1>2

-----------------------------------------------------------------------------
(* What a handler's calls do, until a stream is replaced                     *)

\* A read is under way, or its handler is ready.
Listening(c) == "read" \in c.pending \/ WaitsAny(c, "read")

\* d is c after calls that only start operations: what is under way stays under
\* way, and new handlers come last in the queue.
Adds(c, d) ==
  /\ d \in Client
  /\ d.owner = c.owner /\ d.link = c.link /\ d.resolving = c.resolving
  /\ c.pending \subseteq d.pending
  /\ d.status \in {c.status, "closing"}
  /\ c.stopping => d.stopping
  /\ c.reconnect_wait => d.reconnect_wait
  /\ d.m_reading => c.m_reading \/ Listening(d)
  /\ AutoReconnect(c) => d.timers = c.timers
  /\ \A i \in DOMAIN c.ready : i \in DOMAIN d.ready /\ d.ready[i] = c.ready[i]
  /\ \A i \in DOMAIN d.ready : i \in DOMAIN c.ready \/
       /\ d.ready[i][1] # "trade" /\ d.ready[i] # <<"resolve", FALSE>>
       /\ d.ready[i] = <<"read", FALSE>> => d.status # "open"
       /\ \A j \in DOMAIN c.ready : j < i

\* One more handler in the queue.
LEMMA QueueGrows ==
  ASSUME NEW s \in Seq(Entry), NEW e \in Entry, NEW t, t = Append(s, e)
  PROVE  /\ t \in Seq(Entry)
         /\ \A i \in DOMAIN s : i \in DOMAIN t /\ t[i] = s[i]
         /\ \A i \in DOMAIN t : i \in DOMAIN s \/ (t[i] = e /\ \A j \in DOMAIN s : j < i)
         /\ \E i \in DOMAIN t : t[i] = e
<1>1. /\ t \in Seq(Entry) /\ Len(t) = Len(s) + 1
      /\ \A i \in 1 .. Len(s) : t[i] = s[i]
      /\ t[Len(s) + 1] = e
  BY AppendProperties
<1>2. Len(s) \in Nat /\ DOMAIN s = 1 .. Len(s) /\ DOMAIN t = 1 .. Len(t)
  BY <1>1, LenProperties
<1> QED BY <1>1, <1>2

\* Doing nothing is one such call.
LEMMA AddsSame == ASSUME NEW c \in Client PROVE Adds(c, c)
BY DEF Adds, Client

\* Such calls compose.
LEMMA AddsMore ==
  ASSUME NEW c \in Client, NEW d, NEW e, Adds(c, d), Adds(d, e)
  PROVE  Adds(c, e)
<1> USE DEF Adds
<1>1. /\ e \in Client /\ e.owner = c.owner /\ e.link = c.link /\ e.resolving = c.resolving
      /\ c.pending \subseteq e.pending /\ e.status \in {c.status, "closing"}
      /\ (c.stopping => e.stopping) /\ (c.reconnect_wait => e.reconnect_wait)
      /\ AutoReconnect(c) => e.timers = c.timers
  BY DEF AutoReconnect
<1>2. \A i \in DOMAIN c.ready : i \in DOMAIN e.ready /\ e.ready[i] = c.ready[i]
  OBVIOUS
<1>3. Listening(d) => Listening(e)
  BY DEF Listening, WaitsAny
<1>4. e.m_reading => c.m_reading \/ Listening(e)
  BY <1>3
<1>5. ASSUME NEW i \in DOMAIN e.ready
      PROVE  i \in DOMAIN c.ready \/
               /\ e.ready[i][1] # "trade" /\ e.ready[i] # <<"resolve", FALSE>>
               /\ e.ready[i] = <<"read", FALSE>> => e.status # "open"
               /\ \A j \in DOMAIN c.ready : j < i
  <2>1. CASE i \in DOMAIN d.ready
    <3>1. e.ready[i] = d.ready[i]
      BY <2>1
    <3>2. e.status = "open" => d.status = "open"
      OBVIOUS
    <3> QED BY <2>1, <3>1, <3>2
  <2>2. CASE i \notin DOMAIN d.ready
    BY <2>2
  <2> QED BY <2>1, <2>2
<1> QED BY <1>1, <1>2, <1>4, <1>5

\* What fails at once fails through the queue.
LEMMA PostAdds ==
  ASSUME NEW c \in Client, NEW op \in StreamOps \cup {"shutdown", "ping"},
         op = "read" => c.status # "open"
  PROVE  Adds(c, Post(c, op, FALSE))
<1>0. op \in Handlers /\ op # "trade" /\ op # "resolve"
  BY DEF Handlers, StreamOps
<1>1. CASE Post(c, op, FALSE) = c
  BY <1>1, AddsSame
<1>2. CASE Post(c, op, FALSE) = [c EXCEPT !.ready = Append(@, <<op, FALSE>>)] /\ Post(c, op, FALSE) \in Client
  <2>0. PICK e \in Entry : e = <<op, FALSE>>
    BY <1>0, EntryIs
  <2>1. c.ready \in Seq(Entry)
    BY DEF Client
  <2>2. PICK s \in Seq(Entry) : s = Append(c.ready, e)
    BY <2>1, AppendProperties
  <2>3. PICK d \in Client : d = Post(c, op, FALSE) /\ d = [c EXCEPT !.ready = s]
    BY <1>2, <2>2, <2>0
  <2>4. /\ d.ready = s /\ d.owner = c.owner /\ d.link = c.link /\ d.resolving = c.resolving
        /\ d.pending = c.pending /\ d.status = c.status /\ d.stopping = c.stopping
        /\ d.reconnect_wait = c.reconnect_wait /\ d.m_reading = c.m_reading
        /\ d.timers = c.timers
    BY <2>3 DEF Client
  <2>5. /\ \A i \in DOMAIN c.ready : i \in DOMAIN s /\ s[i] = c.ready[i]
        /\ \A i \in DOMAIN s : i \in DOMAIN c.ready \/
             (s[i] = e /\ \A j \in DOMAIN c.ready : j < i)
    BY <2>1, <2>2, QueueGrows
  <2>6. ASSUME NEW i \in DOMAIN d.ready, i \notin DOMAIN c.ready
        PROVE  /\ d.ready[i][1] # "trade" /\ d.ready[i] # <<"resolve", FALSE>>
               /\ d.ready[i] = <<"read", FALSE>> => d.status # "open"
               /\ \A j \in DOMAIN c.ready : j < i
    <3>1. d.ready[i] = <<op, FALSE>> /\ \A j \in DOMAIN c.ready : j < i
      BY <2>0, <2>4, <2>5, <2>6
    <3> QED BY <3>1, <1>0, <2>4
  <2>7. \A i \in DOMAIN c.ready : i \in DOMAIN d.ready /\ d.ready[i] = c.ready[i]
    BY <2>4, <2>5
  <2>8. d.status \in {c.status, "closing"} /\ c.pending \subseteq d.pending
    BY <2>4
  <2>9. /\ c.stopping => d.stopping
        /\ c.reconnect_wait => d.reconnect_wait
        /\ d.m_reading => c.m_reading \/ Listening(d)
        /\ AutoReconnect(c) => d.timers = c.timers
    BY <2>4
  <2>10. Adds(c, d)
    BY <2>3, <2>4, <2>6, <2>7, <2>8, <2>9 DEF Adds
  <2> QED BY <2>3, <2>10, Zenon
<1> QED BY <1>0, <1>1, <1>2, PostIs, Zenon

\* A call that leaves the queue alone.
LEMMA FieldsAdd ==
  ASSUME NEW c \in Client, NEW d \in Client, d.ready = c.ready,
         d.owner = c.owner, d.link = c.link, d.resolving = c.resolving,
         c.pending \subseteq d.pending, d.status \in {c.status, "closing"},
         c.stopping => d.stopping, c.reconnect_wait => d.reconnect_wait,
         d.m_reading => c.m_reading \/ Listening(d), AutoReconnect(c) => d.timers = c.timers
  PROVE  Adds(c, d)
BY DEF Adds

\* ++n_callbacks and --n_callbacks.
LEMMA CountAdds ==
  ASSUME NEW c \in Client, NEW n \in Int
  PROVE  [c EXCEPT !.n_callbacks = n % Wrap] \in Client /\ Adds(c, [c EXCEPT !.n_callbacks = n % Wrap])
<1>1. PICK k \in 0 .. Wrap - 1 : k = n % Wrap
  BY Modulo
<1>2. PICK d \in Client : d = [c EXCEPT !.n_callbacks = k]
  BY DEF Client
<1>3. /\ d.ready = c.ready /\ d.owner = c.owner /\ d.link = c.link /\ d.resolving = c.resolving
      /\ d.pending = c.pending /\ d.status = c.status /\ d.stopping = c.stopping
      /\ d.reconnect_wait = c.reconnect_wait /\ d.m_reading = c.m_reading
      /\ d.timers = c.timers
  BY <1>2 DEF Client
<1>4. Adds(c, d)
  BY <1>3, FieldsAdd
<1> QED BY <1>1, <1>2, <1>4

\* An operation starts, or fails through the queue.
LEMMA AsyncAdds ==
  ASSUME NEW c \in Client, NEW op \in StreamOps \cup {"shutdown"}
  PROVE  /\ Adds(c, Async(c, op))
         /\ op # "close" => op \in Async(c, op).pending \/ WaitsAny(Async(c, op), op)
         /\ c.status = "open" /\ op = "read" => op \in Async(c, op).pending
<1>1. PICK b \in Client : b = [c EXCEPT !.n_callbacks = (@ + 1) % Wrap] /\ Adds(c, b)
  <2>1. c.n_callbacks + 1 \in Int
    BY DEF Client
  <2>2. [c EXCEPT !.n_callbacks = (@ + 1) % Wrap] = [c EXCEPT !.n_callbacks = (c.n_callbacks + 1) % Wrap]
    OBVIOUS
  <2> QED BY <2>1, <2>2, CountAdds
<1>2. b.status = c.status /\ b.pending = c.pending /\ b.link = c.link
  BY <1>1 DEF Client
<1>3. CASE ~Possible(c, op)
  <2>1. Async(c, op) = Post(b, op, FALSE)
    BY <1>1, <1>3 DEF Async
  <2>2. op = "read" => b.status # "open"
    BY <1>2, <1>3 DEF Possible, Alive
  <2>3. Adds(b, Post(b, op, FALSE))
    BY <2>2, PostAdds
  <2>4. op # "close" => WaitsAny(Post(b, op, FALSE), op)
    <3> SUFFICES ASSUME op # "close" PROVE WaitsAny(Post(b, op, FALSE), op)
      OBVIOUS
    <3>1. op \in Handlers
      BY DEF Handlers, StreamOps
    <3>2. PICK e \in Entry : e = <<op, FALSE>>
      BY <3>1, EntryIs
    <3>3. Post(b, op, FALSE) = [b EXCEPT !.ready = Append(@, e)]
      BY <3>1, <3>2, PostIs
    <3>4. b.ready \in Seq(Entry)
      BY DEF Client
    <3>5. PICK s \in Seq(Entry) : s = Append(b.ready, e)
      BY <3>4, AppendProperties
    <3>6. Post(b, op, FALSE).ready = s
      BY <3>3, <3>5 DEF Client
    <3>7. PICK i \in DOMAIN s : s[i] = e
      BY <3>4, <3>5, QueueGrows
    <3>8. s[i][1] = op
      BY <3>2, <3>7
    <3> QED BY <3>6, <3>8, Zenon DEF WaitsAny
  <2>5. op = "read" => c.status # "open"
    BY <1>2, <2>2
  <2> QED BY <1>1, <2>1, <2>3, <2>4, <2>5, AddsMore
<1>4. CASE Possible(c, op)
  <2>1. op \in StreamOps
    BY <1>4 DEF Possible, StreamOps
  <2>2. PICK p \in SUBSET StreamOps : p = c.pending \cup {op}
    BY <2>1 DEF Client
  <2>3. PICK o \in BOOLEAN : o = (b.overlap \/ op \in c.pending \cap {"read", "write"})
    BY DEF Client
  <2>4. PICK st \in Statuses : st = (IF op = "close" THEN "closing" ELSE c.status)
    BY DEF Client, Statuses
  <2>5. PICK d \in Client : d = [b EXCEPT !.pending = p, !.overlap = o, !.status = st]
    BY DEF Client
  <2>6. Async(c, op) = d
    BY <1>1, <1>2, <1>4, <2>2, <2>3, <2>4, <2>5 DEF Async, Client
  <2>7. /\ d.ready = b.ready /\ d.owner = b.owner /\ d.link = b.link /\ d.resolving = b.resolving
        /\ d.pending = p /\ d.status = st /\ d.stopping = b.stopping
        /\ d.reconnect_wait = b.reconnect_wait /\ d.m_reading = b.m_reading
        /\ d.timers = b.timers
    BY <2>5 DEF Client
  <2>8. b.pending \subseteq d.pending /\ op \in d.pending /\ d.status \in {b.status, "closing"}
    BY <1>2, <2>2, <2>4, <2>7
  <2>9. Adds(b, d)
    BY <2>7, <2>8, FieldsAdd
  <2>10. Adds(c, d)
    BY <1>1, <2>9, AddsMore
  <2> QED BY <2>6, <2>8, <2>10, Zenon
<1> QED BY <1>3, <1>4

\* A cancelled wait queues its handler, with an error.
LEMMA CancelPingAdds == ASSUME NEW c \in Client PROVE Adds(c, CancelPing(c))
<1>1. CASE ~c.ping_wait
  BY <1>1, AddsSame DEF CancelPing
<1>2. CASE c.ping_wait
  <2>1. PICK d \in Client : d = [c EXCEPT !.ping_wait = FALSE]
    BY DEF Client
  <2>2. Adds(c, d)
    BY <2>1, FieldsAdd DEF Client
  <2>3. Adds(d, Post(d, "ping", FALSE))
    BY PostAdds
  <2>4. CancelPing(c) = Post(d, "ping", FALSE)
    BY <1>2, <2>1 DEF CancelPing
  <2> QED BY <2>2, <2>3, <2>4, AddsMore
<1> QED BY <1>1, <1>2

\* start_ping_pong.
LEMMA StartPingPongAdds == ASSUME NEW c \in Client PROVE Adds(c, StartPingPong(c))
<1>1. PICK b \in Client : b = CancelPing(c) /\ Adds(c, b)
  BY CancelPingAdds DEF Adds
<1>2. PICK d \in Client : d = [b EXCEPT !.ping_wait = TRUE]
  BY DEF Client
<1>3. Adds(b, d)
  BY <1>2, FieldsAdd DEF Client
<1>4. StartPingPong(c) = d
  BY <1>1, <1>2 DEF StartPingPong
<1> QED BY <1>1, <1>3, <1>4, AddsMore

\* close.
LEMMA CloseAdds == ASSUME NEW c \in Client PROVE Adds(c, Close(c))
<1>1. PICK b \in Client : b = [c EXCEPT !.stopping = TRUE]
  BY DEF Client
<1>2. Adds(c, b)
  <2>1. c.stopping => b.stopping
    BY <1>1 DEF Client
  <2> QED BY <1>1, <2>1, FieldsAdd DEF Client
<1>3. PICK d \in Client : d = Async(b, "close") /\ Adds(b, d)
  BY AsyncAdds DEF Adds, StreamOps
<1>4. Adds(d, CancelPing(d))
  BY CancelPingAdds
<1>5. Close(c) = CancelPing(d)
  BY <1>1, <1>3 DEF Close
<1> QED BY <1>2, <1>3, <1>4, <1>5, AddsMore

\* on_error of the owners that log does nothing at all.
LEMMA OnErrorAdds ==
  ASSUME NEW c \in Client
  PROVE  Adds(c, OnError(c)) /\ (AutoReconnect(c) => OnError(c) = c)
<1>1. CASE c.owner = "logs"
  BY <1>1, AddsSame DEF OnError
<1>2. CASE c.owner # "logs"
  <2>1. PICK b \in Client : b = Close(c) /\ Adds(c, b)
    BY CloseAdds DEF Adds
  <2>2. PICK t \in 0 .. MaxSpins : t = (IF b.timers = MaxSpins THEN b.timers ELSE b.timers + 1)
    BY WssAssumption DEF WssAssumption, Client
  <2>3. PICK d \in Client : d = [b EXCEPT !.timers = t]
    BY DEF Client
  <2>4. OnError(c) = d
    BY <1>2, <2>1, <2>2, <2>3 DEF OnError
  <2>5. /\ d.ready = b.ready /\ d.owner = b.owner /\ d.link = b.link /\ d.resolving = b.resolving
        /\ d.pending = b.pending /\ d.status = b.status /\ d.stopping = b.stopping
        /\ d.reconnect_wait = b.reconnect_wait /\ d.m_reading = b.m_reading
    BY <2>3 DEF Client
  <2>6. b.owner # "logs"
    BY <1>2, <2>1 DEF Adds
  <2>7. Adds(b, d)
    BY <2>5, <2>6, FieldsAdd DEF AutoReconnect
  <2>8. Adds(c, d)
    BY <2>1, <2>7, AddsMore
  <2> QED BY <1>2, <2>4, <2>8, Zenon DEF AutoReconnect
<1> QED BY <1>1, <1>2

\* start_reconnect leaves a wait ahead, unless the client was closed.
LEMMA StartReconnectAdds ==
  ASSUME NEW c \in Client
  PROVE  Adds(c, StartReconnect(c)) /\ (~c.stopping => StartReconnect(c).reconnect_wait)
<1>1. CASE c.stopping
  BY <1>1, AddsSame DEF StartReconnect
<1>2. CASE ~c.stopping
  <2>1. PICK b \in Client : b = [c EXCEPT !.n_callbacks = (@ + 1) % Wrap] /\ Adds(c, b)
    <3>1. c.n_callbacks + 1 \in Int
      BY DEF Client
    <3>2. [c EXCEPT !.n_callbacks = (@ + 1) % Wrap] = [c EXCEPT !.n_callbacks = (c.n_callbacks + 1) % Wrap]
      OBVIOUS
    <3> QED BY <3>1, <3>2, CountAdds
  <2>2. PICK d \in Client : d = [b EXCEPT !.reconnect_wait = TRUE]
    BY DEF Client
  <2>3. StartReconnect(c) = d
    BY <1>2, <2>1, <2>2 DEF StartReconnect, Client
  <2>4. d.reconnect_wait
    BY <2>2 DEF Client
  <2>5. Adds(b, d)
    BY <2>2, <2>4, FieldsAdd DEF Client
  <2>6. Adds(c, d)
    BY <2>1, <2>5, AddsMore
  <2> QED BY <2>3, <2>4, <2>6, Zenon
<1> QED BY <1>1, <1>2

\* leave_callback.
LEMMA LeaveCallbackAdds == ASSUME NEW c \in Client PROVE Adds(c, LeaveCallback(c))
<1>1. PICK n \in 0 .. Wrap - 1 : n = (c.n_callbacks - 1) % Wrap
  <2>1. c.n_callbacks - 1 \in Int
    BY DEF Client
  <2> QED BY <2>1, Modulo
<1>2. PICK r \in BOOLEAN : r = (c.early \/ (n = 0 /\ UnderWay(c)))
  OBVIOUS
<1>3. PICK d \in Client : d = [c EXCEPT !.n_callbacks = n, !.early = r]
  BY DEF Client
<1>4. LeaveCallback(c) = d
  BY <1>1, <1>2, <1>3 DEF LeaveCallback
<1>5. Adds(c, d)
  BY <1>3, FieldsAdd DEF Client
<1> QED BY <1>4, <1>5

\* An error is reported and, where the library reconnects, a reconnect is due.
LEMMA FailedAdds ==
  ASSUME NEW c \in Client
  PROVE  /\ Adds(c, Failed(c))
         /\ AutoReconnect(c) /\ ~c.stopping => Failed(c).reconnect_wait
<1>1. PICK b \in Client : b = OnError(c) /\ Adds(c, b) /\ (AutoReconnect(c) => b = c)
  BY OnErrorAdds DEF Adds
<1>2. PICK d \in Client : d = ProcessError(c) /\ Adds(b, d) /\
                          (AutoReconnect(c) /\ ~c.stopping => d.reconnect_wait)
  <2>1. CASE AutoReconnect(c)
    BY <1>1, <2>1, StartReconnectAdds DEF ProcessError, Adds
  <2>2. CASE ~AutoReconnect(c)
    BY <1>1, <2>2, AddsSame DEF ProcessError
  <2> QED BY <2>1, <2>2
<1>3. Adds(d, LeaveCallback(d))
  BY LeaveCallbackAdds
<1>4. Failed(c) = LeaveCallback(d)
  BY <1>2 DEF Failed
<1>5. d.reconnect_wait => LeaveCallback(d).reconnect_wait
  BY <1>3 DEF Adds
<1>6. Adds(c, LeaveCallback(d))
  BY <1>1, <1>2, <1>3, AddsMore
<1> QED BY <1>2, <1>4, <1>5, <1>6

\* send; its message waits behind a write that is under way.
LEMMA SendAdds == ASSUME NEW c \in Client PROVE Adds(c, Send(c))
<1>1. PICK u \in 0 .. Wrap - 1 : u = (c.unsent + 1) % Wrap
  BY CountedModulo
<1>2. PICK b \in Client : b = [c EXCEPT !.unsent = u]
  BY DEF Client
<1>3. Adds(c, b)
  BY <1>2, FieldsAdd DEF Client
<1>4. Send(c) = SendNext(b)
  BY <1>1, <1>2 DEF Send
<1>5. CASE b.m_writing
  BY <1>3, <1>4, <1>5 DEF SendNext
<1>6. CASE ~b.m_writing
  <2>1. PICK d \in Client : d = [b EXCEPT !.m_writing = TRUE]
    BY DEF Client
  <2>2. Adds(b, d)
    BY <2>1, FieldsAdd DEF Client
  <2>3. Adds(d, Async(d, "write"))
    BY AsyncAdds DEF StreamOps
  <2>4. Adds(c, d)
    BY <1>3, <2>2, AddsMore
  <2>5. Send(c) = Async(d, "write")
    BY <1>4, <1>6, <2>1 DEF SendNext
  <2> QED BY <2>3, <2>4, <2>5, AddsMore
<1> QED BY <1>5, <1>6

\* receive: a read is under way afterwards, unless the client thinks one is.
LEMMA ReceiveAdds ==
  ASSUME NEW c \in Client
  PROVE  /\ Adds(c, Receive(c))
         /\ c.m_reading => Receive(c) = c
         /\ ~c.m_reading => Listening(Receive(c))
         /\ ~c.m_reading /\ c.status = "open" => "read" \in Receive(c).pending
<1>1. CASE c.m_reading
  BY <1>1, AddsSame DEF Receive
<1>2. CASE ~c.m_reading
  <2>1. PICK b \in Client : b = [c EXCEPT !.m_reading = TRUE]
    BY DEF Client
  <2>2. /\ b.ready = c.ready /\ b.owner = c.owner /\ b.link = c.link /\ b.resolving = c.resolving
        /\ b.pending = c.pending /\ b.status = c.status /\ b.stopping = c.stopping
        /\ b.reconnect_wait = c.reconnect_wait /\ b.timers = c.timers
    BY <2>1 DEF Client
  <2>3. PICK d \in Client :
          /\ d = Async(b, "read") /\ Adds(b, d)
          /\ "read" \in d.pending \/ WaitsAny(d, "read")
          /\ b.status = "open" => "read" \in d.pending
    BY AsyncAdds DEF Adds, StreamOps
  <2>4. Receive(c) = d
    BY <1>2, <2>1, <2>3 DEF Receive
  <2>5. Listening(d)
    BY <2>3 DEF Listening
  <2>6. Adds(c, d)
    BY <2>2, <2>3, <2>5 DEF Adds, AutoReconnect
  <2> QED BY <1>2, <2>2, <2>3, <2>4, <2>5, <2>6
<1> QED BY <1>1, <1>2

-----------------------------------------------------------------------------
(* A stream is replaced                                                     *)

\* Handlers of operations that the old stream did not finish.
Aborts == StreamOps \X {FALSE}

\* Operations of a destroyed stream end with an error.
LEMMA AbortedIs == ASSUME NEW c PROVE Aborted(c) \in Seq(Aborts)
<1> DEFINE Ended(op) == IF op \in c.pending THEN <<<<op, FALSE>>>> ELSE <<>>
           Last == IF "write" \in c.pending THEN <<>> ELSE Ended("close")
<1>1. ASSUME NEW op \in StreamOps PROVE Ended(op) \in Seq(Aborts)
  <2>1. PICK e \in Aborts : e = <<op, FALSE>>
    BY DEF Aborts
  <2>2. <<e>> \in Seq(Aborts) /\ <<>> \in Seq(Aborts)
    OBVIOUS
  <2> QED BY <2>1, <2>2
<1>2. /\ Ended("connect") \in Seq(Aborts) /\ Ended("ssl") \in Seq(Aborts)
      /\ Ended("handshake") \in Seq(Aborts) /\ Ended("read") \in Seq(Aborts)
      /\ Ended("write") \in Seq(Aborts) /\ Ended("close") \in Seq(Aborts)
  BY <1>1, Zenon DEF StreamOps
<1>3. Last \in Seq(Aborts)
  BY <1>2
<1>4. Aborted(c) = Ended("connect") \o Ended("ssl") \o Ended("handshake") \o Ended("read")
                     \o Ended("write") \o Last
  BY Zenon DEF Aborted
<1> HIDE DEF Ended, Last
<1>5. Ended("connect") \o Ended("ssl") \in Seq(Aborts)
  BY <1>2, ConcatProperties
<1>6. Ended("connect") \o Ended("ssl") \o Ended("handshake") \in Seq(Aborts)
  BY <1>2, <1>5, ConcatProperties
<1>7. Ended("connect") \o Ended("ssl") \o Ended("handshake") \o Ended("read") \in Seq(Aborts)
  BY <1>2, <1>6, ConcatProperties
<1>8. Ended("connect") \o Ended("ssl") \o Ended("handshake") \o Ended("read")
        \o Ended("write") \in Seq(Aborts)
  BY <1>2, <1>7, ConcatProperties
<1> QED BY <1>3, <1>4, <1>8, ConcatProperties

\* d is c with its stream replaced and a lookup begun.
Renews(c, d) ==
  /\ d \in Client
  /\ d.owner = c.owner /\ d.stopping = c.stopping /\ d.timers = c.timers
  /\ d.resolving = c.resolving + 1 /\ d.status = "closed" /\ ~d.m_reading /\ d.pending = {}
  /\ \A i \in DOMAIN d.ready :
       (i \in DOMAIN c.ready /\ d.ready[i] = c.ready[i]) \/ d.ready[i] \in Aborts

\* resolve_reconnect is the one call that replaces the stream.
LEMMA ResolveReconnectRenews ==
  ASSUME NEW c \in Client
  PROVE  Renews(c, ResolveReconnect(c))
<1>1. Aborted(c) \in Seq(Aborts) /\ Aborts \subseteq Entry
  BY AbortedIs DEF Aborts, Entry, Handlers
<1>2. Aborted(c) \in Seq(Entry) /\ c.ready \in Seq(Entry)
  BY <1>1, SeqMonotonic DEF Client
<1>3. PICK s \in Seq(Entry) : s = c.ready \o Aborted(c)
  BY <1>2, ConcatProperties
<1>4. \A i \in DOMAIN s : (i \in DOMAIN c.ready /\ s[i] = c.ready[i]) \/ s[i] \in Aborts
  <2>1. /\ Len(s) = Len(c.ready) + Len(Aborted(c))
        /\ \A i \in 1 .. Len(c.ready) + Len(Aborted(c)) :
             s[i] = IF i <= Len(c.ready) THEN c.ready[i] ELSE Aborted(c)[i - Len(c.ready)]
    BY <1>2, <1>3, ConcatProperties
  <2>2. /\ Len(c.ready) \in Nat /\ DOMAIN c.ready = 1 .. Len(c.ready)
        /\ Len(Aborted(c)) \in Nat /\ DOMAIN s = 1 .. Len(s)
    BY <1>2, LenProperties
  <2>3. \A n \in 1 .. Len(Aborted(c)) : Aborted(c)[n] \in Aborts
    BY <1>1, ElementOfSeq
  <2> QED BY <2>1, <2>2, <2>3
<1>5. PICK t \in BOOLEAN : t = (c.torn \/ UnderWay(c))
  OBVIOUS
<1>6. NewStream(c) = [c EXCEPT !.torn = t, !.ready = s, !.pending = {}, !.status = "closed", !.link = "none"]
  BY <1>3, <1>5 DEF NewStream, Client
<1>7. PICK a \in Client : a = NewStream(c)
  BY <1>6 DEF Client, Statuses, Links
<1>8. a.ready = s /\ a.status = "closed" /\ a.owner = c.owner /\ a.stopping = c.stopping
      /\ a.timers = c.timers /\ a.resolving = c.resolving /\ a.pending = {}
  BY <1>6, <1>7 DEF Client
<1>9. PICK b \in Client : b = Reset(a)
  <2>1. PICK m \in Client : m = [a EXCEPT !.m_writing = FALSE]
    BY DEF Client
  <2>2. PICK k \in Client : k = [m EXCEPT !.m_reading = FALSE]
    BY DEF Client
  <2>3. PICK z \in 0 .. Wrap - 1 : z = 0
    BY WssAssumption DEF WssAssumption
  <2>4. PICK b \in Client : b = [k EXCEPT !.unsent = z]
    BY DEF Client
  <2>5. b = Reset(a)
    BY <2>1, <2>2, <2>3, <2>4 DEF Reset, Client
  <2> QED BY <2>5
<1>10. b.ready = s /\ b.status = "closed" /\ b.owner = c.owner /\ b.stopping = c.stopping
       /\ b.timers = c.timers /\ b.resolving = c.resolving /\ ~b.m_reading /\ b.pending = {}
  BY <1>8, <1>9 DEF Client, Reset
<1>11. PICK n \in 0 .. Wrap - 1 : n = (0 + 1) % Wrap
  BY Modulo
<1>12. PICK r \in Nat : r = c.resolving + 1
  BY DEF Client
<1>13. PICK d \in Client : d = [b EXCEPT !.n_callbacks = n, !.resolving = r]
  BY DEF Client
<1>14. ResolveReconnect(c) = d
  BY <1>7, <1>9, <1>10, <1>11, <1>12, <1>13 DEF ResolveReconnect, BindResolveConnect, Client
<1>15. d.ready = s /\ d.status = "closed" /\ d.owner = c.owner /\ d.stopping = c.stopping
       /\ d.timers = c.timers /\ d.resolving = r /\ ~d.m_reading /\ d.pending = {}
  BY <1>10, <1>13 DEF Client
<1>16. Renews(c, d)
  BY <1>4, <1>12, <1>15 DEF Renews
<1> QED BY <1>14, <1>16, Zenon

\* try_reconnect; the close it may begin is aborted at once.
LEMMA TryReconnectRenews ==
  ASSUME NEW c \in Client, ~c.stopping
  PROVE  \E b \in Client : Adds(c, b) /\ TryReconnect(c) = ResolveReconnect(b)
<1>1. CASE c.status = "open"
  <2>1. PICK b \in Client : b = Async(c, "close") /\ Adds(c, b)
    BY AsyncAdds DEF Adds, StreamOps
  <2>2. TryReconnect(c) = ResolveReconnect(b)
    BY <1>1, <2>1 DEF TryReconnect
  <2> QED BY <2>1, <2>2
<1>2. CASE c.status # "open"
  BY <1>2, AddsSame DEF TryReconnect
<1> QED BY <1>1, <1>2

-----------------------------------------------------------------------------
(* The invariant                                                            *)

\* A client that thinks it is reading will hear of that read.
Answered(c) == c.m_reading => Listening(c)

\* An open stream is read, or will be by its handshake's handler, and no failed
\* read of an earlier stream comes after that.
Heard(c) ==
  c.status = "open" =>
    \/ "read" \in c.pending
    \/ Waits(c, "read", TRUE)
    \/ \E i \in DOMAIN c.ready :
         /\ c.ready[i] = <<"handshake", TRUE>>
         /\ \A j \in DOMAIN c.ready : i < j => c.ready[j] # <<"read", FALSE>>

\* Only the trade owner has timers of its own.
Owned(c) == AutoReconnect(c) => c.timers = 0 /\ ~WaitsAny(c, "trade")

\* What brings a client up again, or tells it that it is down.
Signals == {"resolve", "connect", "ssl", "handshake", "read", "reconnect"}
Returning(c) ==
  AutoReconnect(c) /\ ~c.stopping =>
    \/ c.reconnect_wait \/ c.resolving > 0
    \/ \E op \in {"connect", "ssl", "handshake", "read"} : op \in c.pending
    \/ \E op \in Signals : WaitsAny(c, op)

IInv ==
  /\ ws \in Client /\ faults \in 0 .. MaxFaults /\ lookups \in 0 .. MaxLookups
  /\ Answered(ws) /\ Heard(ws) /\ Owned(ws)
  /\ Waits(ws, "resolve", FALSE) => lookups > 0
  /\ lookups = 0 => Returning(ws)

\* d is as good as the invariant wants, and no reconnect has begun after close().
Keeps(d) ==
  /\ d \in Client /\ Answered(d) /\ Heard(d) /\ Owned(d)
  /\ Waits(d, "resolve", FALSE) => lookups > 0
  /\ lookups = 0 => Returning(d)
  /\ AutoReconnect(ws) /\ ws.stopping => d.resolving <= ws.resolving

\* What only adds keeps each part of the invariant.
LEMMA AddsKeep ==
  ASSUME NEW c \in Client, NEW d, Adds(c, d)
  PROVE  /\ Answered(c) => Answered(d)
         /\ Heard(c) => Heard(d)
         /\ Owned(c) => Owned(d)
         /\ Waits(d, "resolve", FALSE) => Waits(c, "resolve", FALSE)
         /\ Returning(c) => Returning(d)
<1> USE DEF Adds
<1>1. \A op : WaitsAny(c, op) => WaitsAny(d, op)
  BY DEF WaitsAny
<1>2. Listening(c) => Listening(d)
  BY <1>1 DEF Listening
<1>3. Answered(c) => Answered(d)
  BY <1>2 DEF Answered
<1>4. Heard(c) => Heard(d)
  <2> SUFFICES ASSUME Heard(c), d.status = "open" PROVE Heard(d)
    BY DEF Heard
  <2>1. c.status = "open"
    OBVIOUS
  <2>2. CASE "read" \in c.pending
    BY <2>2 DEF Heard
  <2>3. CASE Waits(c, "read", TRUE)
    BY <2>3 DEF Heard, Waits
  <2>4. CASE \E i \in DOMAIN c.ready :
               /\ c.ready[i] = <<"handshake", TRUE>>
               /\ \A j \in DOMAIN c.ready : i < j => c.ready[j] # <<"read", FALSE>>
    <3>1. PICK i \in DOMAIN c.ready :
            /\ c.ready[i] = <<"handshake", TRUE>>
            /\ \A j \in DOMAIN c.ready : i < j => c.ready[j] # <<"read", FALSE>>
      BY <2>4
    <3>2. i \in DOMAIN d.ready /\ d.ready[i] = <<"handshake", TRUE>>
      BY <3>1
    <3>3. ASSUME NEW j \in DOMAIN d.ready, i < j PROVE d.ready[j] # <<"read", FALSE>>
      BY <3>1, <3>3
    <3> QED BY <3>2, <3>3 DEF Heard
  <2> QED BY <2>1, <2>2, <2>3, <2>4 DEF Heard
<1>5. Owned(c) => Owned(d)
  BY DEF Owned, WaitsAny, AutoReconnect
<1>6. Waits(d, "resolve", FALSE) => Waits(c, "resolve", FALSE)
  BY DEF Waits
<1>7. Returning(c) => Returning(d)
  <2> SUFFICES ASSUME Returning(c), AutoReconnect(d), ~d.stopping PROVE Returning(d)
    BY DEF Returning
  <2>1. AutoReconnect(c) /\ ~c.stopping
    BY DEF AutoReconnect
  <2>2. CASE c.reconnect_wait \/ c.resolving > 0
    BY <2>2 DEF Returning
  <2>3. CASE \E op \in {"connect", "ssl", "handshake", "read"} : op \in c.pending
    BY <2>3 DEF Returning
  <2>4. CASE \E op \in Signals : WaitsAny(c, op)
    BY <1>1, <2>4 DEF Returning
  <2> QED BY <2>1, <2>2, <2>3, <2>4 DEF Returning
<1> QED BY <1>3, <1>4, <1>5, <1>6, <1>7

\* A new stream is closed, nobody reads it yet, and its lookup is under way.
LEMMA RenewsKeep ==
  ASSUME IInv, NEW c \in Client, NEW d, Renews(c, d), Owned(c),
         Waits(c, "resolve", FALSE) => lookups > 0,
         c.owner = ws.owner, AutoReconnect(ws) => ~ws.stopping
  PROVE  Keeps(d)
<1> USE DEF Renews
<1>1. Answered(d) /\ Heard(d)
  BY DEF Answered, Heard
<1>2. \A e \in Aborts : e[1] \in StreamOps /\ e[2] = FALSE
  BY DEF Aborts
<1>3. Owned(d)
  BY <1>2 DEF Owned, WaitsAny, AutoReconnect, StreamOps
<1>4. Waits(d, "resolve", FALSE) => lookups > 0
  <2> SUFFICES ASSUME NEW i \in DOMAIN d.ready, d.ready[i] = <<"resolve", FALSE>>
      PROVE  lookups > 0
    BY DEF Waits
  <2>1. d.ready[i][1] = "resolve"
    OBVIOUS
  <2>2. d.ready[i] \notin Aborts
    BY <1>2, <2>1 DEF StreamOps
  <2> QED BY <2>2 DEF Waits
<1>5. Returning(d)
  <2>1. d.resolving > 0
    BY DEF Client
  <2> QED BY <2>1 DEF Returning
<1> QED BY <1>1, <1>3, <1>4, <1>5 DEF Keeps

-----------------------------------------------------------------------------
(* Handlers                                                                 *)

\* The client once the oldest handler has been taken off the queue.
Taken == [ws EXCEPT !.ready = Tail(@)]

\* What is left of the invariant then.
LEMMA TakenIs ==
  ASSUME IInv, NEW op \in Handlers, NEW ok \in BOOLEAN, ws.ready # <<>>, Head(ws.ready) = <<op, ok>>
  PROVE  /\ Taken \in Client /\ Owned(Taken)
         /\ Taken.owner = ws.owner /\ Taken.stopping = ws.stopping /\ Taken.status = ws.status
         /\ Taken.resolving = ws.resolving /\ Taken.m_reading = ws.m_reading
         /\ Waits(Taken, "resolve", FALSE) => lookups > 0
         /\ op # "read" => Answered(Taken)
         /\ <<op, ok>> \notin {<<"read", TRUE>>, <<"handshake", TRUE>>} => Heard(Taken)
         /\ op = "handshake" =>
              Heard(Taken) \/ \A j \in DOMAIN Taken.ready : Taken.ready[j] # <<"read", FALSE>>
         /\ op \notin Signals /\ lookups = 0 => Returning(Taken)
         /\ op = "resolve" /\ ok = FALSE => lookups > 0
<1>1. ws \in Client /\ ws.ready \in Seq(Entry)
  BY DEF IInv, Client
<1>2. PICK s \in Seq(Entry) : s = Tail(ws.ready)
  BY <1>1, HeadTailProperties
<1>3. /\ 1 \in DOMAIN ws.ready /\ ws.ready[1] = <<op, ok>>
      /\ \A i \in DOMAIN s : i \in Nat /\ i + 1 \in DOMAIN ws.ready /\ s[i] = ws.ready[i + 1]
      /\ \A i \in DOMAIN ws.ready : i \in Nat /\ (i = 1 \/ (i - 1 \in DOMAIN s /\ s[i - 1] = ws.ready[i]))
  <2>1. Len(s) = Len(ws.ready) - 1 /\ \A i \in 1 .. Len(s) : s[i] = ws.ready[i + 1]
    BY <1>1, <1>2, HeadTailProperties
  <2>2. Len(ws.ready) \in Nat /\ DOMAIN ws.ready = 1 .. Len(ws.ready) /\ DOMAIN s = 1 .. Len(s)
    BY <1>1, <1>2, LenProperties
  <2>3. Len(ws.ready) > 0
    BY <1>1, EmptySeq
  <2>4. ws.ready[1] = Head(ws.ready)
    BY <1>1
  <2> QED BY <2>1, <2>2, <2>3, <2>4
<1>4. PICK c \in Client : c = Taken /\ c = [ws EXCEPT !.ready = s]
  BY <1>1, <1>2 DEF Taken, Client
<1>5. /\ c.ready = s /\ c.owner = ws.owner /\ c.stopping = ws.stopping /\ c.status = ws.status
      /\ c.resolving = ws.resolving /\ c.m_reading = ws.m_reading /\ c.pending = ws.pending
      /\ c.timers = ws.timers /\ c.reconnect_wait = ws.reconnect_wait
  BY <1>1, <1>4 DEF Client
<1>6. \A x : WaitsAny(c, x) => WaitsAny(ws, x)
  BY <1>3, <1>5 DEF WaitsAny
<1>7. \A x : x # op => (WaitsAny(ws, x) => WaitsAny(c, x))
  <2> SUFFICES ASSUME NEW x, x # op, NEW i \in DOMAIN ws.ready, ws.ready[i][1] = x
      PROVE  WaitsAny(c, x)
    BY DEF WaitsAny
  <2>1. i # 1
    BY <1>3
  <2> QED BY <1>3, <1>5, <2>1 DEF WaitsAny
<1>8. Owned(c)
  BY <1>5, <1>6 DEF IInv, Owned, AutoReconnect
<1>9. Waits(c, "resolve", FALSE) => lookups > 0
  <2>1. Waits(c, "resolve", FALSE) => Waits(ws, "resolve", FALSE)
    <3> SUFFICES ASSUME NEW i \in DOMAIN s, s[i] = <<"resolve", FALSE>>
        PROVE  Waits(ws, "resolve", FALSE)
      BY <1>5 DEF Waits
    <3>1. i + 1 \in DOMAIN ws.ready /\ ws.ready[i + 1] = <<"resolve", FALSE>>
      BY <1>3
    <3> QED BY <3>1, Zenon DEF Waits
  <2> QED BY <2>1 DEF IInv
<1>10. op # "read" => Answered(c)
  BY <1>5, <1>7 DEF IInv, Answered, Listening
<1>11. ASSUME ws.status = "open"
       PROVE  /\ <<op, ok>> \notin {<<"read", TRUE>>, <<"handshake", TRUE>>} => Heard(c)
              /\ op = "handshake" =>
                   Heard(c) \/ \A j \in DOMAIN c.ready : c.ready[j] # <<"read", FALSE>>
  <2>1. CASE "read" \in ws.pending
    BY <1>5, <2>1 DEF Heard
  <2>2. CASE Waits(ws, "read", TRUE)
    <3>1. PICK i \in DOMAIN ws.ready : ws.ready[i] = <<"read", TRUE>>
      BY <2>2 DEF Waits
    <3>2. CASE i = 1
      <4>1. <<op, ok>> = <<"read", TRUE>>
        BY <1>3, <3>1, <3>2, Zenon
      <4>2. op = "read"
        BY <4>1, Zenon
      <4> QED BY <4>1, <4>2
    <3>3. CASE i # 1
      <4>1. i - 1 \in DOMAIN c.ready /\ c.ready[i - 1] = <<"read", TRUE>>
        BY <1>3, <1>5, <3>1, <3>3
      <4> QED BY <4>1 DEF Heard, Waits
    <3> QED BY <3>2, <3>3
  <2>3. CASE \E i \in DOMAIN ws.ready :
               /\ ws.ready[i] = <<"handshake", TRUE>>
               /\ \A j \in DOMAIN ws.ready : i < j => ws.ready[j] # <<"read", FALSE>>
    <3>1. PICK i \in DOMAIN ws.ready :
            /\ ws.ready[i] = <<"handshake", TRUE>>
            /\ \A j \in DOMAIN ws.ready : i < j => ws.ready[j] # <<"read", FALSE>>
      BY <2>3
    <3>2. CASE i = 1
      <4>1. \A j \in DOMAIN c.ready : c.ready[j] # <<"read", FALSE>>
        <5> SUFFICES ASSUME NEW j \in DOMAIN s PROVE s[j] # <<"read", FALSE>>
          BY <1>5
        <5>1. j + 1 \in DOMAIN ws.ready /\ s[j] = ws.ready[j + 1] /\ i < j + 1
          <6>1. j \in 1 .. Len(s)
            BY <1>2, LenProperties
          <6> QED BY <1>3, <3>2, <6>1
        <5> QED BY <3>1, <5>1
      <4> QED BY <1>3, <3>1, <3>2, <4>1
    <3>3. CASE i # 1
      <4>1. i - 1 \in DOMAIN s /\ s[i - 1] = <<"handshake", TRUE>> /\ i \in Nat
        BY <1>3, <3>1, <3>3
      <4>2. \A j \in DOMAIN s : i - 1 < j => s[j] # <<"read", FALSE>>
        <5> SUFFICES ASSUME NEW j \in DOMAIN s, i - 1 < j PROVE s[j] # <<"read", FALSE>>
          OBVIOUS
        <5>1. j \in Nat /\ j + 1 \in DOMAIN ws.ready /\ s[j] = ws.ready[j + 1]
          BY <1>3
        <5>2. i < j + 1
          BY <4>1, <5>1
        <5> QED BY <3>1, <5>1, <5>2
      <4> QED BY <1>5, <4>1, <4>2 DEF Heard
    <3> QED BY <3>2, <3>3
  <2> QED BY <2>1, <2>2, <2>3, <1>11 DEF IInv, Heard
<1>12. ws.status # "open" => Heard(c)
  BY <1>5 DEF Heard
<1>13. op \notin Signals /\ lookups = 0 => Returning(c)
  <2> SUFFICES ASSUME op \notin Signals, lookups = 0, AutoReconnect(c), ~c.stopping
      PROVE  Returning(c)
    BY DEF Returning
  <2>1. Returning(ws) /\ AutoReconnect(ws) /\ ~ws.stopping
    BY <1>5 DEF IInv, AutoReconnect
  <2>2. CASE ws.reconnect_wait \/ ws.resolving > 0
    BY <1>5, <2>2 DEF Returning
  <2>3. CASE \E x \in {"connect", "ssl", "handshake", "read"} : x \in ws.pending
    BY <1>5, <2>3 DEF Returning
  <2>4. CASE \E x \in Signals : WaitsAny(ws, x)
    BY <1>7, <2>4 DEF Returning
  <2> QED BY <2>1, <2>2, <2>3, <2>4 DEF Returning
<1>14. op = "resolve" /\ ok = FALSE => lookups > 0
  BY <1>3 DEF IInv, Waits
<1> QED BY <1>4, <1>5, <1>8, <1>9, <1>10, <1>11, <1>12, <1>13, <1>14

\* The start of the next operation, and the end of the handler.
LEMMA StartsNext ==
  ASSUME NEW c \in Client, NEW op \in (StreamOps \ {"close"}) \cup {"shutdown"}, NEW d,
         d = LeaveCallback(Async(c, op))
  PROVE  /\ Adds(c, d)
         /\ op \in d.pending \/ WaitsAny(d, op)
         /\ c.status = "open" /\ op = "read" => op \in d.pending
<1>1. PICK b \in Client : b = Async(c, op) /\ Adds(c, b)
  BY AsyncAdds DEF Adds
<1>2. op \in b.pending \/ WaitsAny(b, op)
  BY <1>1, AsyncAdds DEF StreamOps
<1>3. c.status = "open" /\ op = "read" => op \in b.pending
  BY <1>1, AsyncAdds DEF StreamOps
<1>4. d = LeaveCallback(b) /\ Adds(b, d)
  BY <1>1, LeaveCallbackAdds
<1>5. Adds(c, d)
  BY <1>1, <1>4, AddsMore
<1>6. (op \in b.pending => op \in d.pending) /\ (WaitsAny(b, op) => WaitsAny(d, op))
  BY <1>4 DEF Adds, WaitsAny
<1> QED BY <1>2, <1>3, <1>5, <1>6

\* A handler that reports an error and leaves.
LEMMA LeavesOnError ==
  ASSUME NEW c \in Client
  PROVE  Adds(c, LeaveCallback(OnError(c)))
<1>1. PICK b \in Client : b = OnError(c) /\ Adds(c, b)
  BY OnErrorAdds DEF Adds
<1>2. Adds(b, LeaveCallback(b))
  BY LeaveCallbackAdds
<1> QED BY <1>1, <1>2, AddsMore

\* A handler that replaces no stream, as far as it can disturb the invariant.
LEMMA HandlerKeeps ==
  ASSUME IInv, NEW op \in Handlers, NEW ok \in BOOLEAN, ws.ready # <<>>, Head(ws.ready) = <<op, ok>>,
         NEW d, Adds(Taken, d),
         op = "read" => Answered(d),
         <<op, ok>> \in {<<"read", TRUE>>, <<"handshake", TRUE>>} => Heard(d),
         op \in Signals /\ lookups = 0 => Returning(d)
  PROVE  Keeps(d)
<1>1. Taken \in Client
  BY TakenIs
<1>2. Answered(d)
  BY <1>1, TakenIs, AddsKeep
<1>3. Heard(d)
  BY <1>1, TakenIs, AddsKeep
<1>4. Owned(d)
  BY <1>1, TakenIs, AddsKeep
<1>5. Waits(d, "resolve", FALSE) => lookups > 0
  BY <1>1, TakenIs, AddsKeep
<1>6. lookups = 0 => Returning(d)
  BY <1>1, TakenIs, AddsKeep
<1>7. d \in Client /\ d.resolving = ws.resolving
  BY TakenIs DEF Adds
<1>8. d.resolving <= ws.resolving
  BY <1>7 DEF IInv, Client
<1> QED BY <1>2, <1>3, <1>4, <1>5, <1>6, <1>7, <1>8 DEF Keeps

\* A handler that reports an error and reconnects.
LEMMA FailureKeeps ==
  ASSUME IInv, NEW op \in Handlers, ws.ready # <<>>, Head(ws.ready) = <<op, FALSE>>,
         NEW c \in Client, Adds(Taken, c), op = "read" => ~c.m_reading
  PROVE  Keeps(Failed(c))
<1>1. PICK d \in Client : d = Failed(c) /\ Adds(c, d) /\ (AutoReconnect(c) /\ ~c.stopping => d.reconnect_wait)
  BY FailedAdds DEF Adds
<1>2. Adds(Taken, d)
  <2>1. Taken \in Client
    BY TakenIs
  <2> QED BY <1>1, <2>1, AddsMore
<1>3. op = "read" => Answered(d)
  <2>1. ~c.m_reading => Answered(c)
    BY DEF Answered
  <2> QED BY <1>1, <2>1, AddsKeep
<1>4. Returning(d)
  <2> SUFFICES ASSUME AutoReconnect(d), ~d.stopping PROVE d.reconnect_wait
    BY DEF Returning
  <2> QED BY <1>1 DEF Adds, AutoReconnect
<1>5. <<op, FALSE>> \notin {<<"read", TRUE>>, <<"handshake", TRUE>>}
  OBVIOUS
<1>6. Keeps(d)
  BY <1>2, <1>3, <1>4, <1>5, HandlerKeeps
<1> QED BY <1>1, <1>6

\* A handler of a phase of connecting that begins the next.
LEMMA PhaseKeeps ==
  ASSUME IInv, NEW op \in Handlers \ {"read", "handshake"}, ws.ready # <<>>,
         Head(ws.ready) = <<op, TRUE>>, NEW next \in {"connect", "ssl", "handshake"}
  PROVE  Keeps(LeaveCallback(Async(Taken, next)))
<1>1. Taken \in Client
  BY TakenIs
<1>2. PICK d : d = LeaveCallback(Async(Taken, next))
  OBVIOUS
<1>3. Adds(Taken, d) /\ (next \in d.pending \/ WaitsAny(d, next))
  BY <1>1, <1>2, StartsNext DEF StreamOps
<1>4. Returning(d)
  BY <1>3 DEF Returning, Signals
<1>5. <<op, TRUE>> \notin {<<"read", TRUE>>, <<"handshake", TRUE>>}
  OBVIOUS
<1>6. Keeps(d)
  BY <1>3, <1>4, <1>5, HandlerKeeps
<1> QED BY <1>2, <1>6

\* One lemma per handler.
LEMMA OnResolveKeeps == ASSUME IInv, OnResolve PROVE Keeps(ws') /\ UNCHANGED <<faults, lookups>>
<1>1. CASE Run("resolve", TRUE, LAMBDA c : LeaveCallback(Async(c, "connect")))
  <2>1. /\ ws.ready # <<>> /\ Head(ws.ready) = <<"resolve", TRUE>>
        /\ ws' = LeaveCallback(Async(Taken, "connect")) /\ UNCHANGED <<faults, lookups>>
    BY <1>1 DEF Run, Taken
  <2> QED BY <2>1, PhaseKeeps DEF Handlers
<1>2. CASE Run("resolve", FALSE, LAMBDA c : LeaveCallback(OnError(c)))
  <2>1. /\ ws.ready # <<>> /\ Head(ws.ready) = <<"resolve", FALSE>>
        /\ ws' = LeaveCallback(OnError(Taken)) /\ UNCHANGED <<faults, lookups>>
    BY <1>2 DEF Run, Taken
  <2>2. Taken \in Client /\ lookups > 0 /\ "resolve" \in Handlers
    BY <2>1, TakenIs DEF Handlers
  <2>3. Adds(Taken, ws')
    BY <2>1, <2>2, LeavesOnError
  <2>4. <<"resolve", FALSE>> \notin {<<"read", TRUE>>, <<"handshake", TRUE>>}
    OBVIOUS
  <2>5. PICK d : d = ws'
    OBVIOUS
  <2>6. lookups # 0 /\ "resolve" # "read"
    BY <2>2
  <2>7. Keeps(d)
    BY <2>1, <2>2, <2>3, <2>4, <2>5, <2>6, HandlerKeeps
  <2> QED BY <2>1, <2>5, <2>7
<1> QED BY <1>1, <1>2 DEF OnResolve

\* on_connect goes on with TLS, or schedules a reconnect.
LEMMA OnConnectKeeps == ASSUME IInv, OnConnect PROVE Keeps(ws') /\ UNCHANGED <<faults, lookups>>
<1>1. CASE Run("connect", TRUE, LAMBDA c : LeaveCallback(Async(c, "ssl")))
  <2>1. /\ ws.ready # <<>> /\ Head(ws.ready) = <<"connect", TRUE>>
        /\ ws' = LeaveCallback(Async(Taken, "ssl")) /\ UNCHANGED <<faults, lookups>>
    BY <1>1 DEF Run, Taken
  <2> QED BY <2>1, PhaseKeeps DEF Handlers, StreamOps
<1>2. CASE Run("connect", FALSE, Failed)
  <2>1. /\ ws.ready # <<>> /\ Head(ws.ready) = <<"connect", FALSE>>
        /\ ws' = Failed(Taken) /\ UNCHANGED <<faults, lookups>>
    BY <1>2 DEF Run, Taken
  <2>2. "connect" \in Handlers
    BY DEF Handlers, StreamOps
  <2>3. Taken \in Client /\ Adds(Taken, Taken)
    BY <2>1, <2>2, TakenIs, AddsSame
  <2> QED BY <2>1, <2>2, <2>3, FailureKeeps
<1> QED BY <1>1, <1>2 DEF OnConnect

\* on_ssl_handshake goes on with the handshake, or schedules a reconnect.
LEMMA OnSslHandshakeKeeps ==
  ASSUME IInv, OnSslHandshake PROVE Keeps(ws') /\ UNCHANGED <<faults, lookups>>
<1>1. CASE Run("ssl", TRUE, LAMBDA c : LeaveCallback(Async(c, "handshake")))
  <2>1. /\ ws.ready # <<>> /\ Head(ws.ready) = <<"ssl", TRUE>>
        /\ ws' = LeaveCallback(Async(Taken, "handshake")) /\ UNCHANGED <<faults, lookups>>
    BY <1>1 DEF Run, Taken
  <2> QED BY <2>1, PhaseKeeps DEF Handlers, StreamOps
<1>2. CASE Run("ssl", FALSE, Failed)
  <2>1. /\ ws.ready # <<>> /\ Head(ws.ready) = <<"ssl", FALSE>>
        /\ ws' = Failed(Taken) /\ UNCHANGED <<faults, lookups>>
    BY <1>2 DEF Run, Taken
  <2>2. "ssl" \in Handlers
    BY DEF Handlers, StreamOps
  <2>3. Taken \in Client /\ Adds(Taken, Taken)
    BY <2>1, <2>2, TakenIs, AddsSame
  <2> QED BY <2>1, <2>2, <2>3, FailureKeeps
<1> QED BY <1>1, <1>2 DEF OnSslHandshake

\* A read begins, or one is under way since an earlier stream; either way the
\* open stream is read.
LEMMA OnHandshakeKeeps ==
  ASSUME IInv, OnHandshake PROVE Keeps(ws') /\ UNCHANGED <<faults, lookups>>
<1>0. "handshake" \in Handlers
  BY DEF Handlers, StreamOps
<1>1. CASE Run("handshake", TRUE, LAMBDA c : LeaveCallback(Receive(StartPingPong(c))))
  <2>1. /\ ws.ready # <<>> /\ Head(ws.ready) = <<"handshake", TRUE>>
        /\ ws' = LeaveCallback(Receive(StartPingPong(Taken))) /\ UNCHANGED <<faults, lookups>>
    BY <1>1 DEF Run, Taken
  <2>2. /\ Taken \in Client /\ Answered(Taken)
        /\ Heard(Taken) \/ \A j \in DOMAIN Taken.ready : Taken.ready[j] # <<"read", FALSE>>
    BY <1>0, <2>1, TakenIs
  <2>3. PICK a \in Client : a = StartPingPong(Taken) /\ Adds(Taken, a)
    BY <2>2, StartPingPongAdds DEF Adds
  <2>4. PICK b \in Client : b = Receive(a) /\ Adds(a, b)
    BY ReceiveAdds DEF Adds
  <2>5. Adds(b, ws') /\ ws' = LeaveCallback(b)
    BY <2>1, <2>3, <2>4, LeaveCallbackAdds
  <2>6. Adds(Taken, b)
    BY <2>2, <2>3, <2>4, AddsMore
  <2>7. Adds(Taken, ws')
    BY <2>2, <2>5, <2>6, AddsMore
  <2>8. Listening(b)
    <3>1. CASE a.m_reading
      <4>1. Answered(a) /\ b = a
        BY <2>2, <2>3, <2>4, <3>1, AddsKeep, ReceiveAdds
      <4> QED BY <3>1, <4>1 DEF Answered
    <3>2. CASE ~a.m_reading
      BY <2>4, <3>2, ReceiveAdds
    <3> QED BY <3>1, <3>2
  <2>9. Returning(b)
    BY <2>8 DEF Listening, Returning, Signals
  <2>10. Heard(b)
    <3>1. CASE Heard(Taken)
      BY <2>2, <2>6, <3>1, AddsKeep
    <3>2. CASE \A j \in DOMAIN Taken.ready : Taken.ready[j] # <<"read", FALSE>>
      <4> SUFFICES ASSUME b.status = "open", "read" \notin b.pending PROVE Waits(b, "read", TRUE)
        BY DEF Heard
      <4>1. PICK i \in DOMAIN b.ready : b.ready[i][1] = "read"
        BY <2>8 DEF Listening, WaitsAny
      <4>2. b.ready[i] # <<"read", FALSE>>
        BY <2>6, <3>2 DEF Adds
      <4>3. b.ready[i] \in Entry
        <5>1. b.ready \in Seq(Entry)
          BY DEF Client
        <5> QED BY <5>1
      <4>4. PICK h \in Handlers, k \in BOOLEAN : b.ready[i] = <<h, k>>
        BY <4>3 DEF Entry
      <4>5. h = "read"
        BY <4>1, <4>4
      <4>6. CASE k = TRUE
        BY <4>4, <4>5, <4>6 DEF Waits
      <4>7. CASE k = FALSE
        BY <4>2, <4>4, <4>5, <4>7
      <4> QED BY <4>6, <4>7
    <3> QED BY <2>2, <3>1, <3>2
  <2>11. Heard(ws') /\ Returning(ws')
    BY <2>5, <2>9, <2>10, AddsKeep
  <2> QED BY <1>0, <2>1, <2>7, <2>11, HandlerKeeps
<1>2. CASE Run("handshake", FALSE, Failed)
  <2>1. /\ ws.ready # <<>> /\ Head(ws.ready) = <<"handshake", FALSE>>
        /\ ws' = Failed(Taken) /\ UNCHANGED <<faults, lookups>>
    BY <1>2 DEF Run, Taken
  <2>2. Taken \in Client /\ Adds(Taken, Taken)
    BY <1>0, <2>1, TakenIs, AddsSame
  <2> QED BY <1>0, <2>1, <2>2, FailureKeeps
<1> QED BY <1>1, <1>2 DEF OnHandshake

\* A handler that is no signal: nothing depends on it.
LEMMA OtherKeeps ==
  ASSUME IInv, NEW op \in Handlers \ Signals, NEW ok \in BOOLEAN, ws.ready # <<>>,
         Head(ws.ready) = <<op, ok>>, NEW d, Adds(Taken, d)
  PROVE  Keeps(d)
<1>1. op # "read" /\ op # "handshake"
  BY DEF Signals
<1>2. <<op, ok>> \notin {<<"read", TRUE>>, <<"handshake", TRUE>>}
  BY <1>1
<1> QED BY <1>1, <1>2, HandlerKeeps

\* on_write has no say in who reads.
LEMMA OnWriteKeeps == ASSUME IInv, OnWrite PROVE Keeps(ws') /\ UNCHANGED <<faults, lookups>>
<1>0. "write" \in Handlers \ Signals /\ "write" \in StreamOps \ {"close"}
  BY DEF Handlers, StreamOps, Signals
<1>1. CASE Run("write", TRUE, LAMBDA c :
             LET d == [c EXCEPT !.unsent = (@ - 1) % Wrap] IN
             LeaveCallback(IF d.unsent # 0 THEN Async(d, "write")
                           ELSE [d EXCEPT !.m_writing = FALSE]))
  <2> DEFINE next(d) == IF d.unsent # 0 THEN Async(d, "write") ELSE [d EXCEPT !.m_writing = FALSE]
  <2>1. /\ ws.ready # <<>> /\ Head(ws.ready) = <<"write", TRUE>>
        /\ ws' = LeaveCallback(next([Taken EXCEPT !.unsent = (@ - 1) % Wrap])) /\ UNCHANGED <<faults, lookups>>
    BY <1>1 DEF Run, Taken
  <2>2. Taken \in Client
    BY <1>0, <2>1, TakenIs
  <2>3. PICK u \in 0 .. Wrap - 1 : u = (Taken.unsent - 1) % Wrap
    BY <2>2, CountedModulo
  <2>4. PICK d \in Client : d = [Taken EXCEPT !.unsent = u]
    BY <2>2 DEF Client
  <2>5. Adds(Taken, d)
    BY <2>2, <2>4, FieldsAdd DEF Client
  <2>6. PICK e \in Client : e = next(d) /\ Adds(d, e)
    <3>1. CASE d.unsent # 0
      BY <1>0, <3>1, AsyncAdds DEF Adds
    <3>2. CASE d.unsent = 0
      <4>1. PICK e \in Client : e = [d EXCEPT !.m_writing = FALSE]
        BY DEF Client
      <4>2. Adds(d, e)
        BY <4>1, FieldsAdd DEF Client
      <4> QED BY <3>2, <4>1, <4>2
    <3> QED BY <3>1, <3>2
  <2>7. [Taken EXCEPT !.unsent = (@ - 1) % Wrap] = d
    BY <2>3, <2>4
  <2>8. ws' = LeaveCallback(e)
    BY <2>1, <2>6, <2>7
  <2>9. Adds(Taken, e) /\ Adds(e, ws')
    BY <2>2, <2>5, <2>6, <2>8, AddsMore, LeaveCallbackAdds
  <2>10. Adds(Taken, ws')
    BY <2>2, <2>9, AddsMore
  <2> QED BY <1>0, <2>1, <2>10, OtherKeeps
<1>2. CASE Run("write", FALSE, LAMBDA c : Failed([c EXCEPT !.m_writing = FALSE]))
  <2>1. /\ ws.ready # <<>> /\ Head(ws.ready) = <<"write", FALSE>>
        /\ ws' = Failed([Taken EXCEPT !.m_writing = FALSE]) /\ UNCHANGED <<faults, lookups>>
    BY <1>2 DEF Run, Taken
  <2>2. Taken \in Client
    BY <1>0, <2>1, TakenIs
  <2>3. PICK d \in Client : d = [Taken EXCEPT !.m_writing = FALSE]
    BY <2>2 DEF Client
  <2>4. Adds(Taken, d)
    BY <2>2, <2>3, FieldsAdd DEF Client
  <2> QED BY <1>0, <2>1, <2>3, <2>4, FailureKeeps
<1> QED BY <1>1, <1>2 DEF OnWrite

\* on_read reads on; a failed read ends the reading and schedules a reconnect.
LEMMA OnReadKeeps == ASSUME IInv, OnRead PROVE Keeps(ws') /\ UNCHANGED <<faults, lookups>>
<1>0. "read" \in Handlers /\ "read" \in StreamOps \ {"close"}
  BY DEF Handlers, StreamOps
<1>1. CASE Run("read", TRUE, LAMBDA c : LeaveCallback(Async(c, "read")))
  <2>1. /\ ws.ready # <<>> /\ Head(ws.ready) = <<"read", TRUE>>
        /\ ws' = LeaveCallback(Async(Taken, "read")) /\ UNCHANGED <<faults, lookups>>
    BY <1>1 DEF Run, Taken
  <2>2. Taken \in Client
    BY <1>0, <2>1, TakenIs
  <2>3. PICK d : d = ws'
    OBVIOUS
  <2>4. /\ Adds(Taken, d)
        /\ "read" \in d.pending \/ WaitsAny(d, "read")
        /\ Taken.status = "open" => "read" \in d.pending
    BY <1>0, <2>1, <2>2, <2>3, StartsNext
  <2>5. Answered(d)
    BY <2>4 DEF Answered, Listening
  <2>6. Returning(d)
    BY <2>4 DEF Returning, Signals
  <2>7. Heard(d)
    BY <2>4 DEF Heard, Adds
  <2>8. Keeps(d)
    BY <1>0, <2>1, <2>4, <2>5, <2>6, <2>7, HandlerKeeps
  <2> QED BY <2>1, <2>3, <2>8
<1>2. CASE Run("read", FALSE, LAMBDA c : Failed([c EXCEPT !.m_reading = FALSE]))
  <2>1. /\ ws.ready # <<>> /\ Head(ws.ready) = <<"read", FALSE>>
        /\ ws' = Failed([Taken EXCEPT !.m_reading = FALSE]) /\ UNCHANGED <<faults, lookups>>
    BY <1>2 DEF Run, Taken
  <2>2. Taken \in Client
    BY <1>0, <2>1, TakenIs
  <2>3. PICK d \in Client : d = [Taken EXCEPT !.m_reading = FALSE]
    BY <2>2 DEF Client
  <2>4. Adds(Taken, d) /\ ~d.m_reading
    BY <2>2, <2>3, FieldsAdd DEF Client
  <2> QED BY <1>0, <2>1, <2>3, <2>4, FailureKeeps
<1> QED BY <1>1, <1>2 DEF OnRead

\* on_close shuts TLS down, or reports.
LEMMA OnCloseKeeps == ASSUME IInv, OnClose PROVE Keeps(ws') /\ UNCHANGED <<faults, lookups>>
<1>0. "close" \in Handlers \ Signals
  BY DEF Handlers, StreamOps, Signals
<1>1. CASE Run("close", TRUE, LAMBDA c : LeaveCallback(Async(c, "shutdown")))
  <2>1. /\ ws.ready # <<>> /\ Head(ws.ready) = <<"close", TRUE>>
        /\ ws' = LeaveCallback(Async(Taken, "shutdown")) /\ UNCHANGED <<faults, lookups>>
    BY <1>1 DEF Run, Taken
  <2>2. Taken \in Client
    BY <1>0, <2>1, TakenIs
  <2>3. Adds(Taken, ws')
    BY <2>1, <2>2, StartsNext
  <2> QED BY <1>0, <2>1, <2>3, OtherKeeps
<1>2. CASE Run("close", FALSE, Failed)
  <2>1. /\ ws.ready # <<>> /\ Head(ws.ready) = <<"close", FALSE>>
        /\ ws' = Failed(Taken) /\ UNCHANGED <<faults, lookups>>
    BY <1>2 DEF Run, Taken
  <2>2. Taken \in Client /\ Adds(Taken, Taken)
    BY <1>0, <2>1, TakenIs, AddsSame
  <2> QED BY <1>0, <2>1, <2>2, FailureKeeps
<1> QED BY <1>1, <1>2 DEF OnClose

\* on_ssl_shutdown only reports.
LEMMA OnSslShutdownKeeps ==
  ASSUME IInv, OnSslShutdown PROVE Keeps(ws') /\ UNCHANGED <<faults, lookups>>
<1>0. "shutdown" \in Handlers \ Signals
  BY DEF Handlers, StreamOps, Signals
<1>1. /\ ws.ready # <<>> /\ Head(ws.ready) = <<"shutdown", FALSE>>
      /\ ws' = LeaveCallback(OnError(Taken)) /\ UNCHANGED <<faults, lookups>>
  BY DEF OnSslShutdown, Run, Taken
<1>2. Taken \in Client
  BY <1>0, <1>1, TakenIs
<1>3. Adds(Taken, ws')
  BY <1>1, <1>2, LeavesOnError
<1> QED BY <1>0, <1>1, <1>3, OtherKeeps

\* The ping timer sends, or reports that it was cancelled.
LEMMA PingTimerKeeps == ASSUME IInv, PingTimer PROVE Keeps(ws') /\ UNCHANGED <<faults, lookups>>
<1>0. "ping" \in Handlers \ Signals
  BY DEF Handlers, StreamOps, Signals
<1>1. CASE Run("ping", TRUE, LAMBDA c : StartPingPong(Send(c)))
  <2>1. /\ ws.ready # <<>> /\ Head(ws.ready) = <<"ping", TRUE>>
        /\ ws' = StartPingPong(Send(Taken)) /\ UNCHANGED <<faults, lookups>>
    BY <1>1 DEF Run, Taken
  <2>2. Taken \in Client
    BY <1>0, <2>1, TakenIs
  <2>3. PICK b \in Client : b = Send(Taken) /\ Adds(Taken, b)
    BY <2>2, SendAdds DEF Adds
  <2>4. Adds(b, ws')
    BY <2>1, <2>3, StartPingPongAdds
  <2>5. Adds(Taken, ws')
    BY <2>2, <2>3, <2>4, AddsMore
  <2> QED BY <1>0, <2>1, <2>5, OtherKeeps
<1>2. CASE Run("ping", FALSE, OnError)
  <2>1. /\ ws.ready # <<>> /\ Head(ws.ready) = <<"ping", FALSE>>
        /\ ws' = OnError(Taken) /\ UNCHANGED <<faults, lookups>>
    BY <1>2 DEF Run, Taken
  <2>2. Taken \in Client
    BY <1>0, <2>1, TakenIs
  <2>3. Adds(Taken, ws')
    BY <2>1, <2>2, OnErrorAdds
  <2> QED BY <1>0, <2>1, <2>3, OtherKeeps
<1> QED BY <1>1, <1>2 DEF PingTimer

\* The reconnect timer does nothing after close(), which is why no lookup begins.
LEMMA ReconnectTimerKeeps ==
  ASSUME IInv, ReconnectTimer PROVE Keeps(ws') /\ UNCHANGED <<faults, lookups>>
<1>0. "reconnect" \in Handlers /\ "reconnect" # "read"
  BY DEF Handlers
<1>1. /\ ws.ready # <<>> /\ Head(ws.ready) = <<"reconnect", TRUE>>
      /\ ws' = TryReconnect(Taken) /\ UNCHANGED <<faults, lookups>>
  BY DEF ReconnectTimer, Run, Taken
<1>2. /\ Taken \in Client /\ Owned(Taken) /\ Taken.stopping = ws.stopping /\ Taken.owner = ws.owner
      /\ Waits(Taken, "resolve", FALSE) => lookups > 0
  BY <1>0, <1>1, TakenIs
<1>3. CASE Taken.stopping
  <2>1. ws' = Taken
    BY <1>1, <1>3 DEF TryReconnect
  <2>2. Returning(Taken)
    BY <1>3 DEF Returning
  <2>3. <<"reconnect", TRUE>> \notin {<<"read", TRUE>>, <<"handshake", TRUE>>}
    OBVIOUS
  <2>4. Adds(Taken, Taken)
    BY <1>2, AddsSame
  <2>5. Keeps(Taken)
    BY <1>0, <1>1, <2>2, <2>3, <2>4, HandlerKeeps
  <2> QED BY <1>1, <2>1, <2>5
<1>4. CASE ~Taken.stopping
  <2>1. PICK b \in Client : Adds(Taken, b) /\ TryReconnect(Taken) = ResolveReconnect(b)
    BY <1>2, <1>4, TryReconnectRenews
  <2>2. PICK d : d = ws'
    OBVIOUS
  <2>3. Renews(b, d)
    BY <1>1, <2>1, <2>2, ResolveReconnectRenews
  <2>4. Owned(b) /\ (Waits(b, "resolve", FALSE) => lookups > 0)
    BY <1>2, <2>1, AddsKeep
  <2>5. b.owner = ws.owner /\ ~ws.stopping
    BY <1>2, <1>4, <2>1 DEF Adds
  <2>6. Keeps(d)
    BY <2>3, <2>4, <2>5, RenewsKeep
  <2> QED BY <1>1, <2>2, <2>6
<1> QED BY <1>3, <1>4

\* Only the trade owner has such a timer, and it never asks who has been closed.
LEMMA TradeTimerKeeps ==
  ASSUME IInv, TradeTimer PROVE Keeps(ws') /\ UNCHANGED <<faults, lookups>>
<1>0. "trade" \in Handlers
  BY DEF Handlers
<1>1. /\ ws.ready # <<>> /\ Head(ws.ready) = <<"trade", TRUE>>
      /\ ws' = ResolveReconnect(Taken) /\ UNCHANGED <<faults, lookups>>
  BY DEF TradeTimer, Run, Taken
<1>2. /\ Taken \in Client /\ Owned(Taken) /\ Taken.owner = ws.owner
      /\ Waits(Taken, "resolve", FALSE) => lookups > 0
  BY <1>0, <1>1, TakenIs
<1>3. ~AutoReconnect(ws)
  <2>1. ws.ready \in Seq(Entry)
    BY DEF IInv, Client
  <2>2. 1 \in DOMAIN ws.ready /\ ws.ready[1] = Head(ws.ready)
    BY <1>1, <2>1, EmptySeq, LenProperties
  <2>3. ws.ready[1][1] = "trade"
    BY <1>1, <2>2
  <2>4. WaitsAny(ws, "trade")
    BY <2>2, <2>3 DEF WaitsAny
  <2> QED BY <2>4 DEF IInv, Owned
<1>4. PICK d : d = ws'
  OBVIOUS
<1>5. Renews(Taken, d)
  BY <1>1, <1>2, <1>4, ResolveReconnectRenews
<1>6. Keeps(d)
  BY <1>2, <1>3, <1>5, RenewsKeep
<1> QED BY <1>1, <1>4, <1>6

-----------------------------------------------------------------------------
(* The network, the clock and the user                                      *)

\* Pairs are equal component by component.
LEMMA SecondIs == ASSUME NEW op, NEW ok, NEW x, NEW f, <<op, ok>> = <<x, f>> PROVE ok = f
OBVIOUS

\* The same for a failure.
LEMMA PairIs ==
  ASSUME NEW op, NEW ok \in BOOLEAN, NEW x, NEW e, e = <<op, ok>>, e = <<x, FALSE>>
  PROVE  op = x /\ ~ok
<1>1. e[1] = op /\ e[1] = x
  OBVIOUS
<1>2. ok = FALSE
  BY SecondIs
<1> QED BY <1>1, <1>2

\* This handler is the last in the queue.
ComesLast(c, op, ok) ==
  \E i \in DOMAIN c.ready : c.ready[i] = <<op, ok>> /\ \A j \in DOMAIN c.ready : ~(i < j)

\* What Post leaves alone, and where the handler comes in the queue.
LEMMA PostedIs ==
  ASSUME NEW c \in Client, NEW op \in Handlers, NEW ok \in BOOLEAN, NEW d, d = Post(c, op, ok)
  PROVE  /\ d \in Client
         /\ d.owner = c.owner /\ d.stopping = c.stopping /\ d.status = c.status
         /\ d.resolving = c.resolving /\ d.m_reading = c.m_reading /\ d.pending = c.pending
         /\ d.timers = c.timers /\ d.reconnect_wait = c.reconnect_wait
         /\ \A i \in DOMAIN c.ready : i \in DOMAIN d.ready /\ d.ready[i] = c.ready[i]
         /\ \A i \in DOMAIN d.ready : i \in DOMAIN c.ready \/
              (d.ready[i] = <<op, ok>> /\ \A j \in DOMAIN c.ready : j < i)
         /\ op # "close" => ComesLast(d, op, ok)
<1>1. CASE d = c /\ op = "close"
  BY <1>1
<1>2. CASE d = [c EXCEPT !.ready = Append(@, <<op, ok>>)] /\ d \in Client
  <2>1. PICK e \in Entry : e = <<op, ok>>
    BY EntryIs
  <2>2. c.ready \in Seq(Entry)
    BY DEF Client
  <2>3. PICK s \in Seq(Entry) : s = Append(c.ready, e)
    BY <2>2, AppendProperties
  <2>4. d = [c EXCEPT !.ready = s]
    BY <1>2, <2>1, <2>3
  <2>5. /\ d.ready = s
        /\ d.owner = c.owner /\ d.stopping = c.stopping /\ d.status = c.status
        /\ d.resolving = c.resolving /\ d.m_reading = c.m_reading /\ d.pending = c.pending
        /\ d.timers = c.timers /\ d.reconnect_wait = c.reconnect_wait
    BY <2>4 DEF Client
  <2>6. /\ \A i \in DOMAIN c.ready : i \in DOMAIN s /\ s[i] = c.ready[i]
        /\ \A i \in DOMAIN s : i \in DOMAIN c.ready \/ (s[i] = e /\ \A j \in DOMAIN c.ready : j < i)
    BY <2>2, <2>3, QueueGrows
  <2>7. \E i \in DOMAIN s : s[i] = e /\ \A j \in DOMAIN s : ~(i < j)
    <3>1. Len(s) = Len(c.ready) + 1 /\ s[Len(c.ready) + 1] = e
      BY <2>2, <2>3, AppendProperties
    <3>2. Len(s) \in Nat /\ DOMAIN s = 1 .. Len(s) /\ Len(c.ready) \in Nat
      BY <2>2, LenProperties
    <3>3. Len(s) \in DOMAIN s /\ s[Len(s)] = e /\ \A j \in DOMAIN s : ~(Len(s) < j)
      BY <3>1, <3>2
    <3> QED BY <3>3
  <2> QED BY <1>2, <2>1, <2>5, <2>6, <2>7 DEF ComesLast
<1> QED BY <1>1, <1>2, PostIs

\* The stream opens only with its handshake, and a read fails only when it is not open.
MayOpen(b, op, ok) ==
  b.status = "open" =>
    \/ ws.status = "open" /\ (op = "read" => ok = TRUE)
    \/ op = "handshake" /\ ok = TRUE

\* b is the client without what has just ended.
Ends(b, op) ==
  /\ b.ready = ws.ready /\ b.owner = ws.owner /\ b.stopping = ws.stopping
  /\ b.m_reading = ws.m_reading
  /\ \A x \in ws.pending : x \in b.pending \/ (x = op /\ op # "close") \/ x = "close"
  /\ ws.reconnect_wait => b.reconnect_wait \/ op = "reconnect"
  /\ ws.resolving > 0 => b.resolving > 0 \/ op = "resolve"
  /\ AutoReconnect(ws) => b.timers = 0 /\ op # "trade"

\* The invariant, with lookups as they were.
Kept(d, op, ok) ==
  /\ d \in Client /\ Answered(d) /\ Heard(d) /\ Owned(d)
  /\ Waits(d, "resolve", FALSE) => lookups > 0 \/ (op = "resolve" /\ ok = FALSE)
  /\ lookups = 0 => Returning(d)

\* What happens outside the client: an operation ends, a lookup or a wait, and
\* its handler becomes ready.
LEMMA EventKeeps ==
  ASSUME IInv, NEW b \in Client, NEW op \in Handlers, NEW ok \in BOOLEAN, NEW d, d = Post(b, op, ok),
         Ends(b, op), MayOpen(b, op, ok)
  PROVE  Kept(d, op, ok) /\ d.resolving = b.resolving
<1>0. /\ b.ready = ws.ready /\ b.owner = ws.owner /\ b.stopping = ws.stopping
      /\ b.m_reading = ws.m_reading
      /\ \A x \in ws.pending : x \in b.pending \/ (x = op /\ op # "close") \/ x = "close"
      /\ ws.reconnect_wait => b.reconnect_wait \/ op = "reconnect"
      /\ ws.resolving > 0 => b.resolving > 0 \/ op = "resolve"
      /\ AutoReconnect(ws) => b.timers = 0 /\ op # "trade"
  BY DEF Ends
<1>1. /\ d \in Client
      /\ d.owner = b.owner /\ d.stopping = b.stopping /\ d.status = b.status
      /\ d.resolving = b.resolving /\ d.m_reading = b.m_reading /\ d.pending = b.pending
      /\ d.timers = b.timers /\ d.reconnect_wait = b.reconnect_wait
  BY PostedIs
<1>2. \A i \in DOMAIN ws.ready : i \in DOMAIN d.ready /\ d.ready[i] = ws.ready[i]
  BY <1>0, PostedIs
<1>3. \A i \in DOMAIN d.ready : i \in DOMAIN ws.ready \/
        (d.ready[i] = <<op, ok>> /\ \A j \in DOMAIN ws.ready : j < i)
  BY <1>0, PostedIs
<1>4. op # "close" => ComesLast(d, op, ok)
  BY PostedIs
<1>5. \A x : WaitsAny(ws, x) => WaitsAny(d, x)
  BY <1>2 DEF WaitsAny
<1>6. op # "close" => WaitsAny(d, op) /\ Waits(d, op, ok)
  <2> SUFFICES ASSUME op # "close" PROVE WaitsAny(d, op) /\ Waits(d, op, ok)
    OBVIOUS
  <2>1. PICK i \in DOMAIN d.ready : d.ready[i] = <<op, ok>>
    BY <1>4 DEF ComesLast
  <2>2. d.ready[i][1] = op
    BY <2>1
  <2> QED BY <2>1, <2>2 DEF WaitsAny, Waits
<1>7. \A x \in ws.pending : x = "close" \/ x \in d.pending \/ (x = op /\ WaitsAny(d, x) /\ Waits(d, x, ok))
  BY <1>0, <1>1, <1>6
<1>8. Answered(d)
  <2> SUFFICES ASSUME d.m_reading PROVE Listening(d)
    BY DEF Answered
  <2>1. Listening(ws)
    BY <1>0, <1>1 DEF IInv, Answered
  <2>2. CASE "read" \in ws.pending
    BY <1>7, <2>2 DEF Listening
  <2>3. CASE WaitsAny(ws, "read")
    BY <1>5, <2>3 DEF Listening
  <2> QED BY <2>1, <2>2, <2>3 DEF Listening
<1>9. Heard(d)
  <2> SUFFICES ASSUME d.status = "open" PROVE Heard(d)
    BY DEF Heard
  <2>1. CASE op = "handshake" /\ ok = TRUE
    <3>1. PICK i \in DOMAIN d.ready : d.ready[i] = <<"handshake", TRUE>> /\ \A j \in DOMAIN d.ready : ~(i < j)
      BY <1>4, <2>1 DEF ComesLast
    <3> QED BY <3>1 DEF Heard
  <2>2. CASE ws.status = "open" /\ (op = "read" => ok = TRUE)
    <3>1. CASE "read" \in ws.pending
      <4>1. "read" \in d.pending \/ Waits(d, "read", TRUE)
        BY <1>7, <2>2, <3>1
      <4> QED BY <4>1 DEF Heard
    <3>2. CASE Waits(ws, "read", TRUE)
      BY <1>2, <3>2 DEF Heard, Waits
    <3>3. CASE \E i \in DOMAIN ws.ready :
                 /\ ws.ready[i] = <<"handshake", TRUE>>
                 /\ \A j \in DOMAIN ws.ready : i < j => ws.ready[j] # <<"read", FALSE>>
      <4>1. PICK i \in DOMAIN ws.ready :
              /\ ws.ready[i] = <<"handshake", TRUE>>
              /\ \A j \in DOMAIN ws.ready : i < j => ws.ready[j] # <<"read", FALSE>>
        BY <3>3
      <4>2. ASSUME NEW j \in DOMAIN d.ready, i < j PROVE d.ready[j] # <<"read", FALSE>>
        <5>1. CASE j \in DOMAIN ws.ready
          BY <1>2, <4>1, <4>2, <5>1
        <5>2. CASE d.ready[j] = <<op, ok>>
          <6> SUFFICES ASSUME d.ready[j] = <<"read", FALSE>> PROVE FALSE
            OBVIOUS
          <6>1. op = "read" /\ ~ok
            BY <5>2, PairIs
          <6> QED BY <2>2, <6>1
        <5> QED BY <1>3, <5>1, <5>2
      <4>3. i \in DOMAIN d.ready /\ d.ready[i] = <<"handshake", TRUE>>
        BY <1>2, <4>1
      <4> QED BY <4>2, <4>3 DEF Heard
    <3> QED BY <2>2, <3>1, <3>2, <3>3 DEF IInv, Heard
  <2> QED BY <1>1, <2>1, <2>2 DEF MayOpen
<1>10. Owned(d)
  <2> SUFFICES ASSUME AutoReconnect(d) PROVE d.timers = 0 /\ ~WaitsAny(d, "trade")
    BY DEF Owned
  <2>1. AutoReconnect(ws)
    BY <1>0, <1>1 DEF AutoReconnect
  <2>2. ~WaitsAny(ws, "trade")
    BY <2>1 DEF IInv, Owned
  <2>3. op # "trade"
    BY <1>0, <2>1
  <2>4. \A i \in DOMAIN d.ready : d.ready[i][1] # "trade"
    <3> SUFFICES ASSUME NEW i \in DOMAIN d.ready PROVE d.ready[i][1] # "trade"
      OBVIOUS
    <3>1. CASE i \in DOMAIN ws.ready
      BY <1>2, <2>2, <3>1 DEF WaitsAny
    <3>2. CASE d.ready[i] = <<op, ok>>
      BY <2>3, <3>2
    <3> QED BY <1>3, <3>1, <3>2
  <2> QED BY <1>0, <1>1, <2>1, <2>4 DEF WaitsAny
<1>11. Waits(d, "resolve", FALSE) => lookups > 0 \/ (op = "resolve" /\ ok = FALSE)
  <2> SUFFICES ASSUME NEW i \in DOMAIN d.ready, d.ready[i] = <<"resolve", FALSE>>
      PROVE  lookups > 0 \/ (op = "resolve" /\ ok = FALSE)
    BY DEF Waits
  <2>1. CASE i \in DOMAIN ws.ready
    BY <1>2, <2>1 DEF IInv, Waits
  <2>2. CASE d.ready[i] = <<op, ok>>
    <3>1. op = "resolve" /\ ~ok
      BY <2>2, PairIs
    <3> QED BY <3>1
  <2> QED BY <1>3, <2>1, <2>2
<1>12. lookups = 0 => Returning(d)
  <2> SUFFICES ASSUME lookups = 0, AutoReconnect(d), ~d.stopping PROVE Returning(d)
    BY DEF Returning
  <2>1. Returning(ws) /\ AutoReconnect(ws) /\ ~ws.stopping
    BY <1>0, <1>1 DEF IInv, AutoReconnect
  <2>2. CASE ws.reconnect_wait
    BY <1>0, <1>1, <1>6, <2>2 DEF Returning, Signals
  <2>3. CASE ws.resolving > 0
    BY <1>0, <1>1, <1>6, <2>3 DEF Returning, Signals
  <2>4. CASE \E x \in {"connect", "ssl", "handshake", "read"} : x \in ws.pending
    <3>1. PICK x \in {"connect", "ssl", "handshake", "read"} : x \in ws.pending
      BY <2>4
    <3>2. x \in d.pending \/ WaitsAny(d, x)
      BY <1>7, <3>1
    <3>3. x \in Signals
      BY DEF Signals
    <3> QED BY <3>2, <3>3 DEF Returning
  <2>5. CASE \E x \in Signals : WaitsAny(ws, x)
    BY <1>5, <2>5 DEF Returning
  <2> QED BY <2>1, <2>2, <2>3, <2>4, <2>5 DEF Returning
<1> QED BY <1>1, <1>8, <1>9, <1>10, <1>11, <1>12 DEF Kept

WithStatus(c, st) == [c EXCEPT !.status = st]
WithLink(c, l) == [c EXCEPT !.link = l]

StatusLater(c, op, ok, st) == WithStatus(Post(c, op, ok), st) = Post(WithStatus(c, st), op, ok)
LinkLater(c, op, ok, l) == WithLink(Post(c, op, ok), l) = Post(WithLink(c, l), op, ok)

\* A handler can be queued before or after the stream's state is changed.
LEMMA StatusCommutes ==
  ASSUME NEW c \in Client, NEW op, NEW ok, NEW st
  PROVE  StatusLater(c, op, ok, st)
<1>0. PICK b : b = WithStatus(c, st)
  OBVIOUS
<1>1. b = [c EXCEPT !.status = st]
  BY <1>0 DEF WithStatus
<1>2. b.ready = c.ready
  BY <1>1 DEF Client
<1>3. Ready(b, op) = Ready(c, op)
  BY <1>2 DEF Ready
<1>4. CASE op = "close" /\ Ready(c, op) >= MaxSpins
  BY <1>0, <1>3, <1>4 DEF Post, StatusLater
<1>5. CASE ~(op = "close" /\ Ready(c, op) >= MaxSpins)
  <2>1. Post(c, op, ok) = [c EXCEPT !.ready = Append(@, <<op, ok>>)]
    BY <1>5 DEF Post
  <2>2. Post(b, op, ok) = [b EXCEPT !.ready = Append(@, <<op, ok>>)]
    BY <1>3, <1>5 DEF Post
  <2>3. [[c EXCEPT !.ready = Append(@, <<op, ok>>)] EXCEPT !.status = st]
          = [b EXCEPT !.ready = Append(@, <<op, ok>>)]
    BY <1>1, <1>2 DEF Client
  <2> QED BY <1>0, <2>1, <2>2, <2>3 DEF WithStatus, StatusLater
<1> QED BY <1>4, <1>5

\* The same for the connection under the stream.
LEMMA LinkCommutes ==
  ASSUME NEW c \in Client, NEW op, op # "close", NEW ok, NEW l
  PROVE  LinkLater(c, op, ok, l)
<1>0. PICK b : b = WithLink(c, l)
  OBVIOUS
<1>1. b = [c EXCEPT !.link = l]
  BY <1>0 DEF WithLink
<1>2. b.ready = c.ready
  BY <1>1 DEF Client
<1>3. [[c EXCEPT !.ready = Append(@, <<op, ok>>)] EXCEPT !.link = l]
        = [b EXCEPT !.ready = Append(@, <<op, ok>>)]
  BY <1>1, <1>2 DEF Client
<1>4. Post(c, op, ok) = [c EXCEPT !.ready = Append(@, <<op, ok>>)] /\ Post(b, op, ok) = [b EXCEPT !.ready = Append(@, <<op, ok>>)]
  BY DEF Post
<1> QED BY <1>0, <1>3, <1>4 DEF WithLink, LinkLater

\* b is the client without one operation of its stream.
Without(b, op) ==
  /\ b \in Client /\ b.pending = ws.pending \ {op}
  /\ b.ready = ws.ready /\ b.owner = ws.owner /\ b.stopping = ws.stopping
  /\ b.m_reading = ws.m_reading /\ b.reconnect_wait = ws.reconnect_wait
  /\ b.resolving = ws.resolving /\ b.timers = ws.timers

\* Taking an operation off the stream leaves the rest alone.
LEMMA WithoutIs ==
  ASSUME IInv, NEW op
  PROVE  \E b \in Client :
           /\ b = [ws EXCEPT !.pending = @ \ {op}]
           /\ Without(b, op) /\ b.status = ws.status
<1>0. ws \in Client
  BY DEF IInv
<1>1. PICK p \in SUBSET StreamOps : p = ws.pending \ {op}
  BY <1>0 DEF Client
<1>2. PICK b \in Client : b = [ws EXCEPT !.pending = p]
  BY <1>0 DEF Client
<1>3. Without(b, op) /\ b.status = ws.status
  BY <1>0, <1>1, <1>2 DEF Without, Client
<1>4. b = [ws EXCEPT !.pending = @ \ {op}]
  BY <1>1, <1>2
<1> QED BY <1>3, <1>4

\* An operation of the stream ends; the stream opens only with its handshake.
LEMMA EndsKeep ==
  ASSUME IInv, NEW op \in StreamOps, NEW ok \in BOOLEAN, NEW b \in Client, Without(b, op),
         NEW d, d = Post(b, op, ok), MayOpen(b, op, ok)
  PROVE  Keeps(d)
<1>1. op # "trade" /\ op # "resolve" /\ op \in Handlers
  BY DEF StreamOps, Handlers
<1>2. AutoReconnect(ws) => b.timers = 0
  BY DEF Without, IInv, Owned
<1>3. Ends(b, op)
  BY <1>1, <1>2 DEF Without, Ends
<1>4. Kept(d, op, ok) /\ d.resolving = b.resolving
  BY <1>1, <1>3, EventKeeps
<1>5. d.resolving <= ws.resolving
  BY <1>4 DEF Kept, Client, Without
<1> QED BY <1>1, <1>4, <1>5 DEF Keeps, Kept

\* An operation ends and the stream stays in its state.
LEMMA DoneKeeps ==
  ASSUME IInv, NEW op \in StreamOps, NEW ok \in BOOLEAN, ws' = Done(ws, op, ok),
         ws.status = "open" => (op = "read" => ok = TRUE)
  PROVE  Keeps(ws')
<1>1. PICK b \in Client : b = [ws EXCEPT !.pending = @ \ {op}] /\ Without(b, op) /\ b.status = ws.status
  BY WithoutIs
<1>2. PICK d : d = ws'
  OBVIOUS
<1>3. d = Post(b, op, ok)
  BY <1>1, <1>2 DEF Done
<1>4. MayOpen(b, op, ok)
  BY <1>1 DEF MayOpen
<1>5. Keeps(d)
  BY <1>1, <1>3, <1>4, EndsKeep
<1> QED BY <1>2, <1>5

\* A phase of connecting ends well.
LEMMA ConnectsKeeps == ASSUME IInv, NEW op \in ConnectOps, Connects(op) PROVE Keeps(ws')
<1>1. op \in StreamOps /\ op # "close" /\ op # "read"
  BY DEF ConnectOps, StreamOps
<1>2. PICK b \in Client : b = [ws EXCEPT !.pending = @ \ {op}] /\ Without(b, op) /\ b.status = ws.status
  BY WithoutIs
<1>0. PICK ok \in BOOLEAN : ok = TRUE
  OBVIOUS
<1>3. PICK x : x = Post(b, op, ok) /\ x = Done(ws, op, TRUE)
  BY <1>0, <1>2 DEF Done
<1>4. PICK d : d = ws'
  OBVIOUS
<1>5. CASE op \in {"connect", "ssl"}
  <2>1. PICK l \in Links : d = WithLink(x, l)
    <3>1. CASE op = "connect"
      BY <1>3, <1>4, <3>1 DEF Connects, Links, WithLink
    <3>2. CASE op = "ssl"
      BY <1>3, <1>4, <3>2 DEF Connects, Links, WithLink
    <3> QED BY <1>5, <3>1, <3>2
  <2>2. PICK e \in Client : e = WithLink(b, l)
    BY DEF Client, WithLink
  <2>3. d = Post(e, op, ok)
    <3>1. LinkLater(b, op, ok, l)
      BY <1>1, LinkCommutes, Zenon
    <3> QED BY <1>3, <2>1, <2>2, <3>1 DEF LinkLater
  <2>4. Without(e, op) /\ e.status = ws.status
    BY <1>2, <2>2 DEF Without, Client, WithLink
  <2>5. MayOpen(e, op, ok)
    BY <1>0, <2>4 DEF MayOpen
  <2>6. Keeps(d)
    BY <1>1, <2>3, <2>4, <2>5, EndsKeep
  <2> QED BY <1>4, <2>6
<1>6. CASE op = "handshake"
  <2>1. PICK st \in Statuses : st = "open"
    BY DEF Statuses
  <2>2. d = WithStatus(x, st)
    BY <1>3, <1>4, <1>6, <2>1 DEF Connects, WithStatus
  <2>3. PICK e \in Client : e = WithStatus(b, st)
    BY DEF Client, WithStatus
  <2>4. d = Post(e, op, ok)
    <3>1. StatusLater(b, op, ok, st)
      BY StatusCommutes, Zenon
    <3> QED BY <1>3, <2>2, <2>3, <3>1 DEF StatusLater
  <2>5. Without(e, op)
    BY <1>2, <2>3 DEF Without, Client, WithStatus
  <2>6. MayOpen(e, op, ok)
    BY <1>0, <1>6 DEF MayOpen
  <2>7. Keeps(d)
    BY <1>1, <2>4, <2>5, <2>6, EndsKeep
  <2> QED BY <1>4, <2>7
<1> QED BY <1>5, <1>6 DEF ConnectOps

\* The closing handshake ends.
LEMMA ClosesKeeps == ASSUME IInv, Closes PROVE Keeps(ws')
<1>1. PICK op \in StreamOps : op = "close"
  BY DEF StreamOps
<1>2. PICK b \in Client : b = [ws EXCEPT !.pending = @ \ {op}] /\ Without(b, op) /\ b.status = ws.status
  BY WithoutIs
<1>3. PICK st \in Statuses : st = "failed"
  BY DEF Statuses
<1>4. PICK d : d = ws'
  OBVIOUS
<1>0. PICK ok \in BOOLEAN : ok = TRUE
  OBVIOUS
<1>11. PICK x : x = Post(b, op, ok) /\ x = Done(ws, op, TRUE)
  BY <1>0, <1>2 DEF Done
<1>5. d = WithStatus(x, st)
  BY <1>1, <1>3, <1>4, <1>11 DEF Closes, WithStatus
<1>6. PICK e \in Client : e = WithStatus(b, st)
  BY DEF Client, WithStatus
<1>7. d = Post(e, op, ok)
  <2>1. StatusLater(b, op, ok, st)
    BY StatusCommutes, Zenon
  <2>2. WithStatus(Post(b, op, ok), st) = d
    BY <1>5, <1>11
  <2>3. Post(WithStatus(b, st), op, ok) = Post(e, op, ok)
    BY <1>6
  <2> QED BY <2>1, <2>2, <2>3 DEF StatusLater
<1>8. Without(e, op) /\ e.status # "open"
  BY <1>2, <1>3, <1>6 DEF Without, Client, WithStatus
<1>9. MayOpen(e, op, ok)
  BY <1>8 DEF MayOpen
<1>10. Keeps(d)
  BY <1>7, <1>8, <1>9, EndsKeep
<1> QED BY <1>4, <1>10

\* The network's steps, but for the lookups.
LEMMA OperationKeeps ==
  ASSUME IInv,
         \/ \E op \in ConnectOps : Connects(op) \/ ConnectFails(op)
         \/ \E op \in {"read", "write"} : Transfers(op)
         \/ \E op \in {"read", "write", "close"} : Fails(op)
         \/ Closes
  PROVE  Keeps(ws') /\ UNCHANGED lookups /\ faults' \in 0 .. MaxFaults
<1>0. faults \in 0 .. MaxFaults
  BY DEF IInv
<1>1. CASE \E op \in ConnectOps : Connects(op)
  BY <1>0, <1>1, ConnectsKeeps DEF Connects
<1>2. CASE \E op \in ConnectOps : ConnectFails(op)
  <2>1. PICK op \in ConnectOps : ConnectFails(op)
    BY <1>2
  <2>2. op \in StreamOps /\ op # "read"
    BY DEF ConnectOps, StreamOps
  <2>3. Keeps(ws')
    BY <2>1, <2>2, DoneKeeps DEF ConnectFails
  <2>4. faults' \in 0 .. MaxFaults
    BY <1>0, <2>1, WssAssumption DEF ConnectFails, WssAssumption
  <2> QED BY <2>1, <2>3, <2>4 DEF ConnectFails
<1>3. CASE \E op \in {"read", "write"} : Transfers(op)
  <2>1. PICK op \in {"read", "write"} : Transfers(op)
    BY <1>3
  <2>2. op \in StreamOps
    BY DEF StreamOps
  <2>3. Keeps(ws')
    BY <2>1, <2>2, DoneKeeps DEF Transfers
  <2> QED BY <1>0, <2>1, <2>3 DEF Transfers
<1>4. CASE \E op \in {"read", "write", "close"} : Fails(op)
  <2>1. PICK op \in {"read", "write", "close"} : Fails(op)
    BY <1>4
  <2>2. op \in StreamOps /\ ws.status # "open"
    BY <2>1 DEF StreamOps, Fails, Alive
  <2>3. Keeps(ws')
    BY <2>1, <2>2, DoneKeeps DEF Fails
  <2> QED BY <1>0, <2>1, <2>3 DEF Fails
<1>5. CASE Closes
  BY <1>0, <1>5, ClosesKeeps DEF Closes
<1> QED BY <1>1, <1>2, <1>3, <1>4, <1>5

\* A lookup or a wait ends, and its handler becomes ready.
LEMMA TimerKeeps ==
  ASSUME IInv, NEW b \in Client, NEW op \in {"resolve", "reconnect", "ping", "trade"},
         NEW ok \in BOOLEAN, NEW d, d = Post(b, op, ok), Ends(b, op), b.status = ws.status
  PROVE  Kept(d, op, ok) /\ d.resolving = b.resolving
<1>1. op \in Handlers /\ op # "read"
  BY DEF Handlers
<1>2. MayOpen(b, op, ok)
  BY <1>1 DEF MayOpen
<1> QED BY <1>1, <1>2, EventKeeps

\* Only a failed lookup needs a new count of failed lookups.
LEMMA KeptKeeps ==
  ASSUME IInv, NEW d, NEW op, NEW ok \in BOOLEAN, Kept(d, op, ok), ~(op = "resolve" /\ ok = FALSE),
         d.resolving <= ws.resolving
  PROVE  Keeps(d)
BY DEF Kept, Keeps

\* A lookup that ends; b is the client before its handler is queued.
LEMMA LookupIs ==
  ASSUME IInv, ws.resolving > 0
  PROVE  \E b \in Client : /\ b = [ws EXCEPT !.resolving = @ - 1]
                           /\ Ends(b, "resolve") /\ b.status = ws.status
                           /\ b.resolving <= ws.resolving
<1>0. ws \in Client
  BY DEF IInv
<1>1. PICK r \in Nat : r = ws.resolving - 1
  BY <1>0 DEF Client
<1>2. PICK b \in Client : b = [ws EXCEPT !.resolving = r]
  BY <1>0 DEF Client
<1>3. /\ b.ready = ws.ready /\ b.owner = ws.owner /\ b.stopping = ws.stopping
      /\ b.m_reading = ws.m_reading /\ b.pending = ws.pending
      /\ b.reconnect_wait = ws.reconnect_wait /\ b.timers = ws.timers /\ b.status = ws.status
      /\ b.resolving = r
  BY <1>0, <1>2 DEF Client
<1>4. AutoReconnect(ws) => b.timers = 0
  BY <1>3 DEF IInv, Owned
<1>5. Ends(b, "resolve")
  BY <1>3, <1>4 DEF Ends
<1>6. b.resolving <= ws.resolving
  BY <1>0, <1>1, <1>3 DEF Client
<1> QED BY <1>1, <1>2, <1>3, <1>5, <1>6

\* A lookup succeeds.
LEMMA LookupSucceedsKeeps == ASSUME IInv, LookupSucceeds PROVE Keeps(ws')
<1>1. PICK b \in Client : /\ b = [ws EXCEPT !.resolving = @ - 1]
                          /\ Ends(b, "resolve") /\ b.status = ws.status
                          /\ b.resolving <= ws.resolving
  BY LookupIs DEF LookupSucceeds
<1>2. PICK d : d = ws'
  OBVIOUS
<1>3. PICK ok \in BOOLEAN : ok = TRUE
  OBVIOUS
<1>4. d = Post(b, "resolve", ok)
  BY <1>1, <1>2, <1>3 DEF LookupSucceeds
<1>5. Kept(d, "resolve", ok) /\ d.resolving = b.resolving
  BY <1>1, <1>4, TimerKeeps
<1>6. Keeps(d)
  BY <1>1, <1>3, <1>5, KeptKeeps
<1> QED BY <1>2, <1>6

\* From then on there may be a dead end.
LEMMA LookupFailsKeeps ==
  ASSUME IInv, LookupFails
  PROVE  /\ ws' \in Client /\ Answered(ws') /\ Heard(ws') /\ Owned(ws')
         /\ ws'.resolving <= ws.resolving
<1>1. PICK b \in Client : /\ b = [ws EXCEPT !.resolving = @ - 1]
                          /\ Ends(b, "resolve") /\ b.status = ws.status
                          /\ b.resolving <= ws.resolving
  BY LookupIs DEF LookupFails
<1>2. PICK d : d = ws'
  OBVIOUS
<1>3. PICK ok \in BOOLEAN : ok = FALSE
  OBVIOUS
<1>4. d = Post(b, "resolve", ok)
  BY <1>1, <1>2, <1>3 DEF LookupFails
<1>5. Kept(d, "resolve", ok) /\ d.resolving = b.resolving
  BY <1>1, <1>4, TimerKeeps
<1> QED BY <1>1, <1>2, <1>5 DEF Kept

\* What breaks is not open any more, and its pending read will report it.
LEMMA BreaksKeeps == ASSUME IInv, Breaks PROVE Keeps(ws')
<1>0. ws \in Client
  BY DEF IInv
<1>1. PICK st \in Statuses : st = "failed"
  BY DEF Statuses
<1>2. PICK d \in Client : d = [ws EXCEPT !.status = st]
  BY <1>0 DEF Client
<1>3. d = ws'
  BY <1>1, <1>2 DEF Breaks
<1>4. /\ d.ready = ws.ready /\ d.owner = ws.owner /\ d.stopping = ws.stopping
      /\ d.m_reading = ws.m_reading /\ d.pending = ws.pending /\ d.resolving = ws.resolving
      /\ d.reconnect_wait = ws.reconnect_wait /\ d.timers = ws.timers /\ d.status = st
  BY <1>0, <1>2 DEF Client
<1>5. Answered(d) /\ Heard(d)
  BY <1>1, <1>4 DEF IInv, Answered, Heard, Listening, WaitsAny
<1>6. Owned(d) /\ (Waits(d, "resolve", FALSE) => lookups > 0)
  BY <1>4 DEF IInv, Owned, Waits, WaitsAny, AutoReconnect
<1>7. lookups = 0 => Returning(d)
  BY <1>4 DEF IInv, Returning, WaitsAny, AutoReconnect
<1>8. d.resolving <= ws.resolving
  BY <1>0, <1>4 DEF Client
<1>9. Keeps(d)
  BY <1>5, <1>6, <1>7, <1>8 DEF Keeps
<1> QED BY <1>3, <1>9

\* The wait for a reconnect becomes its handler.
LEMMA ReconnectDueKeeps == ASSUME IInv, ReconnectDue PROVE Keeps(ws')
<1>0. ws \in Client
  BY DEF IInv
<1>1. PICK f \in BOOLEAN : f = FALSE
  OBVIOUS
<1>2. PICK b \in Client : b = [ws EXCEPT !.reconnect_wait = f]
  BY <1>0 DEF Client
<1>3. /\ b.ready = ws.ready /\ b.owner = ws.owner /\ b.stopping = ws.stopping
      /\ b.m_reading = ws.m_reading /\ b.pending = ws.pending
      /\ b.resolving = ws.resolving /\ b.timers = ws.timers /\ b.status = ws.status
  BY <1>0, <1>2 DEF Client
<1>4. Ends(b, "reconnect") /\ b.resolving <= ws.resolving
  BY <1>0, <1>3 DEF Ends, IInv, Owned, Client
<1>5. PICK d : d = ws'
  OBVIOUS
<1>6. PICK ok \in BOOLEAN : ok = TRUE
  OBVIOUS
<1>7. d = Post(b, "reconnect", ok)
  BY <1>1, <1>2, <1>5, <1>6 DEF ReconnectDue
<1>8. Kept(d, "reconnect", ok) /\ d.resolving = b.resolving
  BY <1>3, <1>4, <1>7, TimerKeeps
<1>9. Keeps(d)
  BY <1>4, <1>6, <1>8, KeptKeeps
<1> QED BY <1>5, <1>9

\* The wait of the ping timer becomes its handler.
LEMMA PingDueKeeps == ASSUME IInv, PingDue PROVE Keeps(ws')
<1>0. ws \in Client
  BY DEF IInv
<1>1. PICK f \in BOOLEAN : f = FALSE
  OBVIOUS
<1>2. PICK b \in Client : b = [ws EXCEPT !.ping_wait = f]
  BY <1>0 DEF Client
<1>3. /\ b.ready = ws.ready /\ b.owner = ws.owner /\ b.stopping = ws.stopping
      /\ b.m_reading = ws.m_reading /\ b.pending = ws.pending
      /\ b.resolving = ws.resolving /\ b.timers = ws.timers /\ b.status = ws.status
      /\ b.reconnect_wait = ws.reconnect_wait
  BY <1>0, <1>2 DEF Client
<1>4. Ends(b, "ping") /\ b.resolving <= ws.resolving
  BY <1>0, <1>3 DEF Ends, IInv, Owned, Client
<1>5. PICK d : d = ws'
  OBVIOUS
<1>6. PICK ok \in BOOLEAN : ok = TRUE
  OBVIOUS
<1>7. d = Post(b, "ping", ok)
  BY <1>1, <1>2, <1>5, <1>6 DEF PingDue
<1>8. Kept(d, "ping", ok) /\ d.resolving = b.resolving
  BY <1>3, <1>4, <1>7, TimerKeeps
<1>9. Keeps(d)
  BY <1>4, <1>6, <1>8, KeptKeeps
<1> QED BY <1>5, <1>9

\* A timer of the trade owner becomes its handler.
LEMMA TradeDueKeeps == ASSUME IInv, TradeDue PROVE Keeps(ws')
<1>0. ws \in Client /\ ~AutoReconnect(ws)
  BY DEF IInv, Owned, TradeDue
<1>1. PICK t \in 0 .. MaxSpins : t = ws.timers - 1
  BY <1>0, WssAssumption DEF Client, TradeDue, WssAssumption
<1>2. PICK b \in Client : b = [ws EXCEPT !.timers = t]
  BY <1>0 DEF Client
<1>3. /\ b.ready = ws.ready /\ b.owner = ws.owner /\ b.stopping = ws.stopping
      /\ b.m_reading = ws.m_reading /\ b.pending = ws.pending
      /\ b.resolving = ws.resolving /\ b.status = ws.status
      /\ b.reconnect_wait = ws.reconnect_wait
  BY <1>0, <1>2 DEF Client
<1>4. Ends(b, "trade") /\ b.resolving <= ws.resolving
  BY <1>0, <1>3 DEF Ends, Client
<1>5. PICK d : d = ws'
  OBVIOUS
<1>6. PICK ok \in BOOLEAN : ok = TRUE
  OBVIOUS
<1>7. d = Post(b, "trade", ok)
  BY <1>1, <1>2, <1>5, <1>6 DEF TradeDue
<1>8. Kept(d, "trade", ok) /\ d.resolving = b.resolving
  BY <1>3, <1>4, <1>7, TimerKeeps
<1>9. Keeps(d)
  BY <1>4, <1>6, <1>8, KeptKeeps
<1> QED BY <1>5, <1>9

\* The user sends or closes.
LEMMA UserKeeps == ASSUME IInv, UserSends \/ UserCloses PROVE Keeps(ws')
<1>0. ws \in Client
  BY DEF IInv
<1>1. Adds(ws, ws')
  BY <1>0, SendAdds, CloseAdds DEF UserSends, UserCloses
<1>2. PICK d : d = ws'
  OBVIOUS
<1>3. Adds(ws, d)
  BY <1>1, <1>2
<1>4. Answered(d) /\ Heard(d) /\ Owned(d) /\ (Waits(d, "resolve", FALSE) => lookups > 0)
      /\ (lookups = 0 => Returning(d))
  BY <1>0, <1>3, AddsKeep DEF IInv
<1>5. d \in Client /\ d.resolving <= ws.resolving
  BY <1>0, <1>3 DEF Adds, Client
<1>6. Keeps(d)
  BY <1>4, <1>5 DEF Keeps
<1> QED BY <1>2, <1>6

-----------------------------------------------------------------------------
(* The theorems                                                             *)

\* Keeps is the invariant after the step.
LEMMA KeepsInvariant ==
  ASSUME Keeps(ws'), UNCHANGED lookups, lookups \in 0 .. MaxLookups, faults' \in 0 .. MaxFaults
  PROVE  IInv'
<1>1. PICK d : d = ws'
  OBVIOUS
<1>2. d \in Client /\ Answered(d) /\ Heard(d) /\ Owned(d)
      /\ (Waits(d, "resolve", FALSE) => lookups > 0) /\ (lookups = 0 => Returning(d))
  BY <1>1 DEF Keeps
<1> QED BY <1>1, <1>2 DEF IInv

\* After close() this step begins no lookup.
StopHolds == AutoReconnect(ws) /\ ws.stopping => ws'.resolving <= ws.resolving

\* Every step keeps the invariant, and after close() none begins a lookup.
LEMMA StepKeeps == ASSUME IInv, Next PROVE IInv' /\ StopHolds
<1>0. lookups \in 0 .. MaxLookups /\ faults \in 0 .. MaxFaults
  BY DEF IInv
<1>1. ASSUME Keeps(ws'), UNCHANGED lookups, faults' \in 0 .. MaxFaults PROVE IInv' /\ StopHolds
  BY <1>0, <1>1, KeepsInvariant DEF Keeps, StopHolds
<1>2. CASE RunHandler
  <2>1. Keeps(ws') /\ UNCHANGED <<faults, lookups>>
    <3>1. CASE OnResolve
      BY <3>1, OnResolveKeeps
    <3>2. CASE OnConnect
      BY <3>2, OnConnectKeeps
    <3>3. CASE OnSslHandshake
      BY <3>3, OnSslHandshakeKeeps
    <3>4. CASE OnHandshake
      BY <3>4, OnHandshakeKeeps
    <3>5. CASE OnWrite
      BY <3>5, OnWriteKeeps
    <3>6. CASE OnRead
      BY <3>6, OnReadKeeps
    <3>7. CASE OnClose
      BY <3>7, OnCloseKeeps
    <3>8. CASE OnSslShutdown
      BY <3>8, OnSslShutdownKeeps
    <3>9. CASE ReconnectTimer
      BY <3>9, ReconnectTimerKeeps
    <3>10. CASE PingTimer
      BY <3>10, PingTimerKeeps
    <3>11. CASE TradeTimer
      BY <3>11, TradeTimerKeeps
    <3> QED BY <1>2, <3>1, <3>2, <3>3, <3>4, <3>5, <3>6, <3>7, <3>8, <3>9, <3>10, <3>11 DEF RunHandler
  <2> QED BY <1>0, <1>1, <2>1
<1>3. CASE LookupSucceeds
  BY <1>0, <1>1, <1>3, LookupSucceedsKeeps DEF LookupSucceeds
<1>4. CASE LookupFails
  <2>1. PICK d : d = ws'
    OBVIOUS
  <2>2. d \in Client /\ Answered(d) /\ Heard(d) /\ Owned(d) /\ d.resolving <= ws.resolving
    BY <1>4, <2>1, LookupFailsKeeps
  <2>3. lookups' \in 0 .. MaxLookups /\ lookups' > 0 /\ faults' = faults
    BY <1>0, <1>4, WssAssumption DEF LookupFails, WssAssumption
  <2>4. (Waits(d, "resolve", FALSE) => lookups' > 0) /\ (lookups' = 0 => Returning(d))
    <3>1. lookups' # 0
      BY <2>3
    <3>2. lookups' > 0
      BY <2>3
    <3> QED BY <3>1, <3>2, Zenon
  <2>5. IInv'
    BY <1>0, <2>1, <2>2, <2>3, <2>4 DEF IInv
  <2>6. StopHolds
    BY <2>1, <2>2 DEF StopHolds
  <2> QED BY <2>5, <2>6
<1>5. CASE Breaks
  <2>1. faults' \in 0 .. MaxFaults /\ UNCHANGED lookups
    BY <1>0, <1>5, WssAssumption DEF Breaks, WssAssumption
  <2> QED BY <1>1, <1>5, <2>1, BreaksKeeps
<1>6. CASE \/ Closes
           \/ \E op \in ConnectOps : Connects(op) \/ ConnectFails(op)
           \/ \E op \in {"read", "write"} : Transfers(op)
           \/ \E op \in {"read", "write", "close"} : Fails(op)
  <2>1. Keeps(ws') /\ UNCHANGED lookups /\ faults' \in 0 .. MaxFaults
    BY <1>6, OperationKeeps
  <2> QED BY <1>1, <2>1
<1>7. CASE ReconnectDue
  BY <1>0, <1>1, <1>7, ReconnectDueKeeps DEF ReconnectDue
<1>8. CASE PingDue
  BY <1>0, <1>1, <1>8, PingDueKeeps DEF PingDue
<1>9. CASE TradeDue
  BY <1>0, <1>1, <1>9, TradeDueKeeps DEF TradeDue
<1>10. CASE UserSends \/ UserCloses
  BY <1>0, <1>1, <1>10, UserKeeps DEF UserSends, UserCloses
<1> QED BY <1>2, <1>3, <1>4, <1>5, <1>6, <1>7, <1>8, <1>9, <1>10 DEF Next, Network

\* The lookup of resolve_connect is under way at first.
LEMMA InitKeeps == ASSUME Init PROVE IInv
<1>1. PICK c \in Fresh : ws = BindResolveConnect(c)
  BY DEF Init
<1>2. PICK n \in 0 .. Wrap - 1 : n = (c.n_callbacks + 1) % Wrap
  BY Modulo DEF Fresh
<1>3. PICK r \in Nat : r = c.resolving + 1 /\ r > 0
  BY DEF Fresh
<1>4. ws = [c EXCEPT !.n_callbacks = n, !.resolving = r]
  BY <1>1, <1>2, <1>3 DEF BindResolveConnect
<1>5. c \in Client
  <2>1. <<>> \in Seq(Entry) /\ {} \in SUBSET StreamOps /\ 0 \in Int /\ 0 \in 0 .. MaxSpins
    BY EmptySeq, WssAssumption DEF WssAssumption
  <2>2. 0 \in 0 .. Wrap - 1
    BY WssAssumption DEF WssAssumption
  <2>3. /\ c.status \in Statuses /\ c.link \in Links /\ c.pending \in SUBSET StreamOps
        /\ c.ready \in Seq(Entry) /\ c.owner \in Owners
    BY <2>1 DEF Fresh, Statuses, Links
  <2>4. /\ c.resolving \in Nat /\ c.n_callbacks \in 0 .. Wrap - 1 /\ c.unsent \in 0 .. Wrap - 1
        /\ c.timers \in 0 .. MaxSpins
    BY <2>1, <2>2 DEF Fresh
  <2>5. /\ c.m_reading \in BOOLEAN /\ c.m_writing \in BOOLEAN /\ c.reconnect_wait \in BOOLEAN
        /\ c.ping_wait \in BOOLEAN /\ c.stopping \in BOOLEAN
        /\ c.torn \in BOOLEAN /\ c.overlap \in BOOLEAN /\ c.early \in BOOLEAN
    BY DEF Fresh
  <2>6. c = [status |-> c.status, link |-> c.link, pending |-> c.pending, ready |-> c.ready,
             resolving |-> c.resolving, n_callbacks |-> c.n_callbacks, m_reading |-> c.m_reading,
             m_writing |-> c.m_writing, unsent |-> c.unsent, reconnect_wait |-> c.reconnect_wait,
             ping_wait |-> c.ping_wait, stopping |-> c.stopping, owner |-> c.owner,
             timers |-> c.timers, torn |-> c.torn, overlap |-> c.overlap, early |-> c.early]
    BY DEF Fresh
  <2> QED BY <2>3, <2>4, <2>5, <2>6 DEF Client
<1>6. ws \in Client
  BY <1>4, <1>5 DEF Client
<1>7. /\ ws.status = "closed" /\ ws.ready = <<>> /\ ws.m_reading = FALSE /\ ws.timers = 0
      /\ ws.resolving > 0
  BY <1>3, <1>4 DEF Fresh
<1>8. Answered(ws) /\ Heard(ws)
  BY <1>7 DEF Answered, Heard
<1>9. DOMAIN ws.ready = {}
  BY <1>7
<1>10. Owned(ws) /\ ~Waits(ws, "resolve", FALSE)
  BY <1>7, <1>9 DEF Owned, Waits, WaitsAny
<1>11. Returning(ws)
  BY <1>7 DEF Returning
<1>12. faults \in 0 .. MaxFaults /\ lookups \in 0 .. MaxLookups
  BY WssAssumption DEF Init, WssAssumption
<1> QED BY <1>6, <1>8, <1>10, <1>11, <1>12 DEF IInv

\* IInv holds in every reachable state.
THEOREM Invariant == Spec => []IInv
<1>1. Init => IInv
  BY InitKeeps
<1>2. IInv /\ [Next]_vars => IInv'
  <2>1. CASE Next
    BY <2>1, StepKeeps
  <2>2. ASSUME IInv, UNCHANGED vars PROVE IInv'
    <3>1. UNCHANGED <<ws, faults, lookups>>
      BY <2>2 DEF vars
    <3> QED BY <2>2, <3>1 DEF IInv
  <2> QED BY <2>1, <2>2
<1> QED BY <1>1, <1>2, PTL DEF Spec

\* A connection that is up is listened to, whatever handlers of earlier streams
\* did to m_reading.
THEOREM OpenStreamIsRead == Spec => []OpenIsRead
<1>1. ASSUME IInv PROVE OpenIsRead
  <2>0. ws \in Client /\ Heard(ws)
    BY <1>1 DEF IInv
  <2> SUFFICES ASSUME ws.status = "open", "read" \notin ws.pending
      PROVE  Has("read") \/ Has("handshake")
    BY DEF OpenIsRead
  <2>1. ASSUME NEW op, WaitsAny(ws, op) PROVE Has(op)
    BY <2>0, <2>1, ReadyIs DEF Has
  <2>2. WaitsAny(ws, "read") \/ WaitsAny(ws, "handshake")
    <3>1. CASE Waits(ws, "read", TRUE)
      <4>1. PICK i \in DOMAIN ws.ready : ws.ready[i] = <<"read", TRUE>>
        BY <3>1 DEF Waits
      <4>2. ws.ready[i][1] = "read"
        BY <4>1
      <4> QED BY <4>2 DEF WaitsAny
    <3>2. CASE \E i \in DOMAIN ws.ready : ws.ready[i] = <<"handshake", TRUE>>
      <4>1. PICK i \in DOMAIN ws.ready : ws.ready[i] = <<"handshake", TRUE>>
        BY <3>2
      <4>2. ws.ready[i][1] = "handshake"
        BY <4>1
      <4> QED BY <4>2 DEF WaitsAny
    <3> QED BY <2>0, <3>1, <3>2 DEF Heard
  <2> QED BY <2>1, <2>2
<1> QED BY <1>1, Invariant, PTL

\* There is no dead end for a client that nobody closed: it is on its way up or
\* has a reconnect ahead, unless a lookup failed.
THEOREM NoDeadEnd == Spec => []NeverStranded
<1>1. ASSUME IInv PROVE NeverStranded
  <2>0. ws \in Client
    BY <1>1 DEF IInv
  <2> SUFFICES ASSUME AutoReconnect(ws), ~ws.stopping, lookups = 0
      PROVE  UnderWay(ws) \/ ws.reconnect_wait \/ Has("reconnect")
    BY DEF NeverStranded
  <2>1. Returning(ws)
    BY <1>1 DEF IInv
  <2>2. CASE ws.reconnect_wait \/ ws.resolving > 0 \/ ws.pending # {}
    BY <2>2 DEF UnderWay
  <2>3. CASE WaitsAny(ws, "reconnect")
    BY <2>0, <2>3, ReadyIs DEF Has
  <2>4. CASE \E op \in Signals \ {"reconnect"} : WaitsAny(ws, op)
    BY <2>4 DEF WaitsAny, UnderWay, Signals
  <2> QED BY <2>1, <2>2, <2>3, <2>4 DEF Returning, Signals
<1> QED BY <1>1, Invariant, PTL

\* After close() no reconnect begins, also if its timer had already expired.
THEOREM ClosedStaysClosed == Spec => StopIsFinal
<1>1. ASSUME IInv, [Next]_vars
      PROVE  [AutoReconnect(ws) /\ ws.stopping => ws'.resolving <= ws.resolving]_vars
  BY <1>1, StepKeeps DEF StopHolds
<1> QED BY <1>1, Invariant, PTL DEF Spec, StopIsFinal

-----------------------------------------------------------------------------
(* How many handlers are ready                                              *)

One(b) == IF b THEN 1 ELSE 0

\* The places of a queue that hold a handler of E, and their number.
Places(s, E) == {i \in DOMAIN s : s[i] \in E}
Number(s, E) == Cardinality(Places(s, E))

\* They are finitely many.
LEMMA NumberType ==
  ASSUME NEW s \in Seq(Entry), NEW E
  PROVE  IsFiniteSet(Places(s, E)) /\ Number(s, E) \in Nat /\ (Number(s, E) = 0 <=> Places(s, E) = {})
<1>1. Len(s) \in Nat /\ DOMAIN s = 1 .. Len(s)
  BY LenProperties
<1>2. IsFiniteSet(DOMAIN s)
  BY <1>1, FS_Interval
<1>3. IsFiniteSet(Places(s, E))
  BY <1>2, FS_Subset DEF Places
<1> QED BY <1>3, FS_CardinalityType, FS_EmptySet DEF Number

\* A handler that becomes ready.
LEMMA NumberAppend ==
  ASSUME NEW s \in Seq(Entry), NEW e \in Entry, NEW E, NEW t, t = Append(s, e)
  PROVE  Number(t, E) = Number(s, E) + One(e \in E)
<1>1. /\ t \in Seq(Entry) /\ Len(t) = Len(s) + 1
      /\ \A i \in 1 .. Len(s) : t[i] = s[i]
      /\ t[Len(s) + 1] = e
  BY AppendProperties
<1>2. Len(s) \in Nat /\ DOMAIN s = 1 .. Len(s) /\ DOMAIN t = 1 .. Len(t)
  BY <1>1, LenProperties
<1>3. IsFiniteSet(Places(s, E)) /\ Number(s, E) \in Nat
  BY NumberType
<1>4. CASE e \in E
  <2>1. Places(t, E) = Places(s, E) \cup {Len(s) + 1} /\ Len(s) + 1 \notin Places(s, E)
    BY <1>1, <1>2, <1>4 DEF Places
  <2> QED BY <1>3, <1>4, <2>1, FS_AddElement DEF Number, One
<1>5. CASE e \notin E
  <2>1. Places(t, E) = Places(s, E)
    BY <1>1, <1>2, <1>5 DEF Places
  <2> QED BY <1>3, <1>5, <2>1 DEF Number, One
<1> QED BY <1>4, <1>5

\* The oldest handler is taken off the queue.
LEMMA NumberTail ==
  ASSUME NEW s \in Seq(Entry), s # <<>>, NEW E, NEW t, t = Tail(s)
  PROVE  Number(s, E) = Number(t, E) + One(Head(s) \in E)
<1>1. t \in Seq(Entry) /\ Len(t) = Len(s) - 1 /\ \A i \in 1 .. Len(t) : t[i] = s[i + 1]
  BY HeadTailProperties
<1>2. Len(s) \in Nat /\ DOMAIN s = 1 .. Len(s) /\ DOMAIN t = 1 .. Len(t) /\ Len(t) \in Nat
  BY <1>1, LenProperties
<1>3. IsFiniteSet(Places(t, E)) /\ Number(t, E) \in Nat /\ IsFiniteSet(Places(s, E))
  BY <1>1, NumberType
<1>4. Head(s) = s[1] /\ Len(s) > 0
  BY EmptySeq
<1> DEFINE Later == Places(s, E) \ {1}
           Next1 == [i \in Places(t, E) |-> i + 1]
<1>5. IsFiniteSet(Later) /\ Cardinality(Later) = Number(t, E)
  <2>1. Next1 \in Bijection(Places(t, E), Later)
    <3>1. \A i \in Places(t, E) : i \in Nat /\ i + 1 \in Later
      BY <1>1, <1>2 DEF Places
    <3>2. \A j \in Later : j - 1 \in Places(t, E) /\ (j - 1) + 1 = j
      BY <1>1, <1>2 DEF Places
    <3>3. \A i, k \in Places(t, E) : Next1[i] = Next1[k] => i = k
      BY <3>1
    <3>4. \A j \in Later : Next1[j - 1] = j
      BY <3>2
    <3>5. Next1 \in [Places(t, E) -> Later]
      BY <3>1
    <3> QED BY <3>2, <3>3, <3>4, <3>5, Fun_IsBij
  <2> QED BY <1>3, <2>1, FS_Bijection, Zenon DEF Number, ExistsBijection
<1>6. CASE Head(s) \in E
  <2>1. Places(s, E) = Later \cup {1} /\ 1 \notin Later
    BY <1>2, <1>4, <1>6 DEF Places
  <2>2. Cardinality(Places(s, E)) = Cardinality(Later) + 1
    BY <1>5, <2>1, FS_AddElement
  <2> QED BY <1>5, <1>6, <2>2 DEF Number, One
<1>7. CASE Head(s) \notin E
  <2>1. Places(s, E) = Later
    BY <1>4, <1>7 DEF Places
  <2>2. Number(s, E) = Number(t, E)
    BY <1>5, <2>1, Zenon DEF Number
  <2> QED BY <1>3, <1>7, <2>2 DEF One
<1> QED BY <1>6, <1>7

\* Handlers of two kinds are ready in places of their own.
LEMMA NumberDisjoint ==
  ASSUME NEW s \in Seq(Entry), NEW E, NEW F, E \cap F = {}
  PROVE  /\ Number(s, E \cup F) = Number(s, E) + Number(s, F)
         /\ Number(s, E) + Number(s, F) <= Len(s)
<1>1. Len(s) \in Nat /\ DOMAIN s = 1 .. Len(s)
  BY LenProperties
<1>2. /\ IsFiniteSet(Places(s, E)) /\ IsFiniteSet(Places(s, F))
      /\ Number(s, E) \in Nat /\ Number(s, F) \in Nat
  BY NumberType
<1>3. Places(s, E \cup F) = Places(s, E) \cup Places(s, F) /\ Places(s, E) \cap Places(s, F) = {}
  BY DEF Places
<1>4. Number(s, E \cup F) = Number(s, E) + Number(s, F)
  <2>1. Cardinality({}) = 0
    BY FS_EmptySet
  <2>2. PICK S, T : S = Places(s, E) /\ T = Places(s, F)
    OBVIOUS
  <2>3. Cardinality(S \cup T) = Cardinality(S) + Cardinality(T) - Cardinality(S \cap T)
    BY <1>2, <2>2, FS_Union
  <2>4. Cardinality(S \cup T) = Number(s, E \cup F) /\ Cardinality(S \cap T) = 0
        /\ Cardinality(S) = Number(s, E) /\ Cardinality(T) = Number(s, F)
    BY <1>3, <2>1, <2>2, Zenon DEF Number
  <2> QED BY <1>2, <2>3, <2>4
<1>5. Number(s, E \cup F) <= Len(s)
  <2>1. PICK S : S = 1 .. Len(s)
    OBVIOUS
  <2>2. PICK T \in SUBSET S : T = Places(s, E \cup F)
    BY <1>1, <2>1 DEF Places
  <2>3. IsFiniteSet(S) /\ Cardinality(S) = Len(s)
    BY <1>1, <2>1, FS_Interval
  <2>4. Cardinality(T) <= Cardinality(S)
    BY <2>3, FS_Subset, Zenon
  <2> QED BY <2>2, <2>3, <2>4 DEF Number
<1> QED BY <1>4, <1>5

\* How many handlers of a kind are ready that bring good news.
Good(c, op) == Cardinality({i \in DOMAIN c.ready : c.ready[i] = <<op, TRUE>>})

\* How many operations of a kind are under way: pending, or their handlers ready.
Of(c, op) == One(op \in c.pending) + Ready(c, op)

\* The entries of a kind, and the one among them that is good news.
Kind(op) == {<<op, TRUE>>} \cup {<<op, FALSE>>}
Glad(op) == {<<op, TRUE>>}

\* The two counts of ready handlers, as numbers of places.
LEMMA CountsAre ==
  ASSUME NEW c \in Client, NEW op
  PROVE  Ready(c, op) = Number(c.ready, Kind(op)) /\ Good(c, op) = Number(c.ready, Glad(op))
<1>1. c.ready \in Seq(Entry)
  BY DEF Client
<1>2. \A i \in DOMAIN c.ready : c.ready[i] \in Entry
  BY <1>1, LenProperties, ElementOfSeq
<1>3. \A e \in Entry : e[1] = op <=> e \in Kind(op)
  <2> SUFFICES ASSUME NEW x \in Handlers, NEW ok \in BOOLEAN, NEW e, e = <<x, ok>>
      PROVE  e[1] = op <=> e \in Kind(op)
    BY DEF Entry
  <2>1. ok = TRUE \/ ok = FALSE
    OBVIOUS
  <2>2. e[1] = x
    OBVIOUS
  <2>3. e = <<op, TRUE>> \/ e = <<op, FALSE>> => x = op
    BY <2>2
  <2>4. x = op => e = <<op, TRUE>> \/ e = <<op, FALSE>>
    BY <2>1, Zenon
  <2>5. e \in Kind(op) <=> e = <<op, TRUE>> \/ e = <<op, FALSE>>
    BY Zenon DEF Kind
  <2> QED BY <2>2, <2>3, <2>4, <2>5
<1>4. Places(c.ready, Kind(op)) = {i \in DOMAIN c.ready : c.ready[i][1] = op}
  BY <1>2, <1>3 DEF Places
<1>5. Places(c.ready, Glad(op)) = {i \in DOMAIN c.ready : c.ready[i] = <<op, TRUE>>}
  BY DEF Places, Glad
<1> QED BY <1>4, <1>5, Zenon DEF Ready, Good, Number

\* Good news is news.
LEMMA CountTypes ==
  ASSUME NEW c \in Client, NEW op
  PROVE  /\ Ready(c, op) \in Nat /\ Good(c, op) \in Nat /\ Of(c, op) \in Nat
         /\ Good(c, op) <= Ready(c, op)
         /\ Of(c, op) = One(op \in c.pending) + Ready(c, op)
<1>1. c.ready \in Seq(Entry)
  BY DEF Client
<1> DEFINE E == Glad(op)
           F == {<<op, FALSE>>}
<1>2. Kind(op) = E \cup F /\ E \cap F = {}
  <2>1. <<op, TRUE>> # <<op, FALSE>>
    BY SecondIs
  <2> QED BY <2>1, Zenon DEF Kind, Glad
<1> HIDE DEF E, F
<1>3. Number(c.ready, E \cup F) = Number(c.ready, E) + Number(c.ready, F)
  BY <1>1, <1>2, NumberDisjoint
<1>4. Number(c.ready, E) \in Nat /\ Number(c.ready, F) \in Nat
  BY <1>1, NumberType
<1>5. Ready(c, op) = Number(c.ready, E \cup F) /\ Good(c, op) = Number(c.ready, E)
  BY <1>2, CountsAre DEF E
<1> QED BY <1>3, <1>4, <1>5 DEF Of, One

-----------------------------------------------------------------------------
(* What the calls of a handler do to the counts                              *)

Fields == {"status", "link", "pending", "ready", "resolving", "n_callbacks", "m_reading",
           "m_writing", "unsent", "reconnect_wait", "ping_wait", "stopping", "owner", "timers",
           "torn", "overlap", "early"}

\* c and d differ in these fields at most.
Same(c, d, F) == \A f \in Fields \ F : d[f] = c[f]

\* No handler became ready, and none was taken.
LEMMA ReadySame ==
  ASSUME NEW c, NEW d, d.ready = c.ready
  PROVE  \A x : Ready(d, x) = Ready(c, x) /\ Good(d, x) = Good(c, x)
BY DEF Ready, Good

\* Entries of another kind are told apart, and so is good news.
LEMMA KindIs ==
  ASSUME NEW op, NEW ok \in BOOLEAN, NEW e, e = <<op, ok>>
  PROVE  /\ \A x : x # op => e \notin Kind(x) /\ e \notin Glad(x)
         /\ e \in Kind(op) /\ (e \in Glad(op) <=> ok)
<1>1. \A x : e = <<x, TRUE>> \/ e = <<x, FALSE>> => x = op
  OBVIOUS
<1>2. \A x : e \in Kind(x) <=> e = <<x, TRUE>> \/ e = <<x, FALSE>>
  BY Zenon DEF Kind
<1>3. \A x : e \in Glad(x) <=> e = <<x, TRUE>>
  BY Zenon DEF Glad
<1>4. e = <<op, TRUE>> => ok
  BY SecondIs
<1>5. ok => e = <<op, TRUE>>
  BY Zenon
<1>6. ~ok => e = <<op, FALSE>>
  BY Zenon
<1>7. e \in Kind(op) /\ (e \in Glad(op) <=> ok)
  BY <1>2, <1>3, <1>4, <1>5, <1>6
<1> QED BY <1>1, <1>2, <1>3, <1>7

\* Taking one more entry into account changes the counts of its kind.
CountsOneMore(c, d, op, ok) ==
  /\ \A x : x # op => Ready(d, x) = Ready(c, x) /\ Good(d, x) = Good(c, x)
  /\ Ready(d, op) = Ready(c, op) + 1 /\ Good(d, op) = Good(c, op) + One(ok)

\* One entry more in the queue is one handler more of its kind.
LEMMA OneMore ==
  ASSUME NEW c \in Client, NEW d \in Client, NEW op, NEW ok \in BOOLEAN, NEW e, e = <<op, ok>>,
         \A E : Number(d.ready, E) = Number(c.ready, E) + One(e \in E)
  PROVE  CountsOneMore(c, d, op, ok)
<1>1. /\ \A x : x # op => e \notin Kind(x) /\ e \notin Glad(x)
      /\ e \in Kind(op) /\ (e \in Glad(op) <=> ok)
  BY KindIs
<1>2. \A E : Number(c.ready, E) \in Nat
  BY NumberType DEF Client
<1>3. ASSUME NEW x, x # op PROVE Ready(d, x) = Ready(c, x) /\ Good(d, x) = Good(c, x)
  <2>1. One(e \in Kind(x)) = 0 /\ One(e \in Glad(x)) = 0
    BY <1>1, <1>3 DEF One
  <2>2. /\ Number(d.ready, Kind(x)) = Number(c.ready, Kind(x)) + 0
        /\ Number(d.ready, Glad(x)) = Number(c.ready, Glad(x)) + 0
    BY <2>1
  <2> QED BY <1>2, <2>2, CountsAre
<1>4. Ready(d, op) = Ready(c, op) + 1 /\ Good(d, op) = Good(c, op) + One(ok)
  <2>1. One(e \in Kind(op)) = 1 /\ One(e \in Glad(op)) = One(ok)
    BY <1>1 DEF One
  <2>2. /\ Number(d.ready, Kind(op)) = Number(c.ready, Kind(op)) + 1
        /\ Number(d.ready, Glad(op)) = Number(c.ready, Glad(op)) + One(ok)
    BY <2>1
  <2> QED BY <2>2, CountsAre
<1> QED BY <1>3, <1>4 DEF CountsOneMore

\* A handler becomes ready; closes beyond MaxSpins are not told apart.
LEMMA PostCounts ==
  ASSUME NEW c \in Client, NEW op \in Handlers, NEW ok \in BOOLEAN, NEW d, d = Post(c, op, ok)
  PROVE  /\ d \in Client /\ Same(c, d, {"ready"})
         /\ CountsOneMore(c, d, op, ok) \/ (op = "close" /\ d = c /\ Ready(c, "close") > 0)
<1>1. CASE d = c /\ op = "close" /\ WaitsAny(c, "close")
  BY <1>1, ReadyIs DEF Same
<1>2. CASE d = [c EXCEPT !.ready = Append(@, <<op, ok>>)] /\ d \in Client
  <2>1. PICK e \in Entry : e = <<op, ok>>
    BY EntryIs
  <2>2. c.ready \in Seq(Entry)
    BY DEF Client
  <2>3. PICK s \in Seq(Entry) : s = Append(c.ready, e)
    BY <2>2, AppendProperties
  <2>4. d = [c EXCEPT !.ready = s]
    BY <1>2, <2>1, <2>3
  <2>5. Same(c, d, {"ready"}) /\ d.ready = s
    BY <2>4 DEF Same, Fields, Client
  <2>6. \A E : Number(s, E) = Number(c.ready, E) + One(e \in E)
    BY <2>2, <2>3, NumberAppend
  <2>7. d \in Client /\ \A E : Number(d.ready, E) = Number(c.ready, E) + One(e \in E)
    BY <1>2, <2>5, <2>6, Zenon
  <2>8. CountsOneMore(c, d, op, ok)
    BY <2>1, <2>7, OneMore
  <2> QED BY <2>5, <2>7, <2>8
<1> QED BY <1>1, <1>2, PostIs

\* The oldest handler is taken off the queue.
LEMMA TakenCounts ==
  ASSUME ws \in Client, ws.ready # <<>>, NEW op, NEW ok \in BOOLEAN, Head(ws.ready) = <<op, ok>>
  PROVE  /\ Taken \in Client /\ Same(ws, Taken, {"ready"})
         /\ CountsOneMore(Taken, ws, op, ok)
<1>1. ws.ready \in Seq(Entry)
  BY DEF Client
<1>2. PICK s \in Seq(Entry) : s = Tail(ws.ready)
  BY <1>1, HeadTailProperties
<1>3. PICK c \in Client : c = Taken /\ c = [ws EXCEPT !.ready = s]
  BY <1>1, <1>2 DEF Taken, Client
<1>4. Same(ws, c, {"ready"}) /\ c.ready = s
  BY <1>3 DEF Same, Fields, Client
<1>5. PICK e : e = <<op, ok>> /\ e = Head(ws.ready)
  OBVIOUS
<1>6. \A E : Number(ws.ready, E) = Number(s, E) + One(e \in E)
  BY <1>1, <1>2, <1>5, NumberTail
<1>7. CountsOneMore(c, ws, op, ok)
  BY <1>4, <1>5, <1>6, OneMore
<1> QED BY <1>3, <1>4, <1>7

\* The counts of c and d agree.
Level(c, d) == \A x : Of(d, x) = Of(c, x) /\ Ready(d, x) = Ready(c, x) /\ Good(d, x) = Good(c, x)

\* They do when neither the queue nor what is pending differs.
LEMMA LevelIs ==
  ASSUME NEW c, NEW d, d.ready = c.ready, d.pending = c.pending
  PROVE  Level(c, d)
BY ReadySame DEF Level, Of

\* What a ready handler and an operation in the network count for.
Pings(c) == One(c.ping_wait) + Of(c, "ping")

\* A stream that is closed is not the same as one that has failed.
SameKind(c, d) == (Alive(d) <=> Alive(c)) /\ (d.status = "closed" <=> c.status = "closed")

\* d is c after op has begun, or has failed to.
Begins(c, d, op) ==
  /\ d \in Client /\ d.n_callbacks = (c.n_callbacks + 1) % Wrap
  /\ Same(c, d, {"n_callbacks", "pending", "ready", "overlap", "status"})
  /\ d.overlap => c.overlap \/ (op \in {"read", "write"} /\ op \in c.pending)
  /\ SameKind(c, d)
  /\ \A x : x # op => Of(d, x) = Of(c, x) /\ Ready(d, x) = Ready(c, x)
  /\ \A x : Good(d, x) = Good(c, x)
  /\ Of(d, op) \in {Of(c, op), Of(c, op) + 1} /\ Of(d, op) > 0 /\ (Of(c, op) = 0 => Of(d, op) = 1)
  /\ Possible(c, op) => Ready(d, op) = Ready(c, op)

\* An operation begins.
LEMMA AsyncBegins ==
  ASSUME NEW c \in Client, NEW op \in StreamOps \cup {"shutdown"}, NEW d, d = Async(c, op)
  PROVE  Begins(c, d, op)
<1>1. PICK n \in 0 .. Wrap - 1 : n = (c.n_callbacks + 1) % Wrap
  <2>1. c.n_callbacks + 1 \in Int
    BY DEF Client
  <2> QED BY <2>1, Modulo
<1>2. PICK b \in Client : b = [c EXCEPT !.n_callbacks = n]
  BY DEF Client
<1>3. b = [c EXCEPT !.n_callbacks = (@ + 1) % Wrap]
  BY <1>1, <1>2
<1>4. Same(c, b, {"n_callbacks"}) /\ b.n_callbacks = n
  BY <1>2 DEF Same, Fields, Client
<1>5. b.ready = c.ready /\ b.pending = c.pending /\ b.status = c.status /\ b.overlap = c.overlap
  BY <1>4 DEF Same, Fields
<1>6. Level(c, b)
  BY <1>5, LevelIs
<1>7. Ready(c, op) \in Nat /\ Good(c, op) \in Nat
  BY CountTypes
<1>8. CASE ~Possible(c, op)
  <2>1. d = Post(b, op, FALSE) /\ op \in Handlers
    BY <1>3, <1>8 DEF Async, Handlers
  <2>2. /\ d \in Client /\ Same(b, d, {"ready"})
        /\ CountsOneMore(b, d, op, FALSE) \/ (op = "close" /\ d = b /\ Ready(b, "close") > 0)
    BY <2>1, PostCounts
  <2>3. Same(c, d, {"n_callbacks", "ready"})
    BY <1>4, <2>2 DEF Same
  <2>4. /\ d.n_callbacks = n /\ d.overlap = c.overlap /\ d.status = c.status /\ d.pending = c.pending
    BY <1>4, <1>5, <2>2 DEF Same, Fields
  <2>5. CASE CountsOneMore(b, d, op, FALSE)
    <3>1. \A x : x # op => Of(d, x) = Of(c, x) /\ Ready(d, x) = Ready(c, x)
      BY <1>6, <2>4, <2>5 DEF CountsOneMore, Level, Of
    <3>2. Ready(d, op) = Ready(c, op) + 1 /\ Good(d, op) = Good(c, op)
      BY <1>6, <1>7, <2>5 DEF CountsOneMore, Level, One
    <3>3. Of(d, op) = Of(c, op) + 1 /\ Of(c, op) \in Nat
      BY <1>7, <2>4, <3>2 DEF Of, One
    <3>4. \A x : Good(d, x) = Good(c, x)
      BY <1>6, <2>5, <3>2 DEF CountsOneMore, Level
    <3> QED BY <1>1, <1>8, <2>2, <2>3, <2>4, <3>1, <3>3, <3>4 DEF Begins, Same, SameKind, Alive
  <2>6. CASE op = "close" /\ d = b /\ Ready(b, "close") > 0
    <3>1. Of(c, op) > 0 /\ Of(c, op) \in Nat
      BY <1>6, <1>7, <2>6 DEF Level, Of, One
    <3> QED BY <1>1, <1>4, <1>5, <1>6, <1>8, <2>6, <3>1 DEF Begins, Same, SameKind, Alive, Level
  <2> QED BY <2>2, <2>5, <2>6
<1>9. CASE Possible(c, op)
  <2>1. op \in StreamOps
    BY <1>9 DEF Possible, StreamOps
  <2>2. PICK p \in SUBSET StreamOps : p = c.pending \cup {op}
    BY <2>1 DEF Client
  <2>3. PICK o \in BOOLEAN : o = (b.overlap \/ op \in c.pending \cap {"read", "write"})
    BY DEF Client
  <2>4. PICK st \in Statuses : st = (IF op = "close" THEN "closing" ELSE c.status)
    BY DEF Client, Statuses
  <2>5. PICK e \in Client : e = [b EXCEPT !.pending = p, !.overlap = o, !.status = st]
    BY DEF Client
  <2>6. d = e
    BY <1>2, <1>3, <1>5, <1>9, <2>2, <2>3, <2>4, <2>5 DEF Async, Client
  <2>7. /\ Same(b, d, {"pending", "overlap", "status"})
        /\ d.pending = p /\ d.overlap = o /\ d.status = st
    BY <2>5, <2>6 DEF Same, Fields, Client
  <2>8. Same(c, d, {"n_callbacks", "pending", "overlap", "status"}) /\ d.n_callbacks = n /\ d.ready = c.ready
    BY <1>4, <1>5, <2>7 DEF Same, Fields
  <2>9. \A x : Ready(d, x) = Ready(c, x) /\ Good(d, x) = Good(c, x)
    BY <2>8, ReadySame
  <2>10. \A x : x # op => Of(d, x) = Of(c, x)
    BY <2>2, <2>7, <2>9 DEF Of
  <2>11. /\ Of(c, op) = One(op \in c.pending) + Ready(c, op) /\ Of(d, op) = 1 + Ready(c, op)
    BY <2>2, <2>7, <2>9 DEF Of, One
  <2>12. SameKind(c, d)
    <3>1. op = "close" => Alive(c)
      BY <1>9 DEF Possible
    <3> QED BY <2>4, <2>7, <3>1 DEF SameKind, Alive
  <2>13. /\ Of(d, op) \in {Of(c, op), Of(c, op) + 1} /\ Of(d, op) > 0
         /\ (Of(c, op) = 0 => Of(d, op) = 1)
    BY <1>7, <2>11 DEF One
  <2>14. d.overlap => c.overlap \/ (op \in {"read", "write"} /\ op \in c.pending)
    BY <1>5, <2>3, <2>7
  <2>15. Same(c, d, {"n_callbacks", "pending", "ready", "overlap", "status"})
    BY <2>8 DEF Same
  <2> QED BY <1>1, <2>5, <2>6, <2>8, <2>9, <2>10, <2>12, <2>13, <2>14, <2>15 DEF Begins
<1> QED BY <1>8, <1>9

\* d is c after a handler has left.
Leaves(c, d) ==
  /\ d \in Client /\ d.n_callbacks = (c.n_callbacks - 1) % Wrap
  /\ Same(c, d, {"n_callbacks", "early"}) /\ Level(c, d)
  /\ d.early => c.early \/ (d.n_callbacks = 0 /\ UnderWay(c))

\* leave_callback.
LEMMA LeaveCallbackLeaves ==
  ASSUME NEW c \in Client, NEW d, d = LeaveCallback(c)
  PROVE  Leaves(c, d)
<1>1. PICK n \in 0 .. Wrap - 1 : n = (c.n_callbacks - 1) % Wrap
  <2>1. c.n_callbacks - 1 \in Int
    BY DEF Client
  <2> QED BY <2>1, Modulo
<1>2. PICK r \in BOOLEAN : r = (c.early \/ (n = 0 /\ UnderWay(c)))
  OBVIOUS
<1>3. PICK e \in Client : e = [c EXCEPT !.n_callbacks = n, !.early = r]
  BY DEF Client
<1>4. d = e
  BY <1>1, <1>2, <1>3 DEF LeaveCallback
<1>5. Same(c, e, {"n_callbacks", "early"}) /\ e.n_callbacks = n /\ e.early = r
  BY <1>3 DEF Same, Fields, Client
<1>6. Level(c, e)
  <2>1. e.ready = c.ready /\ e.pending = c.pending
    BY <1>5 DEF Same, Fields
  <2> QED BY <2>1, LevelIs
<1> QED BY <1>1, <1>2, <1>4, <1>5, <1>6 DEF Leaves

\* d is c after a wait of the ping timer has been cancelled.
Cancels(c, d) ==
  /\ d \in Client /\ Same(c, d, {"ping_wait", "ready"}) /\ ~d.ping_wait
  /\ \A x : x # "ping" => Of(d, x) = Of(c, x) /\ Ready(d, x) = Ready(c, x)
  /\ \A x : Good(d, x) = Good(c, x)
  /\ Pings(d) = Pings(c)

\* The wait becomes a handler.
LEMMA CancelPingCancels == ASSUME NEW c \in Client, NEW d, d = CancelPing(c) PROVE Cancels(c, d)
<1>1. CASE ~c.ping_wait
  <2>1. d = c
    BY <1>1 DEF CancelPing
  <2> QED BY <1>1, <2>1 DEF Cancels, Same
<1>2. CASE c.ping_wait
  <2>1. PICK b \in Client : b = [c EXCEPT !.ping_wait = FALSE]
    BY DEF Client
  <2>2. Same(c, b, {"ping_wait"}) /\ ~b.ping_wait
    BY <2>1 DEF Same, Fields, Client
  <2>3. b.ready = c.ready /\ b.pending = c.pending
    BY <2>2 DEF Same, Fields
  <2>4. Level(c, b)
    BY <2>3, LevelIs
  <2>5. PICK op \in Handlers : op = "ping"
    BY DEF Handlers
  <2>6. d = Post(b, op, FALSE)
    BY <1>2, <2>1, <2>5 DEF CancelPing
  <2>7. d \in Client /\ Same(b, d, {"ready"}) /\ CountsOneMore(b, d, op, FALSE)
    BY <2>5, <2>6, PostCounts
  <2>8. Same(c, d, {"ping_wait", "ready"}) /\ ~d.ping_wait /\ d.pending = c.pending
    BY <2>2, <2>3, <2>7 DEF Same, Fields
  <2>9. \A x : x # "ping" => Of(d, x) = Of(c, x) /\ Ready(d, x) = Ready(c, x)
    BY <2>4, <2>5, <2>7, <2>8 DEF CountsOneMore, Level, Of
  <2>10. Ready(c, "ping") \in Nat /\ Good(c, "ping") \in Nat
    BY CountTypes
  <2>11. Ready(d, "ping") = Ready(c, "ping") + 1 /\ Good(d, "ping") = Good(c, "ping")
    BY <2>4, <2>5, <2>7, <2>10 DEF CountsOneMore, Level, One
  <2>12. \A x : Good(d, x) = Good(c, x)
    BY <2>4, <2>5, <2>7, <2>11 DEF CountsOneMore, Level
  <2>13. Pings(d) = Pings(c)
    BY <1>2, <2>8, <2>10, <2>11 DEF Pings, Of, One
  <2> QED BY <2>7, <2>8, <2>9, <2>12, <2>13 DEF Cancels
<1> QED BY <1>1, <1>2

\* d is c after a wait of the ping timer has begun.
StartsPing(c, d) ==
  /\ d \in Client /\ Same(c, d, {"ping_wait", "ready"})
  /\ \A x : x # "ping" => Of(d, x) = Of(c, x) /\ Ready(d, x) = Ready(c, x)
  /\ \A x : Good(d, x) = Good(c, x)
  /\ Pings(d) = Pings(c) + 1

\* start_ping_pong.
LEMMA StartPingPongStarts ==
  ASSUME NEW c \in Client, NEW d, d = StartPingPong(c)
  PROVE  StartsPing(c, d)
<1>1. PICK b : b = CancelPing(c)
  OBVIOUS
<1>2. Cancels(c, b)
  BY <1>1, CancelPingCancels
<1>3. b \in Client /\ ~b.ping_wait /\ Same(c, b, {"ping_wait", "ready"})
  BY <1>2 DEF Cancels
<1>4. PICK e \in Client : e = [b EXCEPT !.ping_wait = TRUE]
  BY <1>3 DEF Client
<1>5. e = d
  BY <1>1, <1>4 DEF StartPingPong
<1>6. Same(b, d, {"ping_wait"}) /\ d.ping_wait
  BY <1>3, <1>4, <1>5 DEF Same, Fields, Client
<1>7. d.ready = b.ready /\ d.pending = b.pending
  BY <1>6 DEF Same, Fields
<1>8. Level(b, d)
  BY <1>7, LevelIs
<1>9. Of(b, "ping") \in Nat /\ Of(c, "ping") \in Nat
  BY <1>3, CountTypes
<1>10. Pings(d) = Pings(c) + 1
  BY <1>2, <1>3, <1>6, <1>8, <1>9 DEF Cancels, Pings, Level, One
<1> QED BY <1>2, <1>3, <1>4, <1>5, <1>6, <1>8, <1>10 DEF StartsPing, Cancels, Same, Level

\* d is c after an error has been reported: a close has perhaps begun, or a
\* reconnect is due, and n_callbacks has risen by k.
Reports(c, d, k) ==
  /\ d \in Client
  /\ d.n_callbacks = (c.n_callbacks + k) % Wrap
  /\ Same(c, d, {"n_callbacks", "pending", "ready", "overlap", "status", "stopping", "ping_wait",
                 "timers", "reconnect_wait"})
  /\ d.overlap => c.overlap
  /\ SameKind(c, d)
  /\ \A x : x \notin {"close", "ping"} => Of(d, x) = Of(c, x) /\ Ready(d, x) = Ready(c, x)
  /\ \A x : Good(d, x) = Good(c, x)
  /\ Of(d, "close") >= Of(c, "close") /\ Of(d, "close") <= Of(c, "close") + k
  /\ Pings(d) = Pings(c)
  /\ AutoReconnect(c) => d.stopping = c.stopping /\ d.timers = c.timers
  /\ ~AutoReconnect(c) => Of(d, "close") > 0 /\ d.reconnect_wait = c.reconnect_wait

\* d is c after close.
Shuts(c, d) ==
  /\ d \in Client
  /\ d.n_callbacks = (c.n_callbacks + 1) % Wrap
  /\ Same(c, d, {"n_callbacks", "pending", "ready", "overlap", "status", "stopping", "ping_wait"})
  /\ d.stopping /\ (d.overlap => c.overlap) /\ SameKind(c, d)
  /\ \A x : x \notin {"close", "ping"} => Of(d, x) = Of(c, x) /\ Ready(d, x) = Ready(c, x)
  /\ \A x : Good(d, x) = Good(c, x)
  /\ Of(d, "close") >= Of(c, "close") /\ Of(d, "close") <= Of(c, "close") + 1 /\ Of(d, "close") > 0
  /\ Pings(d) = Pings(c)

\* It begins to close, and cancels a wait of the ping timer.
LEMMA CloseShuts == ASSUME NEW c \in Client, NEW d, d = Close(c) PROVE Shuts(c, d)
<1>1. PICK a \in Client : a = [c EXCEPT !.stopping = TRUE]
  BY DEF Client
<1>2. Same(c, a, {"stopping"}) /\ a.stopping
  BY <1>1 DEF Same, Fields, Client
<1>3. a.ready = c.ready /\ a.pending = c.pending /\ a.status = c.status
      /\ a.ping_wait = c.ping_wait /\ a.n_callbacks = c.n_callbacks /\ a.overlap = c.overlap
  BY <1>2 DEF Same, Fields
<1>4. Level(c, a)
  BY <1>3, LevelIs
<1>5. PICK op \in StreamOps : op = "close"
  BY DEF StreamOps
<1>6. PICK b : b = Async(a, op)
  OBVIOUS
<1>7. Begins(a, b, op)
  BY <1>6, AsyncBegins
<1>8. b \in Client /\ Same(a, b, {"n_callbacks", "pending", "ready", "overlap", "status"})
  BY <1>7 DEF Begins
<1>9. d = CancelPing(b)
  BY <1>1, <1>5, <1>6 DEF Close
<1>10. Cancels(b, d)
  BY <1>8, <1>9, CancelPingCancels
<1>11. /\ d.n_callbacks = (c.n_callbacks + 1) % Wrap
       /\ d.stopping /\ (d.overlap => c.overlap) /\ SameKind(c, d)
  <2>1. /\ b.n_callbacks = (c.n_callbacks + 1) % Wrap /\ b.stopping /\ (b.overlap => c.overlap)
    BY <1>2, <1>3, <1>5, <1>7 DEF Begins, Same, Fields
  <2>2. SameKind(c, b)
    BY <1>3, <1>7 DEF Begins, SameKind, Alive
  <2>3. d.n_callbacks = b.n_callbacks /\ d.stopping = b.stopping /\ d.overlap = b.overlap
        /\ d.status = b.status
    BY <1>10 DEF Cancels, Same, Fields
  <2> QED BY <2>1, <2>2, <2>3 DEF SameKind, Alive
<1>12. Same(c, d, {"n_callbacks", "pending", "ready", "overlap", "status", "stopping", "ping_wait"})
  BY <1>2, <1>8, <1>10 DEF Cancels, Same
<1>13. \A x : x \notin {"close", "ping"} => Of(d, x) = Of(c, x) /\ Ready(d, x) = Ready(c, x)
  BY <1>4, <1>5, <1>7, <1>10 DEF Begins, Cancels, Level
<1>14. \A x : Good(d, x) = Good(c, x)
  BY <1>4, <1>7, <1>10 DEF Begins, Cancels, Level
<1>15. /\ Of(d, "close") \in {Of(c, "close"), Of(c, "close") + 1} /\ Of(d, "close") > 0
  BY <1>4, <1>5, <1>7, <1>10 DEF Begins, Cancels, Level
<1>16. Pings(d) = Pings(c)
  <2>1. b.ping_wait = c.ping_wait
    BY <1>3, <1>8 DEF Same, Fields
  <2>2. Of(b, "ping") = Of(c, "ping")
    BY <1>4, <1>5, <1>7 DEF Begins, Level
  <2> QED BY <1>10, <2>1, <2>2 DEF Cancels, Pings
<1>17. Of(c, "close") \in Nat
  BY CountTypes
<1>18. d \in Client
  BY <1>10 DEF Cancels
<1> QED BY <1>11, <1>12, <1>13, <1>14, <1>15, <1>16, <1>17, <1>18 DEF Shuts

\* The owners that log do nothing; the trade owner closes and starts a timer.
LEMMA OnErrorReports ==
  ASSUME NEW c \in Client, NEW d, d = OnError(c)
  PROVE  \E k \in {0, 1} : Reports(c, d, k) /\ (AutoReconnect(c) => k = 0)
<1>1. CASE AutoReconnect(c)
  <2>1. d = c /\ c.n_callbacks \in 0 .. Wrap - 1
    BY <1>1 DEF OnError, AutoReconnect, Client
  <2>2. (c.n_callbacks + 0) % Wrap = c.n_callbacks
    BY <2>1, WssAssumption DEF WssAssumption
  <2>3. Of(c, "close") \in Nat
    BY CountTypes
  <2>4. Reports(c, d, 0)
    BY <1>1, <2>1, <2>2, <2>3 DEF Reports, Same, SameKind
  <2> QED BY <2>4
<1>2. CASE ~AutoReconnect(c)
  <2>1. PICK b : b = Close(c)
    OBVIOUS
  <2>2. Shuts(c, b)
    BY <2>1, CloseShuts
  <2>3. b \in Client
    BY <2>2 DEF Shuts
  <2>4. PICK t \in 0 .. MaxSpins : t = (IF b.timers = MaxSpins THEN b.timers ELSE b.timers + 1)
    BY <2>3, WssAssumption DEF WssAssumption, Client
  <2>5. PICK e \in Client : e = [b EXCEPT !.timers = t]
    BY <2>3 DEF Client
  <2>6. d = e
    BY <1>2, <2>1, <2>4, <2>5 DEF OnError, AutoReconnect
  <2>7. Same(b, d, {"timers"})
    BY <2>3, <2>5, <2>6 DEF Same, Fields, Client
  <2>8. d.ready = b.ready /\ d.pending = b.pending
    BY <2>7 DEF Same, Fields
  <2>9. Level(b, d)
    BY <2>8, LevelIs
  <2>10. d.n_callbacks = b.n_callbacks /\ d.overlap = b.overlap /\ d.status = b.status
         /\ d.ping_wait = b.ping_wait
    BY <2>7 DEF Same, Fields
  <2>11. Same(c, d, {"n_callbacks", "pending", "ready", "overlap", "status", "stopping", "ping_wait",
                 "timers", "reconnect_wait"})
    BY <2>2, <2>7 DEF Shuts, Same
  <2>12. Pings(d) = Pings(c) /\ SameKind(c, d)
    BY <2>2, <2>9, <2>10 DEF Shuts, Level, Pings, SameKind, Alive
  <2>13. /\ d \in Client /\ d.n_callbacks = (c.n_callbacks + 1) % Wrap /\ (d.overlap => c.overlap)
         /\ \A x : x \notin {"close", "ping"} => Of(d, x) = Of(c, x) /\ Ready(d, x) = Ready(c, x)
         /\ \A x : Good(d, x) = Good(c, x)
         /\ Of(d, "close") >= Of(c, "close") /\ Of(d, "close") <= Of(c, "close") + 1
         /\ Of(d, "close") > 0
    BY <2>2, <2>5, <2>6, <2>9, <2>10 DEF Shuts, Level
  <2>14. d.reconnect_wait = c.reconnect_wait
    BY <2>2, <2>7 DEF Shuts, Same, Fields
  <2>15. Reports(c, d, 1)
    BY <1>2, <2>11, <2>12, <2>13, <2>14 DEF Reports
  <2> QED BY <1>2, <2>15
<1> QED BY <1>1, <1>2

\* Where the library reconnects, the wait for it counts as well.
LEMMA ErrorIsReported ==
  ASSUME NEW c \in Client, NEW d, d = ProcessError(c)
  PROVE  \E k \in {0, 1} : Reports(c, d, k) /\ (AutoReconnect(c) /\ c.stopping => k = 0)
<1>1. PICK b : b = OnError(c)
  OBVIOUS
<1>2. PICK k \in {0, 1} : Reports(c, b, k) /\ (AutoReconnect(c) => k = 0)
  BY <1>1, OnErrorReports
<1>3. CASE ~AutoReconnect(c)
  BY <1>1, <1>2, <1>3 DEF ProcessError
<1>4. CASE AutoReconnect(c) /\ c.stopping
  <2>1. b = c
    BY <1>1, <1>4 DEF OnError, AutoReconnect
  <2>2. d = b
    BY <1>1, <1>4, <2>1 DEF ProcessError, StartReconnect
  <2> QED BY <1>2, <1>4, <2>2
<1>5. CASE AutoReconnect(c) /\ ~c.stopping
  <2>1. b = c
    BY <1>1, <1>5 DEF OnError, AutoReconnect
  <2>2. PICK n \in 0 .. Wrap - 1 : n = (c.n_callbacks + 1) % Wrap
    <3>1. c.n_callbacks + 1 \in Int
      BY DEF Client
    <3> QED BY <3>1, Modulo
  <2>3. PICK e \in Client : e = [c EXCEPT !.n_callbacks = n, !.reconnect_wait = TRUE]
    BY DEF Client
  <2>4. d = e
    BY <1>1, <1>5, <2>1, <2>2, <2>3 DEF ProcessError, StartReconnect
  <2>5. Same(c, e, {"n_callbacks", "reconnect_wait"}) /\ e.n_callbacks = n
    BY <2>3 DEF Same, Fields, Client
  <2>6. e.ready = c.ready /\ e.pending = c.pending /\ e.overlap = c.overlap /\ e.status = c.status
        /\ e.ping_wait = c.ping_wait /\ e.stopping = c.stopping /\ e.timers = c.timers
    BY <2>5 DEF Same, Fields
  <2>7. Level(c, e)
    BY <2>6, LevelIs
  <2>8. Of(c, "close") \in Nat
    BY CountTypes
  <2>9. Same(c, e, {"n_callbacks", "pending", "ready", "overlap", "status", "stopping", "ping_wait",
                 "timers", "reconnect_wait"})
    BY <2>5 DEF Same
  <2>10. Pings(e) = Pings(c) /\ SameKind(c, e)
    BY <2>6, <2>7 DEF Level, Pings, SameKind, Alive
  <2>11. Reports(c, e, 1)
    BY <1>5, <2>2, <2>5, <2>6, <2>7, <2>8, <2>9, <2>10 DEF Reports, Level
  <2> QED BY <1>5, <2>4, <2>11
<1> QED BY <1>3, <1>4, <1>5

\* send: its message waits behind a write that is under way.
LEMMA SendIs ==
  ASSUME NEW c \in Client, NEW d, d = Send(c)
  PROVE  \E b \in Client :
           /\ Same(c, b, {"unsent", "m_writing"}) /\ b.unsent = (c.unsent + 1) % Wrap /\ b.m_writing
           /\ Level(c, b)
           /\ IF c.m_writing THEN d = b ELSE Begins(b, d, "write")
<1>1. PICK u \in 0 .. Wrap - 1 : u = (c.unsent + 1) % Wrap
  BY CountedModulo
<1>2. PICK b \in Client : b = [c EXCEPT !.unsent = u, !.m_writing = TRUE]
  BY DEF Client
<1>3. Same(c, b, {"unsent", "m_writing"}) /\ b.unsent = u /\ b.m_writing
  BY <1>2 DEF Same, Fields, Client
<1>4. Level(c, b)
  <2>1. b.ready = c.ready /\ b.pending = c.pending
    BY <1>3 DEF Same, Fields
  <2> QED BY <2>1, LevelIs
<1>5. CASE c.m_writing
  <2>1. d = b
    BY <1>1, <1>2, <1>5 DEF Send, SendNext, Client
  <2> QED BY <1>1, <1>3, <1>4, <1>5, <2>1
<1>6. CASE ~c.m_writing
  <2>1. PICK op \in StreamOps : op = "write"
    BY DEF StreamOps
  <2>2. d = Async(b, op)
    BY <1>1, <1>2, <1>6, <2>1 DEF Send, SendNext, Client
  <2>3. Begins(b, d, op)
    BY <2>2, AsyncBegins
  <2> QED BY <1>1, <1>3, <1>4, <1>6, <2>1, <2>3
<1> QED BY <1>5, <1>6

\* receive: no second read begins.
LEMMA ReceiveIs ==
  ASSUME NEW c \in Client, NEW d, d = Receive(c)
  PROVE  IF c.m_reading THEN d = c
         ELSE \E b \in Client : /\ Same(c, b, {"m_reading"}) /\ b.m_reading /\ Level(c, b)
                                /\ Begins(b, d, "read")
<1>1. CASE c.m_reading
  BY <1>1 DEF Receive
<1>2. CASE ~c.m_reading
  <2>1. PICK b \in Client : b = [c EXCEPT !.m_reading = TRUE]
    BY DEF Client
  <2>2. Same(c, b, {"m_reading"}) /\ b.m_reading
    BY <2>1 DEF Same, Fields, Client
  <2>3. b.ready = c.ready /\ b.pending = c.pending
    BY <2>2 DEF Same, Fields
  <2>4. Level(c, b)
    BY <2>3, LevelIs
  <2>5. PICK op \in StreamOps : op = "read"
    BY DEF StreamOps
  <2>6. d = Async(b, op)
    BY <1>2, <2>1, <2>5 DEF Receive
  <2>7. Begins(b, d, op)
    BY <2>6, AsyncBegins
  <2> QED BY <1>2, <2>2, <2>4, <2>5, <2>7
<1> QED BY <1>1, <1>2

-----------------------------------------------------------------------------
(* Messages and n_callbacks                                                 *)

\* The messages that wait are few, the one that an expired ping timer is about
\* to send included.
Messages(c) == Good(c, "ping") <= 1 /\ c.unsent + Good(c, "ping") <= MaxUnsent + 1

\* Attempts to connect that are under way, and what on_close waits for.
Steps(c) ==
  c.resolving + Of(c, "resolve") + Of(c, "connect") + Of(c, "ssl") + Of(c, "handshake")
Count(c) == Steps(c) + Of(c, "read") + Of(c, "write") + Of(c, "close") + Of(c, "shutdown")

\* The handshake is not over yet.
Connecting(c) == Steps(c) > Ready(c, "handshake")

\* How many handlers may have raised n_callbacks for good, or will lower it: a
\* ping that finds no connection fails, and leaves its message; on a connection
\* there is one writer; when it is lost, pings fail again.
Allowed(c) ==
  IF Connecting(c) THEN c.unsent
  ELSE IF Alive(c) THEN MaxUnsent + 1 + One(c.m_writing /\ Ready(c, "write") = Good(c, "write"))
  ELSE MaxUnsent + 2 + c.unsent - Good(c, "write")

\* close counts once: called by the user, or by the handler of a cancelled ping.
Closings(c) == IF AutoReconnect(c) THEN One(c.stopping) ELSE 1 - Steps(c) - Pings(c)

\* One reader and one writer, who has a message to write.
Alone(c) ==
  /\ Of(c, "read") = One(c.m_reading)
  /\ Of(c, "write") = One(c.m_writing) /\ c.unsent >= One(c.m_writing)

\* One attempt to connect at a time, and none while the stream is up, or a
\* message has been written to it.
OneAttempt(c) ==
  Steps(c) <= 1 /\ (c.status # "closed" \/ Good(c, "write") > 0 => ~Connecting(c))

\* n_callbacks counts what is under way, and does not wrap.
Counted(c) == Count(c) <= c.n_callbacks /\ c.n_callbacks <= 1 + Closings(c) + Allowed(c)

\* The trade owner's on_error closes, and closing never ends: its timers always
\* find a stream in use.
Leaving(c) ==
  AutoReconnect(c) \/
    /\ Steps(c) + Pings(c) <= 1
    /\ ~c.reconnect_wait /\ Of(c, "reconnect") = 0
    /\ c.timers > 0 \/ Of(c, "trade") > 0 => Of(c, "close") + Of(c, "shutdown") > 0

\* What holds until a stream is replaced that is still in use.
Sound(c) == ~c.early /\ ~c.overlap /\ Alone(c) /\ OneAttempt(c) /\ Counted(c) /\ Leaving(c)

\* The counts are numbers.
LEMMA Numbers ==
  ASSUME NEW c \in Client
  PROVE  /\ \A x : Of(c, x) \in Nat /\ Ready(c, x) \in Nat /\ Good(c, x) \in Nat
         /\ \A x : Good(c, x) <= Ready(c, x) /\ Of(c, x) = One(x \in c.pending) + Ready(c, x)
         /\ c.resolving \in Nat /\ c.unsent \in Nat /\ c.n_callbacks \in 0 .. Wrap - 1
         /\ c.m_reading \in BOOLEAN /\ c.m_writing \in BOOLEAN /\ c.stopping \in BOOLEAN
         /\ c.ping_wait \in BOOLEAN /\ c.reconnect_wait \in BOOLEAN /\ c.timers \in Nat
         /\ Steps(c) \in Nat /\ Pings(c) \in Nat /\ Count(c) \in Nat
<1>1. \A x : Of(c, x) \in Nat /\ Ready(c, x) \in Nat /\ Good(c, x) \in Nat
             /\ Good(c, x) <= Ready(c, x) /\ Of(c, x) = One(x \in c.pending) + Ready(c, x)
  BY CountTypes
<1>2. /\ c.resolving \in Nat /\ c.unsent \in Nat /\ c.n_callbacks \in 0 .. Wrap - 1
      /\ c.m_reading \in BOOLEAN /\ c.m_writing \in BOOLEAN /\ c.stopping \in BOOLEAN
      /\ c.ping_wait \in BOOLEAN /\ c.reconnect_wait \in BOOLEAN /\ c.timers \in Nat
  BY WssAssumption DEF Client, WssAssumption
<1>3. Steps(c) \in Nat /\ Pings(c) \in Nat
  BY <1>1, <1>2 DEF Steps, Pings, One
<1>4. Count(c) \in Nat
  BY <1>1, <1>3 DEF Count
<1> QED BY <1>1, <1>2, <1>3, <1>4

\* n_callbacks stays well below Wrap: one more handler can begin.
LEMMA Bounded ==
  ASSUME NEW c \in Client, Messages(c), Sound(c)
  PROVE  /\ c.n_callbacks + 1 \in 0 .. Wrap - 1 /\ c.unsent + 1 \in 0 .. Wrap - 1
         /\ c.unsent <= MaxUnsent + 1
<1>1. MaxUnsent \in Nat /\ Wrap \in Nat /\ Wrap > 2 * MaxUnsent + 6
  BY WssAssumption, WrapAssumption DEF WssAssumption, WrapAssumption
<1>2. c.unsent <= MaxUnsent + 1
  BY <1>1, Numbers DEF Messages
<1>3. Allowed(c) \in Int /\ Allowed(c) <= 2 * MaxUnsent + 3
  BY <1>1, <1>2, Numbers DEF Allowed, One
<1>4. Closings(c) \in Int /\ Closings(c) <= 1
  BY Numbers DEF Closings, One
<1>5. c.n_callbacks <= 2 * MaxUnsent + 5
  BY <1>1, <1>3, <1>4, Numbers DEF Sound, Counted
<1> QED BY <1>1, <1>2, <1>5, Numbers

\* Small numbers are counted exactly.
LEMMA Exact == \A n \in 0 .. Wrap - 1 : n % Wrap = n
BY WssAssumption DEF WssAssumption

\* What is under way is counted.
LEMMA UnderWayCounts ==
  ASSUME NEW c \in Client
  PROVE  UnderWay(c) <=> Count(c) > 0
<1>1. c.ready \in Seq(Entry) /\ c.pending \subseteq StreamOps
  BY DEF Client
<1>2. \A i \in DOMAIN c.ready : c.ready[i] \in Entry
  BY <1>1, LenProperties, ElementOfSeq
<1> DEFINE Kinds == {"resolve", "connect", "ssl", "handshake", "read", "write", "close", "shutdown"}
<1>3. \A i \in DOMAIN c.ready : c.ready[i][1] \notin {"reconnect", "ping", "trade"} <=> c.ready[i][1] \in Kinds
  <2>1. \A e \in Entry : e[1] \in Handlers
    BY DEF Entry
  <2>2. Handlers = Kinds \cup {"reconnect", "ping", "trade"} /\ Kinds \cap {"reconnect", "ping", "trade"} = {}
    BY DEF Handlers, StreamOps
  <2> QED BY <1>2, <2>1, <2>2
<1>4. (\E i \in DOMAIN c.ready : c.ready[i][1] \notin {"reconnect", "ping", "trade"})
        <=> \E x \in Kinds : Ready(c, x) > 0
  BY <1>3, ReadyIs DEF WaitsAny
<1>5. c.pending # {} => \E x \in StreamOps : Of(c, x) > 0
  <2> SUFFICES ASSUME NEW x \in StreamOps, x \in c.pending PROVE Of(c, x) > 0
    BY <1>1
  <2> QED BY Numbers DEF One
<1>6. \A x : Ready(c, x) > 0 => Of(c, x) > 0
  BY Numbers DEF One
<1>7. \A x : Of(c, x) > 0 => x \in c.pending \/ Ready(c, x) > 0
  BY Numbers DEF One
<1>8. UnderWay(c) <=> c.pending # {} \/ c.resolving > 0 \/ \E x \in Kinds : Ready(c, x) > 0
  BY <1>4 DEF UnderWay
<1>9. Count(c) > 0 <=> c.resolving > 0 \/ \E x \in Kinds : Of(c, x) > 0
  BY Numbers DEF Count, Steps
<1>10. StreamOps \subseteq Kinds
  BY DEF StreamOps
<1> QED BY <1>5, <1>6, <1>7, <1>8, <1>9, <1>10

\* leave_callback, when more is counted than is under way: on_close is not
\* called too early.
LEMMA LeavesInTime ==
  ASSUME NEW c \in Client, NEW d, Leaves(c, d), c.n_callbacks > Count(c)
  PROVE  d.n_callbacks = c.n_callbacks - 1 /\ (d.early => c.early)
<1>1. c.n_callbacks - 1 \in 0 .. Wrap - 1 /\ Count(c) \in Nat
  BY Numbers, WssAssumption DEF WssAssumption
<1>2. d.n_callbacks = c.n_callbacks - 1
  BY <1>1, Exact DEF Leaves
<1>3. UnderWay(c) => d.n_callbacks # 0
  BY <1>1, <1>2, UnderWayCounts, Numbers
<1> QED BY <1>2, <1>3 DEF Leaves

-----------------------------------------------------------------------------
(* Handlers                                                                 *)

\* d is c once the handler op has been taken off the queue.
Takes(c, d, op, ok) ==
  /\ d \in Client /\ Same(c, d, {"ready"})
  /\ \A x : x # op => Of(d, x) = Of(c, x) /\ Ready(d, x) = Ready(c, x) /\ Good(d, x) = Good(c, x)
  /\ Of(c, op) = Of(d, op) + 1 /\ Ready(c, op) = Ready(d, op) + 1
  /\ Good(c, op) = Good(d, op) + One(ok)

\* Running a handler begins with that.
LEMMA TakenTakes ==
  ASSUME IInv, ws.ready # <<>>, NEW op, NEW ok \in BOOLEAN, Head(ws.ready) = <<op, ok>>
  PROVE  Takes(ws, Taken, op, ok)
<1>1. ws \in Client
  BY DEF IInv
<1>2. PICK c \in Client : c = Taken /\ Same(ws, c, {"ready"}) /\ CountsOneMore(c, ws, op, ok)
  BY <1>1, TakenCounts
<1>3. c.pending = ws.pending
  BY <1>2 DEF Same, Fields
<1>4. Of(ws, op) = Of(c, op) + 1
  <2>1. Ready(ws, op) = Ready(c, op) + 1 /\ Ready(c, op) \in Nat
    BY <1>2, Numbers DEF CountsOneMore
  <2> QED BY <1>3, <2>1 DEF Of, One
<1>5. \A x : x # op => Of(c, x) = Of(ws, x)
  BY <1>2, <1>3 DEF CountsOneMore, Of
<1>6. Takes(ws, c, op, ok)
  BY <1>2, <1>4, <1>5 DEF Takes, CountsOneMore
<1> QED BY <1>2, <1>6

\* A handler that reports an error and leaves: its operation has ended.
LEMMA FailureSound ==
  ASSUME NEW c \in Client, Sound(c), Messages(c),
         NEW op \in {"resolve", "connect", "ssl", "handshake", "read", "write", "close", "shutdown"},
         NEW t, Takes(c, t, op, FALSE),
         NEW a \in Client, Same(t, a, {"m_reading", "m_writing"}), Level(t, a),
         a.m_reading <=> c.m_reading /\ op # "read",
         a.m_writing <=> c.m_writing /\ op # "write",
         NEW k \in {0, 1}, NEW b, Reports(a, b, k), NEW d, Leaves(b, d)
  PROVE  Sound(d)
<1>1. b \in Client /\ d \in Client /\ t \in Client
  BY DEF Reports, Leaves, Takes
<1>2. /\ a.owner = c.owner /\ a.resolving = c.resolving /\ a.unsent = c.unsent /\ a.status = c.status
      /\ a.n_callbacks = c.n_callbacks /\ a.early = c.early /\ a.overlap = c.overlap
      /\ a.stopping = c.stopping /\ a.ping_wait = c.ping_wait /\ a.reconnect_wait = c.reconnect_wait
      /\ a.timers = c.timers
  BY DEF Takes, Same, Fields
<1>3. /\ b.owner = c.owner /\ b.resolving = c.resolving /\ b.unsent = c.unsent
      /\ b.early = c.early /\ b.m_reading = a.m_reading /\ b.m_writing = a.m_writing
      /\ (b.overlap => c.overlap)
  BY <1>2 DEF Reports, Same, Fields
<1>4. /\ d.owner = c.owner /\ d.resolving = c.resolving /\ d.unsent = c.unsent
      /\ d.m_reading = a.m_reading /\ d.m_writing = a.m_writing /\ d.overlap = b.overlap
      /\ d.status = b.status /\ d.stopping = b.stopping /\ d.timers = b.timers
      /\ d.reconnect_wait = b.reconnect_wait /\ d.ping_wait = b.ping_wait
  BY <1>3 DEF Leaves, Same, Fields
<1>5. /\ \A x : x \notin {op, "close", "ping"} => Of(d, x) = Of(c, x) /\ Ready(d, x) = Ready(c, x)
      /\ \A x : x # op => Good(d, x) = Good(c, x)
      /\ op \notin {"close"} => Of(d, op) + 1 = Of(c, op) /\ Ready(d, op) + 1 = Ready(c, op)
      /\ Good(d, op) = Good(c, op)
  BY <1>1, Numbers DEF Takes, Level, Reports, Leaves, One
<1>6. /\ Of(d, "close") <= Of(t, "close") + k
      /\ Of(t, "close") = Of(c, "close") - (IF op = "close" THEN 1 ELSE 0)
  BY <1>1, Numbers DEF Takes, Level, Reports, Leaves, One
<1>7. Pings(d) = Pings(c)
  BY <1>2, <1>4 DEF Takes, Level, Reports, Leaves, Pings
<1>8. Steps(d) = Steps(c) - (IF op \in {"resolve", "connect", "ssl", "handshake"} THEN 1 ELSE 0)
  <2>1. /\ "resolve" # op => Of(d, "resolve") = Of(c, "resolve")
        /\ "connect" # op => Of(d, "connect") = Of(c, "connect")
        /\ "ssl" # op => Of(d, "ssl") = Of(c, "ssl")
        /\ "handshake" # op => Of(d, "handshake") = Of(c, "handshake")
    BY <1>5
  <2>2. /\ Of(d, "resolve") \in Nat /\ Of(d, "connect") \in Nat /\ Of(d, "ssl") \in Nat
        /\ Of(d, "handshake") \in Nat /\ c.resolving \in Nat /\ d.resolving = c.resolving
    BY <1>1, <1>4, Numbers
  <2>3. CASE op \notin {"resolve", "connect", "ssl", "handshake"}
    BY <2>1, <2>2, <2>3 DEF Steps
  <2>4. CASE op \in {"resolve", "connect", "ssl", "handshake"}
    <3>1. Of(c, op) = Of(d, op) + 1
      BY <1>1, <1>5, <2>4, Numbers
    <3> QED BY <2>1, <2>2, <2>4, <3>1 DEF Steps
  <2> QED BY <2>3, <2>4
<1>9. Count(d) <= Count(c) - 1 + k
  BY <1>1, <1>5, <1>6, <1>8, Numbers DEF Count
<1>10. b.n_callbacks = c.n_callbacks + k
  BY <1>2, Bounded, Exact, Numbers DEF Reports
<1>11. Count(b) = Count(d)
  BY <1>4, <1>3 DEF Count, Steps, Leaves, Level
<1>12. d.n_callbacks = c.n_callbacks + k - 1 /\ ~d.early /\ ~d.overlap
  <2>1. b.n_callbacks > Count(b)
    BY <1>1, <1>9, <1>10, <1>11, Numbers DEF Sound, Counted
  <2>2. d.n_callbacks = b.n_callbacks - 1 /\ (d.early => b.early)
    BY <1>1, <2>1, LeavesInTime
  <2> QED BY <1>1, <1>3, <1>4, <1>10, <2>2, Numbers DEF Sound
<1>13. Alone(d)
  <2>1. Of(c, "read") = One(c.m_reading) /\ Of(c, "write") = One(c.m_writing)
        /\ c.unsent >= One(c.m_writing)
    BY DEF Sound, Alone
  <2>2. Of(d, "read") = One(d.m_reading)
    BY <1>1, <1>4, <1>5, <2>1, Numbers DEF One
  <2>3. Of(d, "write") = One(d.m_writing) /\ d.unsent >= One(d.m_writing)
    BY <1>1, <1>4, <1>5, <2>1, Numbers DEF One
  <2> QED BY <2>2, <2>3 DEF Alone
<1>14. SameKind(c, d)
  BY <1>2, <1>4 DEF Reports, SameKind, Alive
<1>15. Connecting(d) => Connecting(c)
  BY <1>1, <1>5, <1>8, Numbers DEF Connecting
<1>16. OneAttempt(d)
  <2>1. Good(d, "write") = Good(c, "write")
    BY <1>5
  <2> QED BY <1>1, <1>8, <1>14, <1>15, <2>1, Numbers DEF Sound, OneAttempt, SameKind
<1>17. Closings(d) >= Closings(c) /\ Closings(c) \in Int /\ Closings(d) \in Int
  <2>1. AutoReconnect(c) => d.stopping = c.stopping
    BY <1>2, <1>4 DEF Reports, AutoReconnect
  <2> QED BY <1>1, <1>4, <1>7, <1>8, <2>1, Numbers DEF Closings, AutoReconnect, One
<1>18. Allowed(d) >= Allowed(c) /\ Allowed(c) \in Int /\ Allowed(d) \in Int
  <2>1. MaxUnsent \in Nat /\ c.unsent <= MaxUnsent + 1 /\ c.unsent >= 0
    BY Bounded, WssAssumption, Numbers DEF WssAssumption, Sound, Alone, One
  <2>2. Good(d, "write") <= 1
    BY <1>1, <1>13, Numbers DEF Alone, One
  <2>3. CASE Connecting(c)
    BY <1>1, <1>4, <2>1, <2>2, <2>3, Numbers DEF Allowed, One
  <2>4. CASE ~Connecting(c) /\ ~Alive(c)
    <3>1. Good(d, "write") = Good(c, "write")
      BY <1>5
    <3> QED BY <1>1, <1>4, <1>14, <1>15, <2>1, <2>4, <3>1, Numbers DEF Allowed, SameKind
  <2>5. CASE ~Connecting(c) /\ Alive(c)
    <3>1. op # "write" => Ready(d, "write") = Ready(c, "write") /\ d.m_writing = c.m_writing
      <4>1. op # "write" => (a.m_writing <=> c.m_writing)
        OBVIOUS
      <4>2. a.m_writing \in BOOLEAN /\ c.m_writing \in BOOLEAN
        BY Numbers
      <4> QED BY <1>4, <1>5, <4>1, <4>2
    <3>2. op = "write" => Ready(c, "write") # Good(c, "write") /\ ~d.m_writing
      BY <1>1, <1>4, <1>5, <1>13, Numbers DEF Alone, One
    <3>3. Good(d, "write") = Good(c, "write")
      BY <1>5
    <3> QED BY <1>1, <1>4, <1>14, <1>15, <2>1, <2>5, <3>1, <3>2, <3>3, Numbers DEF Allowed, SameKind, One
  <2> QED BY <2>3, <2>4, <2>5
<1>19. Counted(d)
  BY <1>1, <1>9, <1>12, <1>17, <1>18, Numbers DEF Sound, Counted
<1>20. Leaving(d)
  <2>1. CASE AutoReconnect(c)
    BY <1>4, <2>1 DEF Leaving, AutoReconnect
  <2>2. CASE ~AutoReconnect(c)
    <3>1. /\ Steps(c) + Pings(c) <= 1 /\ ~c.reconnect_wait /\ Of(c, "reconnect") = 0
      BY <2>2 DEF Sound, Leaving
    <3>2. ~AutoReconnect(a)
      BY <1>2, <2>2 DEF AutoReconnect
    <3>3. Of(d, "close") > 0 /\ ~d.reconnect_wait
      BY <1>2, <1>4, <3>1, <3>2 DEF Reports, Leaves, Level
    <3>4. Of(d, "reconnect") = 0
      BY <1>5, <3>1
    <3>5. Steps(d) + Pings(d) <= 1
      BY <1>1, <1>7, <1>8, <3>1, Numbers
    <3>6. Of(d, "close") + Of(d, "shutdown") > 0
      BY <1>1, <3>3, Numbers
    <3> QED BY <3>3, <3>4, <3>5, <3>6 DEF Leaving
  <2> QED BY <2>1, <2>2
<1> QED BY <1>12, <1>13, <1>16, <1>19, <1>20 DEF Sound

\* From c to d, by the failure of op: its operation has ended, the error is
\* reported, and the handler leaves.
Quits(c, d, op) ==
  \E t, a, b : \E k \in {0, 1} :
    /\ Takes(c, t, op, FALSE)
    /\ a \in Client /\ Same(t, a, {"m_reading", "m_writing"}) /\ Level(t, a)
    /\ a.m_reading <=> c.m_reading /\ op # "read"
    /\ a.m_writing <=> c.m_writing /\ op # "write"
    /\ Reports(a, b, k) /\ Leaves(b, d)

\* From c to d, by the success of op: nxt begins, and the handler leaves.
Goes(c, d, op, nxt) ==
  \E t, b : Takes(c, t, op, TRUE) /\ Begins(t, b, nxt) /\ Leaves(b, d)

\* A handler that reports its error and leaves: what it counted for is over.
LEMMA QuitsSound ==
  ASSUME NEW c \in Client, Sound(c), Messages(c), NEW d,
         NEW op \in {"resolve", "connect", "ssl", "handshake", "read", "write", "close", "shutdown"},
         Quits(c, d, op)
  PROVE  Sound(d)
<1>1. PICK t, a, b : \E k \in {0, 1} :
        /\ Takes(c, t, op, FALSE)
        /\ a \in Client /\ Same(t, a, {"m_reading", "m_writing"}) /\ Level(t, a)
        /\ a.m_reading <=> c.m_reading /\ op # "read"
        /\ a.m_writing <=> c.m_writing /\ op # "write"
        /\ Reports(a, b, k) /\ Leaves(b, d)
  BY DEF Quits
<1> QED BY <1>1, FailureSound

\* The messages are not touched by that, nor is the stream replaced.
MessagesKept(c, d) ==
  /\ d.torn = c.torn
  /\ d.unsent = c.unsent /\ Good(d, "write") = Good(c, "write") /\ Good(d, "ping") = Good(c, "ping")

\* Then as few messages are waiting.
LEMMA MessagesStay ==
  ASSUME NEW c, NEW d, Messages(c), MessagesKept(c, d)
  PROVE  Messages(d)
BY DEF Messages, MessagesKept

\* A handler that quits leaves the messages alone.
LEMMA QuitsMessages ==
  ASSUME NEW c \in Client, NEW d, NEW op, Quits(c, d, op)
  PROVE  d \in Client /\ MessagesKept(c, d)
<1>1. PICK t, a, b : \E k \in {0, 1} :
        /\ Takes(c, t, op, FALSE)
        /\ a \in Client /\ Same(t, a, {"m_reading", "m_writing"}) /\ Level(t, a)
        /\ a.m_reading <=> c.m_reading /\ op # "read"
        /\ a.m_writing <=> c.m_writing /\ op # "write"
        /\ Reports(a, b, k) /\ Leaves(b, d)
  BY DEF Quits
<1>2. PICK k \in {0, 1} : Reports(a, b, k)
  BY <1>1
<1>3. d.unsent = c.unsent /\ d.torn = c.torn
  BY <1>1, <1>2 DEF Takes, Reports, Leaves, Same, Fields
<1>4. d \in Client /\ t \in Client
  BY <1>1 DEF Leaves, Takes
<1>5. \A x : Good(d, x) = Good(t, x)
  BY <1>1, <1>2 DEF Reports, Leaves, Level
<1>6. \A x : Good(t, x) = Good(c, x)
  BY <1>1, <1>4, Numbers DEF Takes, One
<1> QED BY <1>3, <1>4, <1>5, <1>6 DEF MessagesKept

\* So does one that begins the next step.
LEMMA GoesMessages ==
  ASSUME NEW c \in Client, NEW d, NEW op, NEW nxt, Goes(c, d, op, nxt), op \notin {"write", "ping"}
  PROVE  d \in Client /\ MessagesKept(c, d)
<1>1. PICK t, b : Takes(c, t, op, TRUE) /\ Begins(t, b, nxt) /\ Leaves(b, d)
  BY DEF Goes
<1>2. d.unsent = c.unsent /\ d.torn = c.torn
  BY <1>1 DEF Takes, Begins, Leaves, Same, Fields
<1>3. Good(d, "write") = Good(c, "write") /\ Good(d, "ping") = Good(c, "ping")
  BY <1>1 DEF Takes, Begins, Leaves, Level
<1>4. d \in Client
  BY <1>1 DEF Leaves
<1> QED BY <1>2, <1>3, <1>4 DEF MessagesKept

\* A phase of connecting that begins the next, a close that begins to shut the
\* connection down, and a read that begins the next.
Follows(op, nxt) ==
  \/ (op = "resolve" /\ nxt = "connect") \/ (op = "connect" /\ nxt = "ssl")
  \/ (op = "ssl" /\ nxt = "handshake") \/ (op = "close" /\ nxt = "shutdown")
  \/ (op = "read" /\ nxt = "read")

\* Then n_callbacks and what is under way stay in balance.
LEMMA GoesSound ==
  ASSUME NEW c \in Client, Sound(c), Messages(c), NEW d, NEW op, NEW nxt, Goes(c, d, op, nxt),
         Follows(op, nxt)
  PROVE  Sound(d)
<1>1. PICK t, b : Takes(c, t, op, TRUE) /\ Begins(t, b, nxt) /\ Leaves(b, d)
  BY DEF Goes
<1>2. t \in Client /\ b \in Client /\ d \in Client
  BY <1>1 DEF Takes, Begins, Leaves
<1>3. \/ (op = "resolve" /\ nxt = "connect") \/ (op = "connect" /\ nxt = "ssl")
      \/ (op = "ssl" /\ nxt = "handshake") \/ (op = "close" /\ nxt = "shutdown")
      \/ (op = "read" /\ nxt = "read")
  BY DEF Follows
<1>4. /\ d.owner = c.owner /\ d.resolving = c.resolving /\ d.unsent = c.unsent
      /\ d.m_reading = c.m_reading /\ d.m_writing = c.m_writing /\ d.stopping = c.stopping
      /\ d.timers = c.timers /\ d.ping_wait = c.ping_wait /\ d.reconnect_wait = c.reconnect_wait
  BY <1>1 DEF Takes, Begins, Leaves, Same, Fields
<1>5. /\ t.n_callbacks = c.n_callbacks /\ t.status = c.status /\ t.early = c.early
      /\ t.overlap = c.overlap /\ t.pending = c.pending
  BY <1>1 DEF Takes, Same, Fields
<1>6. b.early = c.early /\ d.overlap = b.overlap /\ d.status = b.status
  BY <1>1, <1>5 DEF Begins, Leaves, Same, Fields
<1>7. /\ \A x : x \notin {op, nxt} => Of(d, x) = Of(c, x) /\ Ready(d, x) = Ready(c, x)
      /\ \A x : x # op => Good(d, x) = Good(c, x)
  BY <1>1 DEF Takes, Begins, Leaves, Level
<1>8. SameKind(c, d)
  BY <1>1, <1>5, <1>6 DEF Begins, SameKind, Alive
<1>9. Alone(c) /\ OneAttempt(c) /\ Counted(c) /\ Leaving(c) /\ ~c.early /\ ~c.overlap
  BY DEF Sound
<1>10. b.n_callbacks = c.n_callbacks + 1
  BY <1>1, <1>5, Bounded, Exact DEF Begins
<1>11. Pings(d) = Pings(c) /\ Good(d, "write") = Good(c, "write")
  BY <1>3, <1>4, <1>7 DEF Pings
<1>12. /\ Steps(d) = Steps(c) /\ Count(d) <= Count(c)
       /\ Of(d, "read") = Of(c, "read") /\ Of(d, "write") = Of(c, "write")
       /\ (op = "close" \/ Of(d, "close") = Of(c, "close"))
       /\ (op = "close" => Of(d, "shutdown") > 0)
       /\ (op # "close" => Of(d, "shutdown") = Of(c, "shutdown"))
       /\ (op \in {"resolve", "connect", "ssl"} => Connecting(c))
  <2>1. /\ \A x : x # op => Of(t, x) = Of(c, x) /\ Ready(t, x) = Ready(c, x)
        /\ Of(c, op) = Of(t, op) + 1
    BY <1>1 DEF Takes
  <2>2. /\ \A x : x # nxt => Of(d, x) = Of(t, x) /\ Ready(d, x) = Ready(t, x)
        /\ Of(d, nxt) \in {Of(t, nxt), Of(t, nxt) + 1} /\ Of(d, nxt) > 0
        /\ (Of(t, nxt) = 0 => Of(d, nxt) = 1)
    BY <1>1 DEF Begins, Leaves, Level
  <2>3. /\ Of(c, "resolve") \in Nat /\ Of(c, "connect") \in Nat /\ Of(c, "ssl") \in Nat
        /\ Of(c, "handshake") \in Nat /\ Of(c, "read") \in Nat /\ Of(c, "write") \in Nat
        /\ Of(c, "close") \in Nat /\ Of(c, "shutdown") \in Nat /\ c.resolving \in Nat
        /\ Of(t, op) \in Nat /\ Ready(c, "handshake") <= Of(c, "handshake")
        /\ Ready(c, "handshake") \in Nat
    BY <1>2, Numbers DEF One
  <2>4. Steps(c) <= 1
    BY <1>9 DEF OneAttempt
  <2>10. op \in {"resolve", "connect", "ssl"} /\ nxt # "read" =>
           /\ Of(d, "read") = Of(c, "read") /\ Of(d, "write") = Of(c, "write")
           /\ Of(d, "close") = Of(c, "close") /\ Of(d, "shutdown") = Of(c, "shutdown")
    BY <1>3, <1>7
  <2>11. Steps(c) = 1 /\ Of(c, "handshake") = 0 => Connecting(c)
    BY <2>3 DEF Connecting
  <2>12. Steps(c) \in Nat
    BY Numbers
  <2>5. CASE op = "resolve" /\ nxt = "connect"
    <3>1. Of(c, "connect") = 0 /\ c.resolving = 0 /\ Of(c, "resolve") = 1 /\ Of(c, "ssl") = 0
          /\ Of(c, "handshake") = 0 /\ Of(t, "resolve") = 0
      BY <2>1, <2>3, <2>4, <2>5 DEF Steps
    <3>2. Of(d, "connect") = 1 /\ Of(d, "resolve") = 0 /\ Of(d, "ssl") = 0 /\ Of(d, "handshake") = 0
      BY <2>1, <2>2, <2>5, <3>1
    <3>3. Steps(d) = Steps(c)
      BY <1>4, <3>1, <3>2 DEF Steps
    <3>4. Steps(c) = 1
      BY <3>1 DEF Steps
    <3> QED BY <2>3, <2>5, <2>10, <2>11, <3>1, <3>3, <3>4 DEF Count
  <2>6. CASE op = "connect" /\ nxt = "ssl"
    <3>1. Of(c, "connect") = 1 /\ c.resolving = 0 /\ Of(c, "resolve") = 0 /\ Of(c, "ssl") = 0
          /\ Of(c, "handshake") = 0 /\ Of(t, "connect") = 0
      BY <2>1, <2>3, <2>4, <2>6 DEF Steps
    <3>2. Of(d, "connect") = 0 /\ Of(d, "resolve") = 0 /\ Of(d, "ssl") = 1 /\ Of(d, "handshake") = 0
      BY <2>1, <2>2, <2>6, <3>1
    <3>3. Steps(d) = Steps(c)
      BY <1>4, <3>1, <3>2 DEF Steps
    <3>4. Steps(c) = 1
      BY <3>1 DEF Steps
    <3> QED BY <2>3, <2>6, <2>10, <2>11, <3>1, <3>3, <3>4 DEF Count
  <2>7. CASE op = "ssl" /\ nxt = "handshake"
    <3>1. Of(c, "connect") = 0 /\ c.resolving = 0 /\ Of(c, "resolve") = 0 /\ Of(c, "ssl") = 1
          /\ Of(c, "handshake") = 0 /\ Of(t, "ssl") = 0
      BY <2>1, <2>3, <2>4, <2>7 DEF Steps
    <3>2. Of(d, "connect") = 0 /\ Of(d, "resolve") = 0 /\ Of(d, "ssl") = 0 /\ Of(d, "handshake") = 1
      BY <2>1, <2>2, <2>7, <3>1
    <3>3. Steps(d) = Steps(c)
      BY <1>4, <3>1, <3>2 DEF Steps
    <3>4. Steps(c) = 1
      BY <3>1 DEF Steps
    <3> QED BY <2>3, <2>7, <2>10, <2>11, <3>1, <3>3, <3>4 DEF Count
  <2>8. CASE op = "close" /\ nxt = "shutdown"
    <3>1. Steps(d) = Steps(c)
      BY <1>4, <1>7, <2>8 DEF Steps
    <3>2. Of(d, "close") = Of(c, "close") - 1 /\ Of(d, "shutdown") > 0
          /\ Of(d, "shutdown") \in {Of(c, "shutdown"), Of(c, "shutdown") + 1}
      BY <2>1, <2>2, <2>3, <2>8
    <3>3. Of(d, "read") = Of(c, "read") /\ Of(d, "write") = Of(c, "write")
      BY <1>7, <2>8
    <3>4. Steps(c) \in Nat
      BY Numbers
    <3> QED BY <2>3, <2>8, <3>1, <3>2, <3>3, <3>4 DEF Count
  <2>9. CASE op = "read" /\ nxt = "read"
    <3>1. Of(c, "read") = 1
      BY <1>9, <2>1, <2>3, <2>9 DEF Alone, One
    <3>2. Of(d, "read") = 1
      BY <2>1, <2>2, <2>3, <2>9, <3>1
    <3> QED BY <1>4, <1>7, <2>3, <2>9, <3>1, <3>2, Numbers DEF Count, Steps
  <2> QED BY <1>3, <2>5, <2>6, <2>7, <2>8, <2>9
<1>13. ~b.overlap
  <2>1. op = "read" => "read" \notin t.pending
    <3>1. Of(c, "read") <= 1 /\ Of(t, "read") \in Nat /\ Of(t, "read") = One("read" \in t.pending) + Ready(t, "read")
          /\ Ready(t, "read") \in Nat
      BY <1>2, <1>9, Numbers DEF Alone, One
    <3>2. op = "read" => Of(c, "read") = Of(t, "read") + 1
      BY <1>1 DEF Takes
    <3> QED BY <3>1, <3>2 DEF One
  <2>2. b.overlap => t.overlap \/ (nxt \in {"read", "write"} /\ nxt \in t.pending)
    BY <1>1 DEF Begins
  <2> QED BY <1>3, <1>5, <1>9, <2>1, <2>2
<1>14. d.n_callbacks = c.n_callbacks /\ ~d.early /\ ~d.overlap
  <2>1. Count(b) = Count(d)
    <3>1. b.resolving = d.resolving
      BY <1>1 DEF Leaves, Same, Fields
    <3> QED BY <1>1, <3>1 DEF Leaves, Level, Count, Steps
  <2>2. b.n_callbacks > Count(b)
    BY <1>2, <1>9, <1>10, <1>12, <2>1, Numbers DEF Counted
  <2>3. d.n_callbacks = b.n_callbacks - 1 /\ (d.early => b.early)
    BY <1>1, <1>2, <2>2, LeavesInTime
  <2> QED BY <1>2, <1>6, <1>9, <1>10, <1>13, <2>3, Numbers
<1>15. Connecting(d) => Connecting(c)
  <2>1. op \notin {"resolve", "connect", "ssl"} => Ready(d, "handshake") = Ready(c, "handshake")
    BY <1>3, <1>7
  <2> QED BY <1>12, <2>1 DEF Connecting
<1>16. Alone(d)
  BY <1>4, <1>9, <1>12 DEF Alone
<1>17. OneAttempt(d)
  BY <1>8, <1>9, <1>11, <1>12, <1>15 DEF OneAttempt, SameKind
<1>18. Closings(d) = Closings(c)
  BY <1>4, <1>11, <1>12 DEF Closings, AutoReconnect
<1>19. Allowed(d) >= Allowed(c) /\ Allowed(c) \in Int /\ Allowed(d) \in Int
  <2>1. Ready(d, "write") = Ready(c, "write")
    BY <1>3, <1>7
  <2>2. MaxUnsent \in Nat /\ c.unsent <= MaxUnsent + 1 /\ c.unsent >= 0
    BY <1>9, Bounded, WssAssumption, Numbers DEF WssAssumption, Alone, One
  <2>3. Good(c, "write") <= 1
    BY <1>9, Numbers DEF Alone, One
  <2> QED BY <1>2, <1>4, <1>8, <1>11, <1>15, <2>1, <2>2, <2>3, Numbers DEF Allowed, SameKind, One
<1>20. Counted(d)
  <2>1. Closings(c) \in Int
    BY Numbers DEF Closings, One
  <2> QED BY <1>2, <1>9, <1>12, <1>14, <1>18, <1>19, <2>1, Numbers DEF Counted
<1>21. Leaving(d)
  <2>1. CASE AutoReconnect(c)
    BY <1>4, <2>1 DEF Leaving, AutoReconnect
  <2>2. CASE ~AutoReconnect(c)
    <3>1. Of(d, "reconnect") = Of(c, "reconnect") /\ Of(d, "trade") = Of(c, "trade")
      BY <1>3, <1>7
    <3>2. Of(c, "close") + Of(c, "shutdown") > 0 => Of(d, "close") + Of(d, "shutdown") > 0
      BY <1>2, <1>12, Numbers
    <3> QED BY <1>4, <1>9, <1>11, <1>12, <2>2, <3>1, <3>2 DEF Leaving
  <2> QED BY <2>1, <2>2
<1> QED BY <1>14, <1>16, <1>17, <1>20, <1>21 DEF Sound

\* From c to d, by the handler of a message that has been written.
Writes(c, d) ==
  \E t, e, b :
    /\ Takes(c, t, "write", TRUE)
    /\ e \in Client /\ Same(t, e, {"unsent", "m_writing"}) /\ Level(t, e)
    /\ e.unsent = (t.unsent - 1) % Wrap
    /\ IF e.unsent # 0 THEN e.m_writing = t.m_writing /\ Begins(e, b, "write")
       ELSE ~e.m_writing /\ b = e
    /\ Leaves(b, d)

\* The next one is written, if there is one.
LEMMA WritesSound ==
  ASSUME NEW c \in Client, Sound(c), Messages(c), NEW d, Writes(c, d)
  PROVE  Sound(d)
<1>1. PICK t, e, b :
        /\ Takes(c, t, "write", TRUE)
        /\ e \in Client /\ Same(t, e, {"unsent", "m_writing"}) /\ Level(t, e)
        /\ e.unsent = (t.unsent - 1) % Wrap
        /\ IF e.unsent # 0 THEN e.m_writing = t.m_writing /\ Begins(e, b, "write")
           ELSE ~e.m_writing /\ b = e
        /\ Leaves(b, d)
  BY DEF Writes
<1>2. t \in Client /\ e \in Client /\ b \in Client /\ d \in Client
  BY <1>1 DEF Takes, Begins, Leaves
<1>3. Alone(c) /\ OneAttempt(c) /\ Counted(c) /\ Leaving(c) /\ ~c.early /\ ~c.overlap
  BY DEF Sound
<1>4. /\ t.owner = c.owner /\ t.resolving = c.resolving /\ t.unsent = c.unsent
      /\ t.m_reading = c.m_reading /\ t.m_writing = c.m_writing /\ t.stopping = c.stopping
      /\ t.timers = c.timers /\ t.ping_wait = c.ping_wait /\ t.reconnect_wait = c.reconnect_wait
      /\ t.n_callbacks = c.n_callbacks /\ t.status = c.status /\ t.early = c.early
      /\ t.overlap = c.overlap /\ t.pending = c.pending
  BY <1>1 DEF Takes, Same, Fields
<1>5. /\ e.owner = c.owner /\ e.resolving = c.resolving
      /\ e.unsent = (c.unsent - 1) % Wrap /\ e.m_reading = c.m_reading /\ e.stopping = c.stopping
      /\ e.timers = c.timers /\ e.ping_wait = c.ping_wait /\ e.reconnect_wait = c.reconnect_wait
      /\ e.n_callbacks = c.n_callbacks /\ e.status = c.status /\ e.early = c.early
      /\ e.overlap = c.overlap /\ e.pending = c.pending
  BY <1>1, <1>4 DEF Same, Fields
<1>6. /\ \A x : x # "write" => Of(e, x) = Of(c, x) /\ Ready(e, x) = Ready(c, x) /\ Good(e, x) = Good(c, x)
      /\ Of(c, "write") = Of(e, "write") + 1 /\ Ready(c, "write") = Ready(e, "write") + 1
      /\ Good(c, "write") = Good(e, "write") + 1
  BY <1>1 DEF Takes, Level, One
<1>7. /\ Of(c, "write") = 1 /\ Of(e, "write") = 0 /\ Ready(c, "write") = 1 /\ Ready(e, "write") = 0
      /\ Good(c, "write") = 1 /\ Good(e, "write") = 0 /\ c.m_writing
      /\ "write" \notin c.pending /\ e.unsent = c.unsent - 1 /\ c.unsent >= 1
  <2>1. /\ Of(c, "write") = 1 /\ Of(e, "write") = 0 /\ Ready(c, "write") = 1 /\ Ready(e, "write") = 0
        /\ Good(c, "write") = 1 /\ Good(e, "write") = 0 /\ c.m_writing /\ c.unsent >= 1
        /\ "write" \notin c.pending
    BY <1>2, <1>3, <1>5, <1>6, Numbers DEF Alone, One
  <2>2. c.unsent - 1 \in 0 .. Wrap - 1
    BY <2>1, WssAssumption DEF Client, WssAssumption
  <2>3. (c.unsent - 1) % Wrap = c.unsent - 1
    BY <2>2, Exact
  <2> QED BY <1>5, <2>1, <2>3
<1>8. ~Connecting(c) /\ ~Connecting(e)
  <2>1. ~Connecting(c)
    BY <1>3, <1>7 DEF OneAttempt
  <2> QED BY <1>5, <1>6, <2>1 DEF Connecting, Steps
<1>9. MaxUnsent \in Nat /\ Closings(c) \in Int
  BY WssAssumption, Numbers DEF WssAssumption, Closings, One
<1>10. /\ Alive(c) => Allowed(c) = MaxUnsent + 2
       /\ ~Alive(c) => Allowed(c) = MaxUnsent + 1 + c.unsent
  BY <1>2, <1>7, <1>8, <1>9, Numbers DEF Allowed, One
<1>11. CASE e.unsent # 0
  <2>1. e.m_writing /\ Begins(e, b, "write")
    BY <1>1, <1>4, <1>7, <1>11
  <2>2. /\ d.owner = c.owner /\ d.resolving = c.resolving /\ d.unsent = c.unsent - 1
        /\ d.m_reading = c.m_reading /\ d.m_writing /\ d.stopping = c.stopping
        /\ d.timers = c.timers /\ d.ping_wait = c.ping_wait /\ d.reconnect_wait = c.reconnect_wait
        /\ b.early = c.early /\ d.overlap = b.overlap /\ d.status = b.status
        /\ d.resolving = b.resolving
    BY <1>1, <1>5, <1>7, <2>1 DEF Begins, Leaves, Same, Fields
  <2>3. /\ \A x : x # "write" => Of(d, x) = Of(c, x) /\ Ready(d, x) = Ready(c, x)
        /\ Of(d, "write") = 1 /\ Good(d, "write") = 0
        /\ (Possible(e, "write") => Ready(d, "write") = 0)
    BY <1>1, <1>6, <1>7, <2>1 DEF Begins, Leaves, Level
  <2>4. SameKind(c, d) /\ ~d.overlap
    BY <1>3, <1>5, <1>7, <2>1, <2>2 DEF Begins, SameKind, Alive
  <2>5. Steps(d) = Steps(c) /\ Pings(d) = Pings(c) /\ ~Connecting(d)
    BY <1>8, <2>2, <2>3 DEF Steps, Pings, Connecting
  <2>6. Count(d) = Count(c)
    BY <1>7, <2>3, <2>5 DEF Count
  <2>7. b.n_callbacks = c.n_callbacks + 1
    BY <1>5, <2>1, Bounded, Exact DEF Begins
  <2>8. Count(b) = Count(d)
    BY <1>1, <2>2 DEF Leaves, Level, Count, Steps
  <2>9. d.n_callbacks = c.n_callbacks /\ ~d.early
    <3>1. b.n_callbacks > Count(b)
      BY <1>2, <1>3, <2>6, <2>7, <2>8, Numbers DEF Counted
    <3>2. d.n_callbacks = b.n_callbacks - 1 /\ (d.early => b.early)
      BY <1>1, <1>2, <3>1, LeavesInTime
    <3> QED BY <1>2, <1>3, <2>2, <2>7, <3>2, Numbers
  <2>10. Allowed(d) = Allowed(c) /\ Allowed(c) \in Int
    <3>1. Alive(c) => Possible(e, "write")
      BY <1>5 DEF Possible, Alive
    <3> QED BY <1>2, <1>7, <1>9, <1>10, <2>2, <2>3, <2>4, <2>5, <3>1, Numbers DEF Allowed, SameKind, One
  <2>11. Closings(d) = Closings(c)
    BY <2>2, <2>5 DEF Closings, AutoReconnect
  <2>12. Counted(d)
    BY <1>3, <2>6, <2>9, <2>10, <2>11 DEF Counted
  <2>13. Alone(d)
    BY <1>2, <1>3, <1>5, <1>7, <1>11, <2>2, <2>3, Numbers DEF Alone, One
  <2>14. OneAttempt(d)
    BY <1>3, <2>5 DEF OneAttempt
  <2>15. Leaving(d)
    BY <1>3, <2>2, <2>3, <2>5 DEF Leaving, AutoReconnect
  <2> QED BY <2>4, <2>9, <2>12, <2>13, <2>14, <2>15 DEF Sound
<1>12. CASE e.unsent = 0
  <2>1. ~e.m_writing /\ Leaves(e, d)
    BY <1>1, <1>12
  <2>2. /\ d.owner = c.owner /\ d.resolving = c.resolving /\ d.unsent = 0
        /\ d.m_reading = c.m_reading /\ ~d.m_writing /\ d.stopping = c.stopping
        /\ d.timers = c.timers /\ d.ping_wait = c.ping_wait /\ d.reconnect_wait = c.reconnect_wait
        /\ d.overlap = c.overlap /\ d.status = c.status
    BY <1>5, <1>12, <2>1 DEF Leaves, Same, Fields
  <2>3. /\ \A x : x # "write" => Of(d, x) = Of(c, x) /\ Ready(d, x) = Ready(c, x)
        /\ Of(d, "write") = 0 /\ Good(d, "write") = 0 /\ Ready(d, "write") = 0
    BY <1>6, <1>7, <2>1 DEF Leaves, Level
  <2>4. SameKind(c, d)
    BY <2>2 DEF SameKind, Alive
  <2>5. Steps(d) = Steps(c) /\ Pings(d) = Pings(c) /\ ~Connecting(d)
    BY <1>8, <2>2, <2>3 DEF Steps, Pings, Connecting
  <2>6. Count(d) = Count(c) - 1
    BY <1>2, <1>7, <2>3, <2>5, Numbers DEF Count
  <2>8. Count(e) = Count(d)
    BY <1>5, <2>1, <2>2 DEF Leaves, Level, Count, Steps
  <2>9. d.n_callbacks = c.n_callbacks - 1 /\ ~d.early
    <3>1. e.n_callbacks > Count(e)
      BY <1>2, <1>3, <1>5, <2>6, <2>8, Numbers DEF Counted
    <3>2. d.n_callbacks = e.n_callbacks - 1 /\ (d.early => e.early)
      BY <1>2, <2>1, <3>1, LeavesInTime
    <3> QED BY <1>3, <1>5, <3>2
  <2>10. Allowed(d) >= Allowed(c) - 1 /\ Allowed(c) \in Int /\ Allowed(d) \in Int
    BY <1>2, <1>5, <1>7, <1>9, <1>10, <1>12, <2>2, <2>3, <2>4, <2>5, Numbers DEF Allowed, SameKind, One
  <2>11. Closings(d) = Closings(c)
    BY <2>2, <2>5 DEF Closings, AutoReconnect
  <2>12. Counted(d)
    BY <1>2, <1>3, <1>9, <2>6, <2>9, <2>10, <2>11, Numbers DEF Counted
  <2>13. Alone(d)
    BY <1>2, <1>3, <2>2, <2>3, Numbers DEF Alone, One
  <2>14. OneAttempt(d)
    BY <1>3, <2>5 DEF OneAttempt
  <2>15. Leaving(d)
    BY <1>3, <2>2, <2>3, <2>5 DEF Leaving, AutoReconnect
  <2> QED BY <1>3, <2>2, <2>9, <2>12, <2>13, <2>14, <2>15 DEF Sound
<1> QED BY <1>11, <1>12

\* A message that had been written is no longer waiting.
LEMMA WritesMessages ==
  ASSUME NEW c \in Client, NEW d, Writes(c, d)
  PROVE  d \in Client /\ d.torn = c.torn /\ (Messages(c) /\ Sound(c) => Messages(d))
<1>1. PICK t, e, b :
        /\ Takes(c, t, "write", TRUE)
        /\ e \in Client /\ Same(t, e, {"unsent", "m_writing"}) /\ Level(t, e)
        /\ e.unsent = (t.unsent - 1) % Wrap
        /\ IF e.unsent # 0 THEN e.m_writing = t.m_writing /\ Begins(e, b, "write")
           ELSE ~e.m_writing /\ b = e
        /\ Leaves(b, d)
  BY DEF Writes
<1>2. d \in Client /\ t \in Client
  BY <1>1 DEF Leaves, Takes
<1>3. t.unsent = c.unsent /\ t.torn = c.torn
  BY <1>1 DEF Takes, Same, Fields
<1>4. d.unsent = e.unsent /\ d.torn = t.torn
  BY <1>1 DEF Begins, Leaves, Same, Fields
<1>5. \A x : Good(d, x) = Good(t, x)
  BY <1>1 DEF Begins, Leaves, Level
<1>6. Good(c, "write") = Good(t, "write") + 1 /\ Good(c, "ping") = Good(t, "ping")
  BY <1>1 DEF Takes, One
<1>7. ASSUME Messages(c), Sound(c) PROVE Messages(d)
  <2>1. Of(c, "write") > 0 /\ Of(c, "write") = One(c.m_writing) /\ c.unsent >= One(c.m_writing)
    BY <1>1, <1>2, <1>7, Numbers DEF Takes, Sound, Alone
  <2>2. c.unsent - 1 \in 0 .. Wrap - 1
    BY <2>1, WssAssumption DEF Client, WssAssumption, One
  <2>3. (c.unsent - 1) % Wrap = c.unsent - 1
    BY <2>2, Exact
  <2>4. d.unsent = c.unsent - 1
    BY <1>1, <1>3, <1>4, <2>3
  <2>5. MaxUnsent \in Nat
    BY WssAssumption DEF WssAssumption
  <2> QED BY <1>2, <1>5, <1>6, <1>7, <2>4, <2>5, Numbers DEF Messages
<1> QED BY <1>2, <1>3, <1>4, <1>7

\* From c to d, by the handler of a handshake that went well.
Opens(c, d) ==
  \E t, a, e, b :
    /\ Takes(c, t, "handshake", TRUE) /\ StartsPing(t, a)
    /\ IF a.m_reading THEN b = a
       ELSE /\ e \in Client /\ Same(a, e, {"m_reading"}) /\ e.m_reading /\ Level(a, e)
            /\ Begins(e, b, "read")
    /\ Leaves(b, d)

\* The client is connected, and reads.
LEMMA OpensSound ==
  ASSUME NEW c \in Client, Sound(c), Messages(c), NEW d, Opens(c, d)
  PROVE  Sound(d)
<1>1. PICK t, a, e, b :
        /\ Takes(c, t, "handshake", TRUE) /\ StartsPing(t, a)
        /\ IF a.m_reading THEN b = a
           ELSE /\ e \in Client /\ Same(a, e, {"m_reading"}) /\ e.m_reading /\ Level(a, e)
                /\ Begins(e, b, "read")
        /\ Leaves(b, d)
  BY DEF Opens
<1>2. t \in Client /\ a \in Client /\ b \in Client /\ d \in Client
  BY <1>1 DEF Takes, StartsPing, Begins, Leaves
<1>3. Alone(c) /\ OneAttempt(c) /\ Counted(c) /\ Leaving(c) /\ ~c.early /\ ~c.overlap
  BY DEF Sound
<1>4. /\ a.owner = c.owner /\ a.resolving = c.resolving /\ a.unsent = c.unsent
      /\ a.m_reading = c.m_reading /\ a.m_writing = c.m_writing /\ a.stopping = c.stopping
      /\ a.timers = c.timers /\ a.reconnect_wait = c.reconnect_wait
      /\ a.n_callbacks = c.n_callbacks /\ a.status = c.status /\ a.early = c.early
      /\ a.overlap = c.overlap /\ a.pending = c.pending
  BY <1>1 DEF Takes, StartsPing, Same, Fields
<1>5. /\ \A x : x \notin {"handshake", "ping"} => Of(a, x) = Of(c, x) /\ Ready(a, x) = Ready(c, x)
                                                  /\ Good(a, x) = Good(c, x)
      /\ Of(c, "handshake") = Of(a, "handshake") + 1 /\ Ready(c, "handshake") = Ready(a, "handshake") + 1
      /\ Pings(a) = Pings(c) + 1
  <2>1. t.ping_wait = c.ping_wait
    BY <1>1 DEF Takes, Same, Fields
  <2>2. Pings(t) = Pings(c)
    BY <1>1, <2>1 DEF Takes, Pings
  <2> QED BY <1>1, <2>2 DEF Takes, StartsPing
<1>6. /\ Steps(c) = 1 /\ Steps(a) = 0 /\ Ready(c, "handshake") = 1 /\ Ready(a, "handshake") = 0
      /\ Of(a, "resolve") = 0 /\ Of(a, "connect") = 0 /\ Of(a, "ssl") = 0 /\ Of(a, "handshake") = 0
      /\ a.resolving = 0
  <2>1. Of(a, "resolve") = Of(c, "resolve") /\ Of(a, "connect") = Of(c, "connect")
        /\ Of(a, "ssl") = Of(c, "ssl")
    BY <1>5
  <2>2. /\ Of(c, "resolve") \in Nat /\ Of(c, "connect") \in Nat /\ Of(c, "ssl") \in Nat
        /\ Of(a, "handshake") \in Nat /\ c.resolving \in Nat /\ Ready(a, "handshake") \in Nat
        /\ Ready(a, "handshake") <= Of(a, "handshake")
    BY <1>2, Numbers DEF One
  <2>3. Steps(c) <= 1
    BY <1>3 DEF OneAttempt
  <2> QED BY <1>4, <1>5, <2>1, <2>2, <2>3 DEF Steps
<1>7. ~Connecting(c)
  BY <1>6 DEF Connecting
<1>8. /\ d.owner = c.owner /\ d.resolving = 0 /\ d.unsent = c.unsent
      /\ d.m_writing = c.m_writing /\ d.stopping = c.stopping
      /\ d.timers = c.timers /\ d.reconnect_wait = c.reconnect_wait /\ d.ping_wait = a.ping_wait
      /\ b.early = c.early /\ d.overlap = b.overlap /\ d.status = b.status /\ d.m_reading
      /\ b.resolving = d.resolving
  <2>1. CASE a.m_reading
    BY <1>1, <1>4, <1>6, <2>1 DEF Leaves, Same, Fields
  <2>2. CASE ~a.m_reading
    BY <1>1, <1>4, <1>6, <2>2 DEF Begins, Leaves, Same, Fields
  <2> QED BY <2>1, <2>2
<1>9. /\ \A x : x # "read" => Of(d, x) = Of(a, x) /\ Ready(d, x) = Ready(a, x)
      /\ \A x : Good(d, x) = Good(a, x)
  BY <1>1 DEF Begins, Leaves, Level
<1>10. /\ Of(d, "read") = 1 /\ SameKind(c, d) /\ ~b.overlap
       /\ b.n_callbacks = c.n_callbacks + Of(d, "read") - Of(c, "read")
  <2>1. CASE a.m_reading
    <3>1. Of(c, "read") = 1 /\ Of(a, "read") = 1
      BY <1>3, <1>4, <1>5, <2>1 DEF Alone, One
    <3>2. b = a
      BY <1>1, <2>1
    <3> QED BY <1>1, <1>2, <1>3, <1>4, <1>8, <3>1, <3>2, Numbers DEF Leaves, Level, SameKind, Alive
  <2>2. CASE ~a.m_reading
    <3>1. Of(c, "read") = 0 /\ Of(a, "read") = 0 /\ Of(e, "read") = 0
      BY <1>1, <1>3, <1>4, <1>5, <2>2 DEF Alone, One, Level
    <3>2. e \in Client /\ Begins(e, b, "read") /\ Same(a, e, {"m_reading"}) /\ e.pending = a.pending
          /\ e.n_callbacks = a.n_callbacks /\ e.status = a.status /\ e.overlap = a.overlap
      BY <1>1, <2>2 DEF Same, Fields
    <3>3. "read" \notin e.pending
      BY <3>1, <3>2, Numbers DEF One
    <3>4. Of(d, "read") = 1
      BY <1>1, <3>1, <3>2 DEF Begins, Leaves, Level
    <3>5. SameKind(c, d) /\ ~b.overlap
      BY <1>3, <1>4, <1>8, <3>2, <3>3 DEF Begins, SameKind, Alive
    <3>6. b.n_callbacks = c.n_callbacks + 1
      BY <1>4, <3>2, Bounded, Exact DEF Begins
    <3> QED BY <1>2, <3>1, <3>4, <3>5, <3>6, Numbers
  <2> QED BY <2>1, <2>2
<1>11. Steps(d) = 0 /\ Pings(d) = Pings(c) + 1 /\ ~Connecting(d)
  BY <1>2, <1>5, <1>6, <1>8, <1>9, Numbers DEF Steps, Pings, Connecting
<1>12. Count(d) = Count(c) - 1 + Of(d, "read") - Of(c, "read")
  <2>1. Of(d, "write") = Of(c, "write") /\ Of(d, "close") = Of(c, "close")
        /\ Of(d, "shutdown") = Of(c, "shutdown")
    BY <1>5, <1>9
  <2> QED BY <1>2, <1>6, <1>11, <2>1, Numbers DEF Count
<1>13. Count(b) = Count(d)
  BY <1>1, <1>8 DEF Leaves, Level, Count, Steps
<1>14. d.n_callbacks = b.n_callbacks - 1 /\ ~d.early
  <2>1. b.n_callbacks > Count(b)
    BY <1>2, <1>3, <1>10, <1>12, <1>13, Numbers DEF Counted
  <2>2. d.n_callbacks = b.n_callbacks - 1 /\ (d.early => b.early)
    BY <1>1, <1>2, <2>1, LeavesInTime
  <2> QED BY <1>3, <1>8, <2>2
<1>15. Of(d, "write") = Of(c, "write") /\ Ready(d, "write") = Ready(c, "write")
       /\ Good(d, "write") = Good(c, "write")
  BY <1>5, <1>9
<1>16. Allowed(d) = Allowed(c) /\ Allowed(c) \in Int
  <2>1. MaxUnsent \in Nat
    BY WssAssumption DEF WssAssumption
  <2> QED BY <1>7, <1>8, <1>10, <1>11, <1>15, <2>1, Numbers DEF Allowed, SameKind, One
<1>17. Closings(d) = Closings(c) /\ Closings(c) \in Int
  BY <1>2, <1>6, <1>8, <1>11, Numbers DEF Closings, AutoReconnect, One
<1>18. Counted(d)
  <2>1. Of(c, "read") \in {0, 1}
    BY <1>3 DEF Alone, One
  <2> QED BY <1>2, <1>3, <1>10, <1>12, <1>14, <1>16, <1>17, <2>1, Numbers DEF Counted
<1>19. Alone(d)
  BY <1>3, <1>8, <1>10, <1>15 DEF Alone, One
<1>20. OneAttempt(d)
  BY <1>11 DEF OneAttempt
<1>21. Leaving(d)
  <2>1. CASE AutoReconnect(c)
    BY <1>8, <2>1 DEF Leaving, AutoReconnect
  <2>2. CASE ~AutoReconnect(c)
    <3>1. Of(d, "reconnect") = Of(c, "reconnect") /\ Of(d, "trade") = Of(c, "trade")
          /\ Of(d, "close") = Of(c, "close") /\ Of(d, "shutdown") = Of(c, "shutdown")
      BY <1>5, <1>9
    <3> QED BY <1>2, <1>3, <1>6, <1>8, <1>11, <2>2, <3>1, Numbers DEF Leaving
  <2> QED BY <2>1, <2>2
<1> QED BY <1>8, <1>10, <1>14, <1>18, <1>19, <1>20, <1>21 DEF Sound

\* The handshake's handler sends nothing.
LEMMA OpensMessages ==
  ASSUME NEW c \in Client, NEW d, Opens(c, d)
  PROVE  d \in Client /\ MessagesKept(c, d)
<1>1. PICK t, a, e, b :
        /\ Takes(c, t, "handshake", TRUE) /\ StartsPing(t, a)
        /\ IF a.m_reading THEN b = a
           ELSE /\ e \in Client /\ Same(a, e, {"m_reading"}) /\ e.m_reading /\ Level(a, e)
                /\ Begins(e, b, "read")
        /\ Leaves(b, d)
  BY DEF Opens
<1>2. d.unsent = c.unsent /\ d.torn = c.torn
  <2>1. a.unsent = c.unsent /\ a.torn = c.torn
    BY <1>1 DEF Takes, StartsPing, Same, Fields
  <2>2. b.unsent = a.unsent /\ b.torn = a.torn
    BY <1>1 DEF Begins, Same, Fields
  <2> QED BY <1>1, <2>1, <2>2 DEF Leaves, Same, Fields
<1>3. Good(d, "write") = Good(c, "write") /\ Good(d, "ping") = Good(c, "ping")
  BY <1>1 DEF Takes, StartsPing, Begins, Leaves, Level
<1>4. d \in Client
  BY <1>1 DEF Leaves
<1> QED BY <1>2, <1>3, <1>4 DEF MessagesKept

\* From c to d by send.
Sends(c, d) ==
  \E b \in Client :
    /\ Same(c, b, {"unsent", "m_writing"}) /\ b.unsent = (c.unsent + 1) % Wrap /\ b.m_writing
    /\ Level(c, b)
    /\ IF c.m_writing THEN d = b ELSE Begins(b, d, "write")

\* What send leaves alone, and what it adds.
LEMMA SendAddsOne ==
  ASSUME NEW c \in Client, NEW d, Sends(c, d)
  PROVE  /\ d \in Client /\ Same(c, d, {"n_callbacks", "pending", "ready", "overlap", "status", "unsent", "m_writing"})
         /\ d.unsent = (c.unsent + 1) % Wrap /\ d.m_writing /\ SameKind(c, d)
         /\ \A x : x # "write" => Of(d, x) = Of(c, x) /\ Ready(d, x) = Ready(c, x)
         /\ \A x : Good(d, x) = Good(c, x)
<1>1. PICK b \in Client :
        /\ Same(c, b, {"unsent", "m_writing"}) /\ b.unsent = (c.unsent + 1) % Wrap /\ b.m_writing
        /\ Level(c, b)
        /\ IF c.m_writing THEN d = b ELSE Begins(b, d, "write")
  BY DEF Sends
<1>2. b.status = c.status
  BY <1>1 DEF Same, Fields
<1>3. CASE c.m_writing
  BY <1>1, <1>2, <1>3 DEF Same, Level, SameKind, Alive
<1>4. CASE ~c.m_writing
  <2>1. Begins(b, d, "write")
    BY <1>1, <1>4
  <2>2. d.unsent = b.unsent /\ d.m_writing = b.m_writing
    BY <2>1 DEF Begins, Same, Fields
  <2>3. Same(c, d, {"n_callbacks", "pending", "ready", "overlap", "status", "unsent", "m_writing"})
    BY <1>1, <2>1 DEF Begins, Same
  <2> QED BY <1>1, <1>2, <2>1, <2>2, <2>3 DEF Begins, Level, SameKind, Alive
<1> QED BY <1>3, <1>4

\* It begins to write unless it is writing.
LEMMA SendSound ==
  ASSUME NEW c \in Client, Sound(c), c.n_callbacks + 1 \in 0 .. Wrap - 1,
         c.unsent + 1 \in 0 .. Wrap - 1, NEW d, Sends(c, d)
  PROVE  /\ Sound(d)
         /\ d.n_callbacks - Allowed(d) <= c.n_callbacks - Allowed(c) /\ Count(d) <= d.n_callbacks
         /\ Allowed(c) \in Int /\ Allowed(d) \in Int
<1>1. PICK b \in Client :
        /\ Same(c, b, {"unsent", "m_writing"}) /\ b.unsent = (c.unsent + 1) % Wrap /\ b.m_writing
        /\ Level(c, b)
        /\ IF c.m_writing THEN d = b ELSE Begins(b, d, "write")
  BY DEF Sends
<1>2. /\ d \in Client /\ d.unsent = c.unsent + 1 /\ d.m_writing /\ SameKind(c, d)
      /\ \A x : x # "write" => Of(d, x) = Of(c, x) /\ Ready(d, x) = Ready(c, x)
      /\ \A x : Good(d, x) = Good(c, x)
      /\ Same(c, d, {"n_callbacks", "pending", "ready", "overlap", "status", "unsent", "m_writing"})
  BY SendAddsOne, Exact
<1>3. Alone(c) /\ OneAttempt(c) /\ Counted(c) /\ Leaving(c) /\ ~c.early /\ ~c.overlap
  BY DEF Sound
<1>4. /\ d.owner = c.owner /\ d.resolving = c.resolving /\ d.m_reading = c.m_reading
      /\ d.stopping = c.stopping /\ d.timers = c.timers /\ d.ping_wait = c.ping_wait
      /\ d.reconnect_wait = c.reconnect_wait /\ d.early = c.early
  BY <1>2 DEF Same, Fields
<1>5. /\ b.n_callbacks = c.n_callbacks /\ b.pending = c.pending /\ b.overlap = c.overlap
      /\ b.status = c.status
  BY <1>1 DEF Same, Fields
<1>6. /\ Of(d, "write") = 1 /\ ~d.overlap
      /\ d.n_callbacks = c.n_callbacks + 1 - Of(c, "write")
      /\ Alive(c) => (c.m_writing /\ Ready(d, "write") = Ready(c, "write")) \/ Ready(d, "write") = 0
  <2>1. CASE c.m_writing
    <3>1. Of(c, "write") = 1 /\ d = b
      BY <1>1, <1>3, <2>1 DEF Alone, One
    <3> QED BY <1>1, <1>2, <1>3, <1>5, <2>1, <3>1, Numbers DEF Level
  <2>2. CASE ~c.m_writing
    <3>1. Of(c, "write") = 0 /\ Begins(b, d, "write") /\ Of(b, "write") = 0
      BY <1>1, <1>3, <2>2 DEF Alone, One, Level
    <3>2. "write" \notin b.pending /\ Ready(b, "write") = 0
      BY <3>1, Numbers DEF One
    <3>3. ~d.overlap /\ Of(d, "write") = 1
      BY <1>3, <1>5, <3>1, <3>2 DEF Begins
    <3>4. d.n_callbacks = c.n_callbacks + 1
      BY <1>5, <3>1, Exact DEF Begins
    <3>5. Alive(c) => Ready(d, "write") = 0
      <4>1. Alive(c) => Possible(b, "write")
        BY <1>5 DEF Possible, Alive
      <4> QED BY <3>1, <3>2, <4>1 DEF Begins
    <3> QED BY <3>1, <3>3, <3>4, <3>5, Numbers
  <2> QED BY <2>1, <2>2
<1>7. Steps(d) = Steps(c) /\ Pings(d) = Pings(c) /\ (Connecting(d) <=> Connecting(c))
  BY <1>2, <1>4 DEF Steps, Pings, Connecting
<1>8. Count(d) = Count(c) + 1 - Of(c, "write")
  <2>1. Of(d, "read") = Of(c, "read") /\ Of(d, "close") = Of(c, "close")
        /\ Of(d, "shutdown") = Of(c, "shutdown")
    BY <1>2
  <2> QED BY <1>2, <1>6, <1>7, <2>1, Numbers DEF Count
<1>9. Closings(d) = Closings(c) /\ Closings(c) \in Int
  BY <1>4, <1>7, Numbers DEF Closings, AutoReconnect, One
<1>10. /\ Allowed(d) >= Allowed(c) + 1 - Of(c, "write")
       /\ Allowed(c) \in Int /\ Allowed(d) \in Int
  <2>1. MaxUnsent \in Nat
    BY WssAssumption DEF WssAssumption
  <2>2. Of(c, "write") = One(c.m_writing) /\ Good(d, "write") = Good(c, "write")
    BY <1>2, <1>3 DEF Alone
  <2>3. CASE Connecting(c)
    BY <1>2, <1>7, <2>2, <2>3, Numbers DEF Allowed, One
  <2>4. CASE ~Connecting(c) /\ ~Alive(c)
    BY <1>2, <1>7, <2>1, <2>2, <2>4, Numbers DEF Allowed, One, SameKind
  <2>5. CASE ~Connecting(c) /\ Alive(c)
    <3>1. ~c.m_writing => Ready(d, "write") = 0 /\ Good(d, "write") = 0
      BY <1>2, <1>6, <2>5, Numbers
    <3>2. c.m_writing => Ready(d, "write") = Ready(c, "write") \/ (Ready(d, "write") = 0 /\ Good(d, "write") = 0)
      BY <1>2, <1>6, <2>5, Numbers
    <3> QED BY <1>2, <1>7, <2>1, <2>2, <2>5, <3>1, <3>2, Numbers DEF Allowed, One, SameKind
  <2> QED BY <2>3, <2>4, <2>5
<1>11. Counted(d) /\ d.n_callbacks - Allowed(d) <= c.n_callbacks - Allowed(c)
  BY <1>2, <1>3, <1>6, <1>8, <1>9, <1>10, Numbers DEF Counted
<1>12. Alone(d)
  <2>1. c.unsent >= 0
    BY <1>3, Numbers DEF Alone, One
  <2> QED BY <1>2, <1>3, <1>4, <1>6, <2>1, Numbers DEF Alone, One
<1>13. OneAttempt(d)
  BY <1>2, <1>3, <1>7 DEF OneAttempt, SameKind
<1>14. Leaving(d)
  BY <1>2, <1>3, <1>4, <1>7 DEF Leaving, AutoReconnect
<1> QED BY <1>3, <1>4, <1>6, <1>10, <1>11, <1>12, <1>13, <1>14 DEF Sound, Counted

\* Once a handler of the ping timer has been taken off the queue.
LEMMA PingTakenSound ==
  ASSUME NEW c \in Client, Sound(c), NEW ok \in BOOLEAN, NEW t, Takes(c, t, "ping", ok)
  PROVE  /\ Sound(t) /\ t.n_callbacks = c.n_callbacks /\ t.unsent = c.unsent
         /\ Count(t) = Count(c) /\ Steps(t) = Steps(c) /\ Allowed(t) = Allowed(c)
         /\ Pings(t) = Pings(c) - 1 /\ Pings(t) \in Nat
         /\ t.owner = c.owner /\ t.stopping = c.stopping
<1>1. /\ t \in Client /\ \A x : x # "ping" => Of(t, x) = Of(c, x) /\ Ready(t, x) = Ready(c, x) /\ Good(t, x) = Good(c, x)
      /\ Of(c, "ping") = Of(t, "ping") + 1
  BY DEF Takes
<1>2. /\ t.owner = c.owner /\ t.resolving = c.resolving /\ t.unsent = c.unsent
      /\ t.m_reading = c.m_reading /\ t.m_writing = c.m_writing /\ t.stopping = c.stopping
      /\ t.timers = c.timers /\ t.ping_wait = c.ping_wait /\ t.reconnect_wait = c.reconnect_wait
      /\ t.n_callbacks = c.n_callbacks /\ t.status = c.status /\ t.early = c.early
      /\ t.overlap = c.overlap
  BY DEF Takes, Same, Fields
<1>3. Alone(c) /\ OneAttempt(c) /\ Counted(c) /\ Leaving(c) /\ ~c.early /\ ~c.overlap
  BY DEF Sound
<1>4. Steps(t) = Steps(c) /\ Count(t) = Count(c) /\ (Connecting(t) <=> Connecting(c)) /\ (Alive(t) <=> Alive(c))
  BY <1>1, <1>2 DEF Steps, Count, Connecting, Alive
<1>5. Pings(t) = Pings(c) - 1 /\ Pings(t) \in Nat
  BY <1>1, <1>2, Numbers DEF Pings, One
<1>6. Allowed(t) = Allowed(c) /\ Allowed(c) \in Int
  <2>1. MaxUnsent \in Nat
    BY WssAssumption DEF WssAssumption
  <2> QED BY <1>1, <1>2, <1>4, <2>1, Numbers DEF Allowed, One
<1>7. Closings(t) >= Closings(c) /\ Closings(t) \in Int /\ Closings(c) \in Int
  BY <1>1, <1>2, <1>4, <1>5, Numbers DEF Closings, AutoReconnect, One
<1>8. Counted(t)
  BY <1>1, <1>2, <1>3, <1>4, <1>6, <1>7, Numbers DEF Counted
<1>9. Alone(t) /\ OneAttempt(t)
  BY <1>1, <1>2, <1>3, <1>4 DEF Alone, OneAttempt
<1>10. Leaving(t)
  BY <1>1, <1>2, <1>3, <1>4, <1>5, Numbers DEF Leaving, AutoReconnect
<1> QED BY <1>1, <1>2, <1>3, <1>4, <1>5, <1>6, <1>8, <1>9, <1>10 DEF Sound

\* The ping timer expires: a ping is sent, and the next wait begins.
LEMMA PingSound ==
  ASSUME NEW c \in Client, Sound(c), Messages(c), NEW t, Takes(c, t, "ping", TRUE),
         NEW b, Sends(t, b), NEW d, StartsPing(b, d)
  PROVE  Sound(d)
<1>1. t \in Client /\ b \in Client /\ d \in Client
  BY SendAddsOne DEF Takes, StartsPing
<1>2. /\ Sound(t) /\ t.n_callbacks = c.n_callbacks /\ Count(t) = Count(c) /\ Steps(t) = Steps(c)
      /\ Allowed(t) = Allowed(c) /\ Pings(t) = Pings(c) - 1
      /\ t.owner = c.owner /\ t.stopping = c.stopping
  BY PingTakenSound
<1>3. t.n_callbacks + 1 \in 0 .. Wrap - 1 /\ t.unsent + 1 \in 0 .. Wrap - 1
  BY <1>2, Bounded, PingTakenSound
<1>4. /\ Sound(b) /\ b.n_callbacks - Allowed(b) <= t.n_callbacks - Allowed(t)
      /\ Count(b) <= b.n_callbacks /\ Allowed(t) \in Int /\ Allowed(b) \in Int
  BY <1>1, <1>2, <1>3, SendSound
<1>5. /\ Same(t, b, {"n_callbacks", "pending", "ready", "overlap", "status", "unsent", "m_writing"})
      /\ \A x : x # "write" => Of(b, x) = Of(t, x) /\ Ready(b, x) = Ready(t, x)
  BY <1>1, SendAddsOne
<1>6. /\ b.owner = t.owner /\ b.stopping = t.stopping /\ b.resolving = t.resolving
      /\ b.ping_wait = t.ping_wait
  BY <1>5 DEF Same, Fields
<1>7. Steps(b) = Steps(t) /\ Pings(b) = Pings(t)
  BY <1>5, <1>6 DEF Steps, Pings
<1>8. /\ d.owner = b.owner /\ d.resolving = b.resolving /\ d.unsent = b.unsent
      /\ d.m_reading = b.m_reading /\ d.m_writing = b.m_writing /\ d.stopping = b.stopping
      /\ d.timers = b.timers /\ d.reconnect_wait = b.reconnect_wait
      /\ d.n_callbacks = b.n_callbacks /\ d.status = b.status /\ d.early = b.early
      /\ d.overlap = b.overlap
  BY DEF StartsPing, Same, Fields
<1>9. /\ \A x : x # "ping" => Of(d, x) = Of(b, x) /\ Ready(d, x) = Ready(b, x)
      /\ \A x : Good(d, x) = Good(b, x)
      /\ Pings(d) = Pings(b) + 1
  BY DEF StartsPing
<1>10. /\ Steps(d) = Steps(b) /\ Count(d) = Count(b) /\ (Connecting(d) <=> Connecting(b))
       /\ (Alive(d) <=> Alive(b))
  BY <1>8, <1>9 DEF Steps, Count, Connecting, Alive
<1>11. Allowed(d) = Allowed(b)
  BY <1>8, <1>9, <1>10 DEF Allowed
<1>12. Closings(d) = Closings(c) /\ Closings(c) \in Int
  BY <1>1, <1>2, <1>6, <1>7, <1>8, <1>9, <1>10, Numbers DEF Closings, AutoReconnect, One
<1>13. Counted(d)
  <2>1. c.n_callbacks <= 1 + Closings(c) + Allowed(c)
    BY DEF Sound, Counted
  <2> QED BY <1>1, <1>2, <1>4, <1>8, <1>10, <1>11, <1>12, <2>1, Numbers DEF Counted
<1>14. Alone(d) /\ OneAttempt(d)
  BY <1>4, <1>8, <1>9, <1>10 DEF Sound, Alone, OneAttempt
<1>15. Leaving(d)
  <2>1. ~AutoReconnect(d) => Steps(d) + Pings(d) <= 1
    <3>1. ~AutoReconnect(c) => Steps(c) + Pings(c) <= 1
      BY DEF Sound, Leaving
    <3> QED BY <1>1, <1>2, <1>6, <1>7, <1>8, <1>9, <1>10, <3>1, Numbers DEF AutoReconnect
  <2>2. Leaving(b)
    BY <1>4 DEF Sound
  <2> QED BY <1>8, <1>9, <2>1, <2>2 DEF Leaving, AutoReconnect
<1> QED BY <1>4, <1>8, <1>13, <1>14, <1>15 DEF Sound

\* A wait of the ping timer has been cancelled: the error is reported.
LEMMA PingFailsSound ==
  ASSUME NEW c \in Client, Sound(c), Messages(c), NEW t, Takes(c, t, "ping", FALSE),
         NEW k \in {0, 1}, AutoReconnect(t) => k = 0, NEW d, Reports(t, d, k)
  PROVE  Sound(d)
<1>1. t \in Client /\ d \in Client
  BY DEF Takes, Reports
<1>2. /\ Sound(t) /\ t.n_callbacks = c.n_callbacks /\ Count(t) = Count(c) /\ Steps(t) = Steps(c)
      /\ Allowed(t) = Allowed(c) /\ Pings(t) = Pings(c) - 1
      /\ t.owner = c.owner /\ t.stopping = c.stopping
  BY PingTakenSound
<1>3. d.n_callbacks = c.n_callbacks + k
  BY <1>1, <1>2, Bounded, Exact, Numbers DEF Reports
<1>4. /\ d.owner = t.owner /\ d.resolving = t.resolving /\ d.unsent = t.unsent
      /\ d.m_reading = t.m_reading /\ d.m_writing = t.m_writing /\ d.early = t.early
  BY DEF Reports, Same, Fields
<1>5. /\ (d.overlap => t.overlap) /\ SameKind(t, d) /\ \A x : Good(d, x) = Good(t, x)
      /\ \A x : x \notin {"close", "ping"} => Of(d, x) = Of(t, x) /\ Ready(d, x) = Ready(t, x)
      /\ Of(d, "close") <= Of(t, "close") + k /\ Pings(d) = Pings(t)
      /\ AutoReconnect(t) => d.stopping = t.stopping
      /\ ~AutoReconnect(t) => Of(d, "close") > 0 /\ d.reconnect_wait = t.reconnect_wait
  BY DEF Reports
<1>6. Steps(d) = Steps(t) /\ (Connecting(d) <=> Connecting(t))
  BY <1>4, <1>5 DEF Steps, Connecting
<1>7. Count(d) <= Count(t) + k
  <2>1. Of(d, "read") = Of(t, "read") /\ Of(d, "write") = Of(t, "write")
        /\ Of(d, "shutdown") = Of(t, "shutdown")
    BY <1>5
  <2> QED BY <1>1, <1>5, <1>6, <2>1, Numbers DEF Count
<1>8. Allowed(d) = Allowed(t)
  BY <1>4, <1>5, <1>6 DEF Allowed, SameKind
<1>9. Closings(d) >= Closings(c) + k /\ Closings(d) \in Int /\ Closings(c) \in Int
  <2>1. CASE AutoReconnect(t)
    BY <1>1, <1>2, <1>4, <1>5, <2>1, Numbers DEF Closings, AutoReconnect, One
  <2>2. CASE ~AutoReconnect(t)
    BY <1>1, <1>2, <1>4, <1>5, <1>6, <2>2, Numbers DEF Closings, AutoReconnect
  <2> QED BY <2>1, <2>2
<1>10. Counted(d)
  <2>1. Count(c) <= c.n_callbacks /\ c.n_callbacks <= 1 + Closings(c) + Allowed(c)
    BY DEF Sound, Counted
  <2>2. Allowed(c) \in Int
    BY WssAssumption, Numbers DEF WssAssumption, Allowed, One
  <2> QED BY <1>1, <1>2, <1>3, <1>7, <1>8, <1>9, <2>1, <2>2, Numbers DEF Counted
<1>11. Alone(d) /\ OneAttempt(d)
  BY <1>2, <1>4, <1>5, <1>6 DEF Sound, Alone, OneAttempt, SameKind
<1>12. Leaving(d)
  BY <1>1, <1>2, <1>4, <1>5, <1>6, Numbers DEF Sound, Leaving, AutoReconnect
<1> QED BY <1>2, <1>4, <1>5, <1>10, <1>11, <1>12 DEF Sound

\* A user closes a client that nobody has closed.
LEMMA ShutsSound ==
  ASSUME NEW c \in Client, Sound(c), Messages(c), AutoReconnect(c), ~c.stopping,
         NEW d, Shuts(c, d)
  PROVE  Sound(d)
<1>1. d \in Client /\ d.stopping
  BY DEF Shuts
<1>2. d.n_callbacks = c.n_callbacks + 1
  BY Bounded, Exact DEF Shuts
<1>3. /\ d.owner = c.owner /\ d.resolving = c.resolving /\ d.unsent = c.unsent
      /\ d.m_reading = c.m_reading /\ d.m_writing = c.m_writing /\ d.early = c.early
  BY DEF Shuts, Same, Fields
<1>4. /\ (d.overlap => c.overlap) /\ SameKind(c, d) /\ \A x : Good(d, x) = Good(c, x)
      /\ \A x : x \notin {"close", "ping"} => Of(d, x) = Of(c, x) /\ Ready(d, x) = Ready(c, x)
      /\ Of(d, "close") <= Of(c, "close") + 1
  BY DEF Shuts
<1>5. Steps(d) = Steps(c) /\ (Connecting(d) <=> Connecting(c))
  BY <1>3, <1>4 DEF Steps, Connecting
<1>6. Count(d) <= Count(c) + 1
  <2>1. Of(d, "read") = Of(c, "read") /\ Of(d, "write") = Of(c, "write")
        /\ Of(d, "shutdown") = Of(c, "shutdown")
    BY <1>4
  <2> QED BY <1>1, <1>4, <1>5, <2>1, Numbers DEF Count
<1>7. Allowed(d) = Allowed(c) /\ Allowed(c) \in Int
  BY <1>3, <1>4, <1>5, WssAssumption, Numbers DEF WssAssumption, Allowed, SameKind, One
<1>8. Closings(d) = 1 /\ Closings(c) = 0
  BY <1>1, <1>3 DEF Closings, AutoReconnect, One
<1>9. Counted(d)
  BY <1>1, <1>2, <1>6, <1>7, <1>8, Numbers DEF Sound, Counted
<1>10. Alone(d) /\ OneAttempt(d)
  BY <1>3, <1>4, <1>5 DEF Sound, Alone, OneAttempt, SameKind
<1>11. Leaving(d)
  BY <1>3 DEF Leaving, AutoReconnect
<1> QED BY <1>3, <1>4, <1>9, <1>10, <1>11 DEF Sound

\* From c to d by resolve_reconnect: on a stream that is in use, what the old
\* stream did not finish fails; otherwise the client starts over.
Restarts(c, d) ==
  /\ d \in Client /\ d.torn = (c.torn \/ UnderWay(c)) /\ d.owner = c.owner /\ d.unsent = 0
  /\ \A x : Good(d, x) = Good(c, x)
  /\ ~UnderWay(c) =>
       /\ Same(c, d, {"torn", "status", "link", "pending", "resolving", "n_callbacks", "m_reading",
                      "m_writing", "unsent"})
       /\ d.pending = c.pending
       /\ d.status = "closed" /\ d.resolving = 1 /\ d.n_callbacks = 1
       /\ ~d.m_reading /\ ~d.m_writing

\* When nothing was pending, the queue stays as it is.
LEMMA NothingAborted ==
  ASSUME NEW c \in Client, c.pending = {}
  PROVE  c.ready \o Aborted(c) = c.ready
<1>1. PICK e : e = <<>>
  OBVIOUS
<1>2. e \o e = e
  BY <1>1
<1>3. Aborted(c) = ((((e \o e) \o e) \o e) \o e) \o e
  BY <1>1, Zenon DEF Aborted
<1>4. Aborted(c) = e
  BY <1>2, <1>3, Zenon
<1>5. c.ready \in Seq(Entry)
  BY DEF Client
<1>6. c.ready \o e = c.ready
  BY <1>1, <1>5, ConcatEmptySeq
<1> QED BY <1>4, <1>6

\* resolve_reconnect starts the client over.
LEMMA ResolveReconnectRestarts ==
  ASSUME NEW c \in Client, NEW d, d = ResolveReconnect(c)
  PROVE  Restarts(c, d)
<1>1. Aborted(c) \in Seq(Aborts) /\ Aborts \subseteq Entry
  BY AbortedIs DEF Aborts, Entry, Handlers
<1>2. Aborted(c) \in Seq(Entry) /\ c.ready \in Seq(Entry)
  BY <1>1, SeqMonotonic DEF Client
<1>3. PICK s \in Seq(Entry) : s = c.ready \o Aborted(c)
  BY <1>2, ConcatProperties
<1>4. \A x : {i \in DOMAIN s : s[i] = <<x, TRUE>>} = {i \in DOMAIN c.ready : c.ready[i] = <<x, TRUE>>}
  <2>1. /\ Len(s) = Len(c.ready) + Len(Aborted(c))
        /\ \A i \in 1 .. Len(c.ready) + Len(Aborted(c)) :
             s[i] = IF i <= Len(c.ready) THEN c.ready[i] ELSE Aborted(c)[i - Len(c.ready)]
    BY <1>2, <1>3, ConcatProperties
  <2>2. /\ Len(c.ready) \in Nat /\ DOMAIN c.ready = 1 .. Len(c.ready)
        /\ Len(Aborted(c)) \in Nat /\ DOMAIN s = 1 .. Len(s)
    BY <1>2, LenProperties
  <2>3. \A n \in 1 .. Len(Aborted(c)) : Aborted(c)[n] \in Aborts
    BY <1>1, ElementOfSeq
  <2>4. ASSUME NEW e \in Aborts, NEW x PROVE e # <<x, TRUE>>
    <3>1. e[2] = FALSE
      BY DEF Aborts
    <3>2. ASSUME e = <<x, TRUE>> PROVE FALSE
      <4>1. e[2] = TRUE
        BY <3>2
      <4> QED BY <3>1, <4>1, Zenon
    <3> QED BY <3>2
  <2> SUFFICES ASSUME NEW x
      PROVE  {i \in DOMAIN s : s[i] = <<x, TRUE>>} = {i \in DOMAIN c.ready : c.ready[i] = <<x, TRUE>>}
    OBVIOUS
  <2>5. PICK e : e = <<x, TRUE>>
    OBVIOUS
  <2>6. ASSUME NEW i \in DOMAIN s, s[i] = e PROVE i \in DOMAIN c.ready /\ c.ready[i] = e
    <3>1. \A n \in 1 .. Len(Aborted(c)) : Aborted(c)[n] # e
      BY <2>3, <2>4, <2>5
    <3>2. CASE i > Len(c.ready)
      <4>1. PICK n \in 1 .. Len(Aborted(c)) : n = i - Len(c.ready)
        BY <2>1, <2>2, <3>2
      <4>2. s[i] = Aborted(c)[n]
        BY <2>1, <2>2, <3>2, <4>1
      <4> QED BY <2>6, <3>1, <4>2, Zenon
    <3> QED BY <2>1, <2>2, <2>6, <3>2
  <2>7. \A i \in DOMAIN c.ready : i \in DOMAIN s /\ s[i] = c.ready[i]
    BY <2>1, <2>2
  <2>8. {i \in DOMAIN s : s[i] = e} = {i \in DOMAIN c.ready : c.ready[i] = e}
    BY <2>6, <2>7
  <2> QED BY <2>5, <2>8
<1>5. PICK t \in BOOLEAN : t = (c.torn \/ UnderWay(c))
  BY DEF Client
<1>6. PICK p \in SUBSET StreamOps : p = {}
  OBVIOUS
<1>7. PICK st \in Statuses : st = "closed"
  BY DEF Statuses
<1>8. PICK l \in Links : l = "none"
  BY DEF Links
<1>9. PICK a \in Client : a = [c EXCEPT !.torn = t, !.ready = s, !.pending = p, !.status = st, !.link = l]
  BY DEF Client
<1>10. a = NewStream(c)
  BY <1>3, <1>5, <1>6, <1>7, <1>8, <1>9 DEF NewStream, Client
<1>11. /\ Same(c, a, {"torn", "ready", "pending", "status", "link"})
       /\ a.torn = t /\ a.ready = s /\ a.pending = p /\ a.status = st
  BY <1>9 DEF Same, Fields, Client
<1>12. PICK z \in 0 .. Wrap - 1 : z = 0
  BY WssAssumption DEF WssAssumption
<1>13. PICK n \in 0 .. Wrap - 1 : n = (0 + 1) % Wrap
  BY Modulo
<1>14. PICK r \in Nat : r = c.resolving + 1
  BY DEF Client
<1>15. PICK f \in BOOLEAN : f = FALSE
  OBVIOUS
<1>16. PICK b \in Client : b = [a EXCEPT !.m_writing = f, !.m_reading = f, !.unsent = z]
  BY DEF Client
<1>17. b = Reset(a)
  BY <1>12, <1>15, <1>16 DEF Reset
<1>18. Same(a, b, {"m_writing", "m_reading", "unsent"}) /\ b.m_writing = f /\ b.m_reading = f /\ b.unsent = z
  BY <1>16 DEF Same, Fields, Client
<1>19. PICK e \in Client : e = [b EXCEPT !.n_callbacks = n, !.resolving = r]
  BY DEF Client
<1>20. b.resolving = c.resolving
  BY <1>11, <1>18 DEF Same, Fields
<1>21. d = e
  BY <1>10, <1>13, <1>14, <1>17, <1>19, <1>20 DEF ResolveReconnect, BindResolveConnect, Client
<1>22. Same(b, d, {"n_callbacks", "resolving"}) /\ d.n_callbacks = n /\ d.resolving = r
  BY <1>19, <1>21 DEF Same, Fields, Client
<1>23. /\ d.torn = t /\ d.ready = s /\ d.pending = p /\ d.status = st /\ d.owner = c.owner
       /\ d.m_writing = f /\ d.m_reading = f /\ d.unsent = z
  BY <1>11, <1>18, <1>22 DEF Same, Fields
<1>24. \A x : Good(d, x) = Good(c, x)
  <2>1. \A x : Good(d, x) = Cardinality({i \in DOMAIN s : s[i] = <<x, TRUE>>})
    BY <1>23 DEF Good
  <2> QED BY <1>4, <2>1, Zenon DEF Good
<1>25. n = 1
  <2>1. 1 \in 0 .. Wrap - 1
    BY WssAssumption, WrapAssumption DEF WssAssumption, WrapAssumption
  <2> QED BY <1>13, <2>1, Exact
<1>26. ASSUME ~UnderWay(c)
       PROVE  /\ Same(c, d, {"torn", "status", "link", "pending", "resolving", "n_callbacks", "m_reading",
                      "m_writing", "unsent"})
              /\ d.pending = c.pending /\ d.resolving = 1
  <2>1. c.pending = {} /\ c.resolving = 0
    <3>1. c.pending = {} /\ ~(c.resolving > 0)
      BY <1>26, Zenon DEF UnderWay
    <3> QED BY <3>1, Numbers
  <2>2. d.ready = c.ready
    BY <1>3, <1>23, <2>1, NothingAborted
  <2> QED BY <1>6, <1>11, <1>14, <1>18, <1>22, <1>23, <2>1, <2>2 DEF Same, Fields
<1> QED BY <1>5, <1>7, <1>12, <1>15, <1>19, <1>21, <1>22, <1>23, <1>24, <1>25, <1>26 DEF Restarts

\* A client that starts over with nothing under way is sound.
LEMMA RestartSound ==
  ASSUME NEW c \in Client, Sound(c), NEW e \in Client,
         \/ UnderWay(e)
         \/ /\ AutoReconnect(c) /\ e.owner = c.owner /\ e.early = c.early /\ e.overlap = c.overlap,
         NEW d, Restarts(e, d)
  PROVE  d.torn \/ Sound(d)
<1>1. CASE UnderWay(e)
  BY <1>1 DEF Restarts
<1>2. CASE ~UnderWay(e)
  <2>1. d \in Client /\ d.status = "closed" /\ d.resolving = 1 /\ d.n_callbacks = 1
        /\ ~d.m_reading /\ ~d.m_writing /\ d.unsent = 0 /\ d.owner = c.owner
        /\ AutoReconnect(c) /\ e.early = c.early /\ e.overlap = c.overlap
    BY <1>2 DEF Restarts
  <2>2. Same(e, d, {"torn", "status", "link", "pending", "resolving", "n_callbacks", "m_reading",
                      "m_writing", "unsent"}) /\ d.pending = e.pending
    BY <1>2 DEF Restarts
  <2>3. d.early = e.early /\ d.overlap = e.overlap /\ d.ready = e.ready
    BY <2>2 DEF Same, Fields
  <2>4. Level(e, d)
    BY <2>2, <2>3, LevelIs
  <2>5. ~(Count(e) > 0) /\ Count(e) \in Nat
    BY <1>2, UnderWayCounts, Numbers
  <2>6. /\ Of(e, "resolve") = 0 /\ Of(e, "connect") = 0 /\ Of(e, "ssl") = 0 /\ Of(e, "handshake") = 0
        /\ Of(e, "read") = 0 /\ Of(e, "write") = 0 /\ Of(e, "close") = 0 /\ Of(e, "shutdown") = 0
    <3>1. /\ Of(e, "resolve") \in Nat /\ Of(e, "connect") \in Nat /\ Of(e, "ssl") \in Nat
          /\ Of(e, "handshake") \in Nat /\ Of(e, "read") \in Nat /\ Of(e, "write") \in Nat
          /\ Of(e, "close") \in Nat /\ Of(e, "shutdown") \in Nat /\ e.resolving \in Nat
      BY Numbers
    <3>2. Steps(e) \in Nat /\ Count(e) = 0
      BY <2>5, Numbers
    <3>3. PICK k, l, m, n, o \in Nat :
            k = Steps(e) /\ l = Of(e, "read") /\ m = Of(e, "write") /\ n = Of(e, "close")
              /\ o = Of(e, "shutdown")
      BY <3>1, <3>2
    <3>4. k + l + m + n + o = 0
      BY <3>2, <3>3 DEF Count
    <3>5. k = 0 /\ l = 0 /\ m = 0 /\ n = 0 /\ o = 0
      BY <3>4
    <3>6. PICK p, q, r, s, t \in Nat :
            p = e.resolving /\ q = Of(e, "resolve") /\ r = Of(e, "connect") /\ s = Of(e, "ssl")
              /\ t = Of(e, "handshake")
      BY <3>1
    <3>7. p + q + r + s + t = 0
      BY <3>3, <3>5, <3>6 DEF Steps
    <3>8. q = 0 /\ r = 0 /\ s = 0 /\ t = 0
      BY <3>7
    <3> QED BY <3>3, <3>5, <3>6, <3>8
  <2>7. /\ Of(d, "resolve") = 0 /\ Of(d, "connect") = 0 /\ Of(d, "ssl") = 0 /\ Of(d, "handshake") = 0
        /\ Of(d, "read") = 0 /\ Of(d, "write") = 0 /\ Of(d, "close") = 0 /\ Of(d, "shutdown") = 0
    BY <2>4, <2>6 DEF Level
  <2>8. Steps(d) = 1 /\ Count(d) = 1
    BY <2>1, <2>7 DEF Steps, Count
  <2>9. Good(d, "write") = 0 /\ Ready(d, "handshake") = 0
    BY <2>1, <2>7, Numbers DEF One
  <2>10. Allowed(d) = 0 /\ Connecting(d)
    BY <2>1, <2>8, <2>9 DEF Allowed, Connecting
  <2>11. Closings(d) \in Nat
    BY <2>1 DEF Closings, AutoReconnect, One
  <2>12. Counted(d)
    BY <2>1, <2>8, <2>10, <2>11 DEF Counted
  <2>13. Alone(d) /\ OneAttempt(d) /\ Leaving(d)
    BY <2>1, <2>7, <2>8, <2>9 DEF Alone, OneAttempt, Leaving, AutoReconnect, One
  <2>14. ~d.early /\ ~d.overlap
    BY <2>1, <2>3 DEF Sound
  <2> QED BY <2>12, <2>13, <2>14 DEF Sound
<1> QED BY <1>1, <1>2

-----------------------------------------------------------------------------
(* Each step keeps the balance                                              *)

\* Until a stream has been replaced in use, few messages are waiting, and
\* n_callbacks is right.
Balanced(c) == c.torn \/ (Messages(c) /\ Sound(c))

\* A handler that begins the next step keeps the balance.
LEMMA GoesBalanced ==
  ASSUME IInv, Balanced(ws), NEW op, NEW nxt \in StreamOps \cup {"shutdown"}, Follows(op, nxt),
         ws.ready # <<>>, Head(ws.ready) = <<op, TRUE>>, ws' = LeaveCallback(Async(Taken, nxt))
  PROVE  Balanced(ws')
<1>1. PICK t, d : t = Taken /\ d = ws'
  OBVIOUS
<1>2. Takes(ws, t, op, TRUE)
  BY <1>1, TakenTakes
<1>3. PICK b : b = Async(t, nxt)
  OBVIOUS
<1>4. Begins(t, b, nxt)
  BY <1>2, <1>3, AsyncBegins DEF Takes
<1>5. d = LeaveCallback(b)
  BY <1>1, <1>3
<1>6. Leaves(b, d)
  BY <1>4, <1>5, LeaveCallbackLeaves DEF Begins
<1>7. Goes(ws, d, op, nxt)
  BY <1>2, <1>4, <1>6 DEF Goes
<1>8. ws \in Client /\ op \notin {"write", "ping"}
  BY DEF IInv, Follows
<1>9. MessagesKept(ws, d)
  BY <1>7, <1>8, GoesMessages
<1>10. d.torn = ws.torn /\ (~ws.torn => Messages(d))
  BY <1>9, MessagesStay DEF Balanced, MessagesKept
<1>11. ~ws.torn => Sound(d)
  BY <1>7, <1>8, GoesSound DEF Balanced
<1> QED BY <1>1, <1>10, <1>11 DEF Balanced

\* The operations whose handlers report an error and leave.
Counting == {"resolve", "connect", "ssl", "handshake", "read", "write", "close", "shutdown"}

\* So does one that reports its error, and takes back its flag.
LEMMA QuitsBalanced ==
  ASSUME IInv, Balanced(ws), NEW op \in Counting, ws.ready # <<>>, Head(ws.ready) = <<op, FALSE>>,
         NEW a \in Client, Same(Taken, a, {"m_reading", "m_writing"}),
         a.m_reading <=> ws.m_reading /\ op # "read",
         a.m_writing <=> ws.m_writing /\ op # "write",
         ws' = LeaveCallback(ProcessError(a)) \/ ws' = LeaveCallback(OnError(a))
  PROVE  Balanced(ws')
<1>1. PICK t, d : t = Taken /\ d = ws'
  OBVIOUS
<1>2. Takes(ws, t, op, FALSE)
  BY <1>1, TakenTakes
<1>3. a.ready = t.ready /\ a.pending = t.pending
  BY <1>1 DEF Same, Fields
<1>4. Level(t, a)
  BY <1>3, LevelIs
<1>5. PICK b : (b = ProcessError(a) \/ b = OnError(a)) /\ d = LeaveCallback(b)
  BY <1>1
<1>6. PICK k \in {0, 1} : Reports(a, b, k)
  BY <1>5, ErrorIsReported, OnErrorReports
<1>7. Leaves(b, d)
  BY <1>5, <1>6, LeaveCallbackLeaves DEF Reports
<1>8. Quits(ws, d, op)
  BY <1>1, <1>2, <1>4, <1>6, <1>7 DEF Quits
<1>9. ws \in Client
  BY DEF IInv
<1>10. MessagesKept(ws, d)
  BY <1>8, <1>9, QuitsMessages
<1>11. d.torn = ws.torn /\ (~ws.torn => Messages(d))
  BY <1>10, MessagesStay DEF Balanced, MessagesKept
<1>12. ~ws.torn => Sound(d)
  BY <1>8, <1>9, QuitsSound DEF Balanced, Counting
<1> QED BY <1>1, <1>11, <1>12 DEF Balanced

\* Where the flags stay as they are.
LEMMA FailsBalanced ==
  ASSUME IInv, Balanced(ws), NEW op \in Counting \ {"read", "write"}, ws.ready # <<>>,
         Head(ws.ready) = <<op, FALSE>>,
         ws' = Failed(Taken) \/ ws' = LeaveCallback(OnError(Taken))
  PROVE  Balanced(ws')
<1>1. PICK t : t = Taken
  OBVIOUS
<1>2. t \in Client /\ Same(ws, t, {"ready"})
  BY <1>1, TakenTakes DEF Takes
<1>3. t.m_reading = ws.m_reading /\ t.m_writing = ws.m_writing
  BY <1>2 DEF Same, Fields
<1>4. Same(Taken, t, {"m_reading", "m_writing"})
  BY <1>1 DEF Same
<1>5. ws' = LeaveCallback(ProcessError(t)) \/ ws' = LeaveCallback(OnError(t))
  BY <1>1 DEF Failed
<1>6. op \in Counting /\ op # "read" /\ op # "write"
  OBVIOUS
<1> QED BY <1>2, <1>3, <1>4, <1>5, <1>6, QuitsBalanced

\* One lemma per handler.
LEMMA PhaseBalanced ==
  ASSUME IInv, Balanced(ws), OnResolve \/ OnConnect \/ OnSslHandshake \/ OnClose \/ OnSslShutdown
  PROVE  Balanced(ws')
<1> USE DEF Run, Taken, Counting
<1>1. CASE OnResolve
  <2>1. CASE Run("resolve", TRUE, LAMBDA c : LeaveCallback(Async(c, "connect")))
    <3>1. Follows("resolve", "connect") /\ "connect" \in StreamOps \cup {"shutdown"}
      BY DEF Follows, StreamOps
    <3> QED BY <2>1, <3>1, GoesBalanced
  <2>2. CASE Run("resolve", FALSE, LAMBDA c : LeaveCallback(OnError(c)))
    BY <2>2, FailsBalanced
  <2> QED BY <1>1, <2>1, <2>2 DEF OnResolve
<1>2. CASE OnConnect
  <2>1. CASE Run("connect", TRUE, LAMBDA c : LeaveCallback(Async(c, "ssl")))
    <3>1. Follows("connect", "ssl") /\ "ssl" \in StreamOps \cup {"shutdown"}
      BY DEF Follows, StreamOps
    <3> QED BY <2>1, <3>1, GoesBalanced
  <2>2. CASE Run("connect", FALSE, Failed)
    BY <2>2, FailsBalanced
  <2> QED BY <1>2, <2>1, <2>2 DEF OnConnect
<1>3. CASE OnSslHandshake
  <2>1. CASE Run("ssl", TRUE, LAMBDA c : LeaveCallback(Async(c, "handshake")))
    <3>1. Follows("ssl", "handshake") /\ "handshake" \in StreamOps \cup {"shutdown"}
      BY DEF Follows, StreamOps
    <3> QED BY <2>1, <3>1, GoesBalanced
  <2>2. CASE Run("ssl", FALSE, Failed)
    BY <2>2, FailsBalanced
  <2> QED BY <1>3, <2>1, <2>2 DEF OnSslHandshake
<1>4. CASE OnClose
  <2>1. CASE Run("close", TRUE, LAMBDA c : LeaveCallback(Async(c, "shutdown")))
    <3>1. Follows("close", "shutdown") /\ "shutdown" \in StreamOps \cup {"shutdown"}
      BY DEF Follows
    <3> QED BY <2>1, <3>1, GoesBalanced
  <2>2. CASE Run("close", FALSE, Failed)
    BY <2>2, FailsBalanced
  <2> QED BY <1>4, <2>1, <2>2 DEF OnClose
<1>5. CASE OnSslShutdown
  BY <1>5, FailsBalanced DEF OnSslShutdown
<1> QED BY <1>1, <1>2, <1>3, <1>4, <1>5

\* A read begins the next one, or takes m_reading back and reports.
LEMMA OnReadBalanced == ASSUME IInv, Balanced(ws), OnRead PROVE Balanced(ws')
<1>1. CASE Run("read", TRUE, LAMBDA c : LeaveCallback(Async(c, "read")))
  <2>1. Follows("read", "read") /\ "read" \in StreamOps \cup {"shutdown"}
    BY DEF Follows, StreamOps
  <2> QED BY <1>1, <2>1, GoesBalanced DEF Run, Taken
<1>2. CASE Run("read", FALSE, LAMBDA c : Failed([c EXCEPT !.m_reading = FALSE]))
  <2>1. ws.ready # <<>> /\ Head(ws.ready) = <<"read", FALSE>>
        /\ ws' = Failed([Taken EXCEPT !.m_reading = FALSE])
    BY <1>2 DEF Run, Taken
  <2>2. PICK t \in Client : t = Taken /\ Same(ws, t, {"ready"})
    BY <2>1, TakenTakes DEF Takes
  <2>3. PICK f \in BOOLEAN : f = FALSE
    OBVIOUS
  <2>4. PICK a \in Client : a = [t EXCEPT !.m_reading = f]
    BY DEF Client
  <2>5. Same(t, a, {"m_reading"}) /\ a.m_reading = f
    BY <2>4 DEF Same, Fields, Client
  <2>6. Same(Taken, a, {"m_reading", "m_writing"}) /\ ~a.m_reading /\ a.m_writing = ws.m_writing
    BY <2>2, <2>3, <2>5 DEF Same, Fields
  <2>7. ws' = LeaveCallback(ProcessError(a))
    BY <2>1, <2>2, <2>3, <2>4 DEF Failed
  <2> QED BY <2>1, <2>6, <2>7, QuitsBalanced DEF Counting
<1> QED BY <1>1, <1>2 DEF OnRead

\* The handshake's handler starts the ping timer and the first read.
LEMMA OnHandshakeBalanced == ASSUME IInv, Balanced(ws), OnHandshake PROVE Balanced(ws')
<1>1. CASE Run("handshake", TRUE, LAMBDA c : LeaveCallback(Receive(StartPingPong(c))))
  <2>1. ws.ready # <<>> /\ Head(ws.ready) = <<"handshake", TRUE>>
        /\ ws' = LeaveCallback(Receive(StartPingPong(Taken)))
    BY <1>1 DEF Run, Taken
  <2>2. PICK t, d : t = Taken /\ d = ws'
    OBVIOUS
  <2>3. Takes(ws, t, "handshake", TRUE)
    BY <2>1, <2>2, TakenTakes
  <2>4. PICK a : a = StartPingPong(t)
    OBVIOUS
  <2>5. StartsPing(t, a)
    BY <2>3, <2>4, StartPingPongStarts DEF Takes
  <2>6. PICK b : b = Receive(a)
    OBVIOUS
  <2>7. a \in Client
    BY <2>5 DEF StartsPing
  <2>8. PICK e : IF a.m_reading THEN b = a
                 ELSE /\ e \in Client /\ Same(a, e, {"m_reading"}) /\ e.m_reading /\ Level(a, e)
                      /\ Begins(e, b, "read")
    BY <2>6, <2>7, ReceiveIs
  <2>9. b \in Client
    BY <2>7, <2>8 DEF Begins
  <2>10. d = LeaveCallback(b)
    BY <2>1, <2>2, <2>4, <2>6
  <2>11. Leaves(b, d)
    BY <2>9, <2>10, LeaveCallbackLeaves
  <2>12. Opens(ws, d)
    BY <2>3, <2>5, <2>8, <2>11 DEF Opens
  <2>13. ws \in Client
    BY DEF IInv
  <2>14. MessagesKept(ws, d)
    BY <2>12, <2>13, OpensMessages
  <2>15. d.torn = ws.torn /\ (~ws.torn => Messages(d))
    BY <2>14, MessagesStay DEF Balanced, MessagesKept
  <2>16. ~ws.torn => Sound(d)
    BY <2>12, <2>13, OpensSound DEF Balanced
  <2> QED BY <2>2, <2>15, <2>16 DEF Balanced
<1>2. CASE Run("handshake", FALSE, Failed)
  BY <1>2, FailsBalanced DEF Run, Taken, Counting
<1> QED BY <1>1, <1>2 DEF OnHandshake

\* A write takes its message off and begins the next one, or reports.
LEMMA OnWriteBalanced == ASSUME IInv, Balanced(ws), OnWrite PROVE Balanced(ws')
<1>1. CASE Run("write", TRUE, LAMBDA c :
             LET d == [c EXCEPT !.unsent = (@ - 1) % Wrap] IN
             LeaveCallback(IF d.unsent # 0 THEN Async(d, "write") ELSE [d EXCEPT !.m_writing = FALSE]))
  <2> DEFINE Sent == [Taken EXCEPT !.unsent = (@ - 1) % Wrap]
  <2>1. ws.ready # <<>> /\ Head(ws.ready) = <<"write", TRUE>>
        /\ ws' = LeaveCallback(IF Sent.unsent # 0 THEN Async(Sent, "write")
                               ELSE [Sent EXCEPT !.m_writing = FALSE])
    BY <1>1 DEF Run, Taken
  <2>2. PICK t, d : t = Taken /\ d = ws'
    OBVIOUS
  <2>3. Takes(ws, t, "write", TRUE)
    BY <2>1, <2>2, TakenTakes
  <2>4. t \in Client
    BY <2>3 DEF Takes
  <2>5. PICK u \in 0 .. Wrap - 1 : u = (t.unsent - 1) % Wrap
    BY <2>4, CountedModulo
  <2>6. PICK m \in BOOLEAN : m = (IF u # 0 THEN t.m_writing ELSE FALSE)
    BY <2>4 DEF Client
  <2>7. PICK e \in Client : e = [t EXCEPT !.unsent = u, !.m_writing = m]
    BY <2>4 DEF Client
  <2>8. Same(t, e, {"unsent", "m_writing"}) /\ e.unsent = u /\ e.m_writing = m
    BY <2>4, <2>7 DEF Same, Fields, Client
  <2>9. e.ready = t.ready /\ e.pending = t.pending
    BY <2>8 DEF Same, Fields
  <2>10. Level(t, e)
    BY <2>9, LevelIs
  <2>11. Sent.unsent = u
    BY <2>2, <2>4, <2>5 DEF Client
  <2>12. u # 0 => Sent = e
    BY <2>2, <2>4, <2>5, <2>6, <2>7 DEF Client
  <2>13. u = 0 => [Sent EXCEPT !.m_writing = FALSE] = e
    BY <2>2, <2>4, <2>5, <2>6, <2>7 DEF Client
  <2> HIDE DEF Sent
  <2>14. PICK op \in StreamOps : op = "write"
    BY DEF StreamOps
  <2>15. PICK b : b = IF u # 0 THEN Async(e, op) ELSE e
    OBVIOUS
  <2>16. IF u # 0 THEN Begins(e, b, "write") ELSE b = e
    BY <2>14, <2>15, AsyncBegins
  <2>17. b \in Client
    BY <2>16 DEF Begins
  <2>18. d = LeaveCallback(b)
    BY <2>1, <2>2, <2>11, <2>12, <2>13, <2>14, <2>15
  <2>19. Leaves(b, d)
    BY <2>17, <2>18, LeaveCallbackLeaves
  <2>20. IF e.unsent # 0 THEN e.m_writing = t.m_writing /\ Begins(e, b, "write")
         ELSE ~e.m_writing /\ b = e
    BY <2>6, <2>8, <2>16
  <2>21. e.unsent = (t.unsent - 1) % Wrap
    BY <2>5, <2>8
  <2>22. Writes(ws, d)
    BY <2>3, <2>8, <2>10, <2>19, <2>20, <2>21 DEF Writes
  <2>23. ws \in Client
    BY DEF IInv
  <2>24. d.torn = ws.torn /\ (~ws.torn => Messages(d))
    BY <2>22, <2>23, WritesMessages DEF Balanced
  <2>25. ~ws.torn => Sound(d)
    BY <2>22, <2>23, WritesSound DEF Balanced
  <2> QED BY <2>2, <2>24, <2>25 DEF Balanced
<1>2. CASE Run("write", FALSE, LAMBDA c : Failed([c EXCEPT !.m_writing = FALSE]))
  <2>1. ws.ready # <<>> /\ Head(ws.ready) = <<"write", FALSE>>
        /\ ws' = Failed([Taken EXCEPT !.m_writing = FALSE])
    BY <1>2 DEF Run, Taken
  <2>2. PICK t \in Client : t = Taken /\ Same(ws, t, {"ready"})
    BY <2>1, TakenTakes DEF Takes
  <2>3. PICK f \in BOOLEAN : f = FALSE
    OBVIOUS
  <2>4. PICK a \in Client : a = [t EXCEPT !.m_writing = f]
    BY DEF Client
  <2>5. Same(t, a, {"m_writing"}) /\ a.m_writing = f
    BY <2>4 DEF Same, Fields, Client
  <2>6. Same(Taken, a, {"m_reading", "m_writing"}) /\ ~a.m_writing /\ a.m_reading = ws.m_reading
    BY <2>2, <2>3, <2>5 DEF Same, Fields
  <2>7. ws' = LeaveCallback(ProcessError(a))
    BY <2>1, <2>2, <2>3, <2>4 DEF Failed
  <2> QED BY <2>1, <2>6, <2>7, QuitsBalanced DEF Counting
<1> QED BY <1>1, <1>2 DEF OnWrite

\* A ping is sent: the wait before it has lowered what may still be waiting.
LEMMA PingTimerBalanced == ASSUME IInv, Balanced(ws), PingTimer PROVE Balanced(ws')
<1>0. ws \in Client /\ MaxUnsent \in Nat
  BY WssAssumption DEF IInv, WssAssumption
<1>1. CASE Run("ping", TRUE, LAMBDA c : StartPingPong(Send(c)))
  <2>1. ws.ready # <<>> /\ Head(ws.ready) = <<"ping", TRUE>> /\ ws' = StartPingPong(Send(Taken))
    BY <1>1 DEF Run, Taken
  <2>2. PICK t, d : t = Taken /\ d = ws'
    OBVIOUS
  <2>3. Takes(ws, t, "ping", TRUE)
    BY <2>1, <2>2, TakenTakes
  <2>4. t \in Client
    BY <2>3 DEF Takes
  <2>5. PICK b : b = Send(t)
    OBVIOUS
  <2>6. Sends(t, b)
    BY <2>4, <2>5, SendIs DEF Sends
  <2>7. b \in Client /\ b.unsent = (t.unsent + 1) % Wrap /\ \A x : Good(b, x) = Good(t, x)
    BY <2>4, <2>6, SendAddsOne
  <2>8. Same(t, b, {"n_callbacks", "pending", "ready", "overlap", "status", "unsent", "m_writing"})
    BY <2>4, <2>6, SendAddsOne
  <2>9. d = StartPingPong(b)
    BY <2>1, <2>2, <2>5
  <2>10. StartsPing(b, d)
    BY <2>7, <2>9, StartPingPongStarts
  <2>11. t.unsent = ws.unsent /\ t.torn = ws.torn
    BY <2>3 DEF Takes, Same, Fields
  <2>12. d.unsent = (ws.unsent + 1) % Wrap /\ d.torn = ws.torn
    BY <2>7, <2>8, <2>10, <2>11 DEF StartsPing, Same, Fields
  <2>13. Good(d, "ping") = Good(ws, "ping") - 1 /\ Good(d, "write") = Good(ws, "write")
    <3>1. Good(ws, "ping") = Good(t, "ping") + 1 /\ Good(t, "write") = Good(ws, "write")
      BY <2>3 DEF Takes, One
    <3> QED BY <2>4, <2>7, <2>10, <3>1, Numbers DEF StartsPing
  <2>14. ASSUME ~ws.torn PROVE Messages(d)
    <3>1. ws.unsent + 1 \in 0 .. Wrap - 1
      BY <1>0, <2>14, Bounded DEF Balanced
    <3>2. (ws.unsent + 1) % Wrap = ws.unsent + 1
      BY <3>1, Exact
    <3>3. Messages(ws)
      BY <2>14 DEF Balanced
    <3> QED BY <1>0, <2>12, <2>13, <3>2, <3>3, Numbers DEF Messages
  <2>15. ~ws.torn => Sound(d)
    BY <1>0, <2>3, <2>6, <2>10, PingSound DEF Balanced
  <2> QED BY <2>2, <2>12, <2>14, <2>15 DEF Balanced
<1>2. CASE Run("ping", FALSE, OnError)
  <2>1. ws.ready # <<>> /\ Head(ws.ready) = <<"ping", FALSE>> /\ ws' = OnError(Taken)
    BY <1>2 DEF Run, Taken
  <2>2. PICK t, d : t = Taken /\ d = ws'
    OBVIOUS
  <2>3. Takes(ws, t, "ping", FALSE)
    BY <2>1, <2>2, TakenTakes
  <2>4. d = OnError(t)
    BY <2>1, <2>2
  <2>5. PICK k \in {0, 1} : Reports(t, d, k) /\ (AutoReconnect(t) => k = 0)
    BY <2>3, <2>4, OnErrorReports DEF Takes
  <2>6. d.unsent = ws.unsent /\ d.torn = ws.torn
    BY <2>3, <2>5 DEF Takes, Reports, Same, Fields
  <2>7. Good(d, "ping") = Good(ws, "ping") /\ Good(d, "write") = Good(ws, "write")
    <3>1. t \in Client
      BY <2>3 DEF Takes
    <3> QED BY <1>0, <2>3, <2>5, <3>1, Numbers DEF Takes, Reports, One
  <2>8. ~ws.torn => Messages(d)
    BY <2>6, <2>7 DEF Balanced, Messages
  <2>9. ~ws.torn => Sound(d)
    BY <1>0, <2>3, <2>5, PingFailsSound DEF Balanced
  <2> QED BY <2>2, <2>6, <2>8, <2>9 DEF Balanced
<1> QED BY <1>1, <1>2 DEF PingTimer

\* Only a socket that is open is sent to, and only while few messages wait.
LEMMA UserSendsBalanced == ASSUME IInv, Balanced(ws), UserSends PROVE Balanced(ws')
<1>1. PICK d : d = ws' /\ d = Send(ws)
  BY DEF UserSends
<1>2. ws \in Client /\ MaxUnsent \in Nat /\ ws.status = "open" /\ FewWait
  BY WssAssumption DEF IInv, UserSends, WssAssumption
<1>3. Sends(ws, d)
  BY <1>1, <1>2, SendIs DEF Sends
<1>4. /\ d.unsent = (ws.unsent + 1) % Wrap /\ \A x : Good(d, x) = Good(ws, x)
      /\ Same(ws, d, {"n_callbacks", "pending", "ready", "overlap", "status", "unsent", "m_writing"})
  BY <1>2, <1>3, SendAddsOne
<1>5. d.torn = ws.torn
  BY <1>4 DEF Same, Fields
<1>6. ASSUME ~ws.torn PROVE Messages(d)
  <2>1. Messages(ws) /\ ws.unsent + 1 \in 0 .. Wrap - 1
    BY <1>2, <1>6, Bounded DEF Balanced
  <2>2. (ws.unsent + 1) % Wrap = ws.unsent + 1
    BY <2>1, Exact
  <2>3. PICK n, g \in Nat : n = ws.unsent /\ g = Good(ws, "ping")
    BY <1>2, Numbers
  <2>4. g <= 1 /\ n + g <= MaxUnsent + 1
    BY <2>1, <2>3 DEF Messages
  <2>5. n < MaxUnsent
    BY <1>2, <2>3, <2>4 DEF FewWait
  <2>6. d.unsent = n + 1 /\ Good(d, "ping") = g
    BY <1>4, <2>2, <2>3
  <2> QED BY <1>2, <2>4, <2>5, <2>6 DEF Messages
<1>7. ~ws.torn => Sound(d)
  BY <1>2, <1>3, SendSound, Bounded DEF Balanced
<1> QED BY <1>1, <1>5, <1>6, <1>7 DEF Balanced

\* The user closes: once, since stopping stays set.
LEMMA UserClosesBalanced == ASSUME IInv, Balanced(ws), UserCloses PROVE Balanced(ws')
<1>1. PICK d : d = ws' /\ d = Close(ws)
  BY DEF UserCloses
<1>2. ws \in Client /\ AutoReconnect(ws) /\ ~ws.stopping
  BY DEF IInv, UserCloses
<1>3. Shuts(ws, d)
  BY <1>1, <1>2, CloseShuts
<1>4. MessagesKept(ws, d)
  BY <1>3 DEF Shuts, MessagesKept, Same, Fields
<1>5. d.torn = ws.torn /\ (~ws.torn => Messages(d))
  BY <1>4, MessagesStay DEF Balanced, MessagesKept
<1>6. ~ws.torn => Sound(d)
  BY <1>2, <1>3, ShutsSound DEF Balanced
<1> QED BY <1>1, <1>5, <1>6 DEF Balanced

\* A stream is replaced: its messages are gone.
LEMMA RestartMessages ==
  ASSUME NEW e \in Client, NEW d, Restarts(e, d), Good(e, "ping") <= 1
  PROVE  Messages(d)
<1>1. d.unsent = 0 /\ \A x : Good(d, x) = Good(e, x)
  BY DEF Restarts
<1> QED BY <1>1, Numbers, WssAssumption DEF Messages, WssAssumption

\* A timer that is not counted, once its handler has been taken off the queue.
LEMMA TimerTaken ==
  ASSUME NEW c \in Client, NEW op \in {"reconnect", "trade"}, NEW t, Takes(c, t, op, TRUE)
  PROVE  /\ t \in Client /\ MessagesKept(c, t) /\ t.owner = c.owner /\ t.stopping = c.stopping
         /\ t.early = c.early /\ t.overlap = c.overlap
         /\ Sound(c) => Sound(t)
<1>1. /\ t \in Client
      /\ \A x : x # op => Of(t, x) = Of(c, x) /\ Ready(t, x) = Ready(c, x) /\ Good(t, x) = Good(c, x)
      /\ Of(c, op) = Of(t, op) + 1
  BY DEF Takes
<1>2. /\ t.owner = c.owner /\ t.resolving = c.resolving /\ t.unsent = c.unsent
      /\ t.m_reading = c.m_reading /\ t.m_writing = c.m_writing /\ t.stopping = c.stopping
      /\ t.timers = c.timers /\ t.ping_wait = c.ping_wait /\ t.reconnect_wait = c.reconnect_wait
      /\ t.n_callbacks = c.n_callbacks /\ t.status = c.status /\ t.early = c.early
      /\ t.overlap = c.overlap /\ t.torn = c.torn
  BY DEF Takes, Same, Fields
<1>3. Steps(t) = Steps(c) /\ Count(t) = Count(c) /\ (Connecting(t) <=> Connecting(c))
      /\ (Alive(t) <=> Alive(c)) /\ Pings(t) = Pings(c)
  BY <1>1, <1>2 DEF Steps, Count, Connecting, Alive, Pings
<1>4. Allowed(t) = Allowed(c) /\ Closings(t) = Closings(c)
  BY <1>1, <1>2, <1>3 DEF Allowed, Closings, AutoReconnect
<1>5. MessagesKept(c, t)
  BY <1>1, <1>2 DEF MessagesKept
<1>6. ASSUME Sound(c) PROVE Sound(t)
  <2>1. Alone(t) /\ OneAttempt(t) /\ Counted(t)
    BY <1>1, <1>2, <1>3, <1>4, <1>6 DEF Sound, Alone, OneAttempt, Counted
  <2>2. Leaving(t)
    BY <1>1, <1>2, <1>3, <1>6, Numbers DEF Sound, Leaving, AutoReconnect
  <2> QED BY <1>2, <1>6, <2>1, <2>2 DEF Sound
<1> QED BY <1>1, <1>2, <1>5, <1>6

\* The library's reconnect: unless it begins while the stream is in use, the
\* client starts over.
LEMMA ReconnectTimerBalanced == ASSUME IInv, Balanced(ws), ReconnectTimer PROVE Balanced(ws')
<1>1. ws.ready # <<>> /\ Head(ws.ready) = <<"reconnect", TRUE>> /\ ws' = TryReconnect(Taken)
  BY DEF ReconnectTimer, Run, Taken
<1>2. PICK t, d : t = Taken /\ d = ws'
  OBVIOUS
<1>3. Takes(ws, t, "reconnect", TRUE) /\ ws \in Client
  BY <1>1, <1>2, TakenTakes DEF IInv
<1>4. /\ t \in Client /\ MessagesKept(ws, t) /\ t.owner = ws.owner /\ t.stopping = ws.stopping
      /\ t.early = ws.early /\ t.overlap = ws.overlap
      /\ Sound(ws) => Sound(t)
  BY <1>3, TimerTaken
<1>5. t.torn = ws.torn /\ (~ws.torn => Messages(t))
  BY <1>4, MessagesStay DEF Balanced, MessagesKept
<1>6. CASE t.stopping
  <2>1. d = t
    BY <1>1, <1>2, <1>6 DEF TryReconnect
  <2> QED BY <1>2, <1>4, <1>5, <2>1 DEF Balanced
<1>7. CASE ~t.stopping
  <2>1. PICK e : e = (IF t.status = "open" THEN Async(t, "close") ELSE t)
    OBVIOUS
  <2>2. d = ResolveReconnect(e)
    BY <1>1, <1>2, <1>7, <2>1 DEF TryReconnect
  <2>3. /\ e \in Client /\ (\A x : Good(e, x) = Good(t, x)) /\ e.torn = t.torn
        /\ UnderWay(e) \/ e = t
    <3>1. CASE t.status # "open"
      BY <1>4, <2>1, <3>1
    <3>2. CASE t.status = "open"
      <4>1. PICK op \in StreamOps : op = "close"
        BY DEF StreamOps
      <4>2. e = Async(t, op)
        BY <2>1, <3>2, <4>1
      <4>3. Begins(t, e, op)
        BY <1>4, <4>2, AsyncBegins
      <4>4. Of(e, "close") > 0 /\ e \in Client /\ (\A x : Good(e, x) = Good(t, x)) /\ e.torn = t.torn
        BY <4>1, <4>3 DEF Begins, Same, Fields
      <4>5. Count(e) > 0
        BY <4>4, Numbers DEF Count
      <4>6. UnderWay(e)
        BY <4>4, <4>5, UnderWayCounts
      <4> QED BY <4>4, <4>6
    <3> QED BY <3>1, <3>2
  <2>4. Restarts(e, d)
    BY <2>2, <2>3, ResolveReconnectRestarts
  <2>5. ~ws.torn => Messages(d)
    BY <1>5, <2>3, <2>4, RestartMessages DEF Messages
  <2>6. ws.torn => d.torn
    BY <1>5, <2>3, <2>4 DEF Restarts
  <2>7. ASSUME ~ws.torn PROVE d.torn \/ Sound(d)
    <3>1. Sound(ws) /\ AutoReconnect(ws)
      <4>1. Sound(ws)
        BY <2>7 DEF Balanced
      <4>2. Of(ws, "reconnect") > 0
        BY <1>3, <1>4, Numbers DEF Takes
      <4> QED BY <4>1, <4>2 DEF Sound, Leaving
    <3> QED BY <1>3, <1>4, <2>3, <2>4, <3>1, RestartSound
  <2> QED BY <1>2, <2>5, <2>6, <2>7 DEF Balanced
<1> QED BY <1>6, <1>7

\* The trade owner's own timer always finds a stream in use.
LEMMA TradeTimerBalanced == ASSUME IInv, Balanced(ws), TradeTimer PROVE Balanced(ws')
<1>1. ws.ready # <<>> /\ Head(ws.ready) = <<"trade", TRUE>> /\ ws' = ResolveReconnect(Taken)
  BY DEF TradeTimer, Run, Taken
<1>2. PICK t, d : t = Taken /\ d = ws'
  OBVIOUS
<1>3. Takes(ws, t, "trade", TRUE) /\ ws \in Client
  BY <1>1, <1>2, TakenTakes DEF IInv
<1>4. /\ t \in Client /\ MessagesKept(ws, t) /\ t.owner = ws.owner
      /\ t.early = ws.early /\ t.overlap = ws.overlap
  BY <1>3, TimerTaken
<1>5. t.torn = ws.torn /\ (~ws.torn => Messages(t))
  BY <1>4, MessagesStay DEF Balanced, MessagesKept
<1>6. d = ResolveReconnect(t)
  BY <1>1, <1>2
<1>7. Restarts(t, d)
  BY <1>4, <1>6, ResolveReconnectRestarts
<1>8. ~ws.torn => Messages(d)
  BY <1>4, <1>5, <1>7, RestartMessages DEF Messages
<1>9. ws.torn => d.torn
  BY <1>5, <1>7 DEF Restarts
<1>10. ASSUME ~ws.torn PROVE d.torn \/ Sound(d)
  <2>1. Sound(ws)
    BY <1>10 DEF Balanced
  <2>2. Of(ws, "trade") > 0
    BY <1>3, <1>4, Numbers DEF Takes
  <2>3. UnderWay(t) \/ AutoReconnect(ws)
    <3> SUFFICES ASSUME ~AutoReconnect(ws) PROVE UnderWay(t)
      OBVIOUS
    <3>1. Of(ws, "close") + Of(ws, "shutdown") > 0
      BY <2>1, <2>2 DEF Sound, Leaving
    <3>2. Of(t, "close") + Of(t, "shutdown") > 0
      BY <1>3, <3>1 DEF Takes
    <3>3. Count(t) > 0
      BY <1>4, <3>2, Numbers DEF Count
    <3> QED BY <1>4, <3>3, UnderWayCounts
  <2> QED BY <1>3, <1>4, <1>7, <2>1, <2>3, RestartSound
<1> QED BY <1>2, <1>8, <1>9, <1>10 DEF Balanced

\* From c to d by the end of op, which was under way on the stream: it is ready
\* now, but for a close that is not told apart from those that are.
Finishes(c, d, op, ok) ==
  /\ d \in Client /\ Same(c, d, {"pending", "ready"})
  /\ \A x : x # op => Of(d, x) = Of(c, x) /\ Ready(d, x) = Ready(c, x) /\ Good(d, x) = Good(c, x)
  /\ op # "close" => /\ Of(d, op) = Of(c, op) /\ Ready(d, op) = Ready(c, op) + 1
                     /\ Good(d, op) = Good(c, op) + One(ok)
  /\ op = "close" => Of(d, op) <= Of(c, op) /\ Of(d, op) > 0

\* What the network completes becomes a ready handler.
LEMMA DoneFinishes ==
  ASSUME NEW c \in Client, NEW op \in StreamOps, op \in c.pending, NEW ok \in BOOLEAN,
         NEW d, d = Done(c, op, ok)
  PROVE  Finishes(c, d, op, ok)
<1>1. PICK p \in SUBSET StreamOps : p = c.pending \ {op}
  BY DEF Client
<1>2. PICK b \in Client : b = [c EXCEPT !.pending = p]
  BY DEF Client
<1>3. Same(c, b, {"pending"}) /\ b.pending = p
  BY <1>2 DEF Same, Fields, Client
<1>4. b.ready = c.ready
  BY <1>3 DEF Same, Fields
<1>5. \A x : Ready(b, x) = Ready(c, x) /\ Good(b, x) = Good(c, x)
  BY <1>4, ReadySame
<1>6. (\A x : x # op => Of(b, x) = Of(c, x)) /\ Of(c, op) = 1 + Ready(c, op) /\ Of(b, op) = Ready(c, op)
  <2>1. Ready(c, op) \in Nat
    BY Numbers
  <2> QED BY <1>1, <1>3, <1>5, <2>1 DEF Of, One
<1>7. op \in Handlers /\ d = Post(b, op, ok)
  BY <1>1, <1>2 DEF Handlers, Done
<1>8. /\ d \in Client /\ Same(b, d, {"ready"})
      /\ CountsOneMore(b, d, op, ok) \/ (op = "close" /\ d = b /\ Ready(b, "close") > 0)
  BY <1>7, PostCounts
<1>9. Same(c, d, {"pending", "ready"}) /\ d.pending = b.pending
  BY <1>3, <1>8 DEF Same, Fields
<1>10. CASE CountsOneMore(b, d, op, ok)
  <2>1. \A x : x # op => Of(d, x) = Of(c, x) /\ Ready(d, x) = Ready(c, x) /\ Good(d, x) = Good(c, x)
    BY <1>5, <1>6, <1>9, <1>10 DEF CountsOneMore, Of
  <2>2. Ready(d, op) = Ready(c, op) + 1 /\ Good(d, op) = Good(c, op) + One(ok)
    BY <1>5, <1>10 DEF CountsOneMore
  <2>3. Of(d, op) = Of(c, op) /\ Of(d, op) > 0 /\ Of(c, op) \in Nat
    <3>1. Ready(c, op) \in Nat /\ op \notin d.pending
      BY <1>1, <1>3, <1>9, Numbers
    <3> QED BY <1>6, <2>2, <3>1 DEF Of, One
  <2> QED BY <1>8, <1>9, <2>1, <2>2, <2>3 DEF Finishes
<1>11. CASE op = "close" /\ d = b /\ Ready(b, "close") > 0
  <2>1. Of(d, op) <= Of(c, op) /\ Of(d, op) > 0
    BY <1>5, <1>6, <1>11, Numbers
  <2> QED BY <1>5, <1>6, <1>8, <1>9, <1>11, <2>1 DEF Finishes
<1> QED BY <1>8, <1>10, <1>11

\* What a handshake that succeeded, or a close, does to the stream's state, and
\* what no other operation does.
Turns(c, d, op, ok) ==
  /\ op = "write" => (ok <=> Alive(c))
  /\ op # "handshake" => (Alive(d) => Alive(c)) /\ (d.status # "closed" => c.status # "closed")

\* The end of an operation.
LEMMA FinishSound ==
  ASSUME NEW c \in Client, Sound(c), Messages(c), NEW op \in StreamOps, op \in c.pending,
         NEW ok \in BOOLEAN, NEW x, Finishes(c, x, op, ok),
         NEW d \in Client, Same(x, d, {"status", "link"}), Level(x, d), Turns(c, d, op, ok)
  PROVE  Sound(d)
<1>1. Alone(c) /\ OneAttempt(c) /\ Counted(c) /\ Leaving(c) /\ ~c.early /\ ~c.overlap
  BY DEF Sound
<1>2. /\ d.owner = c.owner /\ d.resolving = c.resolving /\ d.unsent = c.unsent
      /\ d.m_reading = c.m_reading /\ d.m_writing = c.m_writing /\ d.stopping = c.stopping
      /\ d.timers = c.timers /\ d.ping_wait = c.ping_wait /\ d.reconnect_wait = c.reconnect_wait
      /\ d.n_callbacks = c.n_callbacks /\ d.early = c.early /\ d.overlap = c.overlap
  BY DEF Finishes, Same, Fields
<1>3. /\ \A y : y # op => Of(d, y) = Of(c, y) /\ Ready(d, y) = Ready(c, y) /\ Good(d, y) = Good(c, y)
      /\ op # "close" => /\ Of(d, op) = Of(c, op) /\ Ready(d, op) = Ready(c, op) + 1
                         /\ Good(d, op) = Good(c, op) + One(ok)
      /\ op = "close" => Of(d, op) <= Of(c, op) /\ Of(d, op) > 0
  BY DEF Finishes, Level
<1>4. \A y : y # "close" => Of(d, y) = Of(c, y)
  BY <1>3
<1>5. Of(d, "close") <= Of(c, "close") /\ (Of(c, "close") > 0 => Of(d, "close") > 0)
  BY <1>3, Numbers
<1>6. Steps(d) = Steps(c) /\ Pings(d) = Pings(c)
  BY <1>2, <1>4 DEF Steps, Pings
<1>7. Count(d) <= Count(c)
  <2>1. Of(d, "read") = Of(c, "read") /\ Of(d, "write") = Of(c, "write")
        /\ Of(d, "shutdown") = Of(c, "shutdown")
    BY <1>4
  <2> QED BY <1>5, <1>6, <2>1, Numbers DEF Count
<1>8. Ready(d, "handshake") \in {Ready(c, "handshake"), Ready(c, "handshake") + 1}
      /\ (op = "handshake" => Ready(d, "handshake") = Ready(c, "handshake") + 1)
  BY <1>3
<1>9. Connecting(d) => Connecting(c) /\ op # "handshake"
  BY <1>1, <1>6, <1>8, Numbers DEF Connecting, OneAttempt
<1>10. op = "handshake" => Connecting(c)
  <2>1. /\ Of(c, "resolve") \in Nat /\ Of(c, "connect") \in Nat /\ Of(c, "ssl") \in Nat
        /\ Ready(c, "handshake") \in Nat /\ c.resolving \in Nat
        /\ Of(c, "handshake") = One("handshake" \in c.pending) + Ready(c, "handshake")
    BY Numbers
  <2> QED BY <2>1 DEF Connecting, Steps, One
<1>11. Good(d, "write") = Good(c, "write") + One(op = "write" /\ ok)
  BY <1>3, Numbers DEF One
<1>12. OneAttempt(d)
  <2>1. Good(d, "write") > 0 => Good(c, "write") > 0 \/ Alive(c)
    BY <1>11, Numbers DEF Turns, One
  <2>2. Alive(c) => c.status # "closed"
    BY DEF Alive
  <2> QED BY <1>1, <1>6, <1>9, <2>1, <2>2 DEF OneAttempt, Turns
<1>13. Allowed(d) >= Allowed(c) /\ Allowed(c) \in Int /\ Allowed(d) \in Int
  <2>1. MaxUnsent \in Nat /\ c.unsent <= MaxUnsent + 1
    BY Bounded, WssAssumption DEF WssAssumption
  <2>2. /\ c.unsent >= One(c.m_writing) /\ Of(d, "write") = One(c.m_writing)
        /\ Good(d, "write") <= One(c.m_writing)
    <3>1. Good(d, "write") <= Ready(d, "write") /\ Ready(d, "write") <= Of(d, "write")
      BY Numbers DEF One
    <3> QED BY <1>1, <1>2, <1>4, <3>1, Numbers DEF Alone
  <2>3. CASE Connecting(d)
    BY <1>2, <1>9, <2>3, Numbers DEF Allowed
  <2>4. CASE Connecting(c) /\ ~Connecting(d)
    BY <1>2, <2>1, <2>2, <2>4, Numbers DEF Allowed, One
  <2>5. CASE ~Connecting(c)
    <3>1. op # "handshake" /\ ~Connecting(d)
      BY <1>9, <1>10, <2>5
    <3>2. CASE Alive(c) /\ Alive(d)
      <4>1. Ready(c, "write") = Good(c, "write") => Ready(d, "write") = Good(d, "write")
        <5>1. op = "write" => Ready(d, "write") = Ready(c, "write") + 1 /\ Good(d, "write") = Good(c, "write") + 1
          BY <1>3, <3>2 DEF Turns, One
        <5>2. op # "write" => Ready(d, "write") = Ready(c, "write") /\ Good(d, "write") = Good(c, "write")
          BY <1>3
        <5> QED BY <5>1, <5>2
      <4> QED BY <1>2, <2>1, <2>5, <3>1, <3>2, <4>1, Numbers DEF Allowed, One
    <3>3. CASE Alive(c) /\ ~Alive(d)
      BY <1>2, <2>1, <2>2, <2>5, <3>1, <3>3, Numbers DEF Allowed, One
    <3>4. CASE ~Alive(c)
      <4>1. ~Alive(d) /\ Good(d, "write") = Good(c, "write")
        BY <1>11, <3>1, <3>4, Numbers DEF Turns, One
      <4> QED BY <1>2, <2>1, <2>5, <3>1, <3>4, <4>1, Numbers DEF Allowed
    <3> QED BY <3>2, <3>3, <3>4
  <2> QED BY <2>3, <2>4, <2>5
<1>14. Closings(d) = Closings(c) /\ Closings(c) \in Int
  BY <1>2, <1>6, Numbers DEF Closings, AutoReconnect, One
<1>15. Counted(d)
  BY <1>1, <1>2, <1>7, <1>13, <1>14, Numbers DEF Counted
<1>16. Alone(d)
  BY <1>1, <1>2, <1>4 DEF Alone
<1>17. Leaving(d)
  <2>1. Of(d, "reconnect") = Of(c, "reconnect") /\ Of(d, "trade") = Of(c, "trade")
        /\ Of(d, "shutdown") = Of(c, "shutdown")
    BY <1>4
  <2> QED BY <1>1, <1>2, <1>5, <1>6, <2>1, Numbers DEF Leaving, AutoReconnect
<1> QED BY <1>1, <1>2, <1>12, <1>15, <1>16, <1>17 DEF Sound

\* The connection breaks.
LEMMA BreakSound ==
  ASSUME NEW c \in Client, Sound(c), Messages(c), Alive(c), NEW d \in Client,
         Same(c, d, {"status"}), d.status = "failed"
  PROVE  Sound(d)
<1>1. Alone(c) /\ OneAttempt(c) /\ Counted(c) /\ Leaving(c) /\ ~c.early /\ ~c.overlap
  BY DEF Sound
<1>2. /\ d.owner = c.owner /\ d.resolving = c.resolving /\ d.unsent = c.unsent
      /\ d.m_reading = c.m_reading /\ d.m_writing = c.m_writing /\ d.stopping = c.stopping
      /\ d.timers = c.timers /\ d.ping_wait = c.ping_wait /\ d.reconnect_wait = c.reconnect_wait
      /\ d.n_callbacks = c.n_callbacks /\ d.early = c.early /\ d.overlap = c.overlap
      /\ d.ready = c.ready /\ d.pending = c.pending
  BY DEF Same, Fields
<1>3. Level(c, d)
  BY <1>2, LevelIs
<1>4. Steps(d) = Steps(c) /\ Pings(d) = Pings(c) /\ Count(d) = Count(c)
      /\ (Connecting(d) <=> Connecting(c))
  BY <1>2, <1>3 DEF Level, Steps, Pings, Count, Connecting
<1>5. ~Connecting(c)
  BY <1>1 DEF OneAttempt, Alive
<1>6. Allowed(d) >= Allowed(c) /\ Allowed(c) \in Int /\ Allowed(d) \in Int
  <2>1. MaxUnsent \in Nat
    BY WssAssumption DEF WssAssumption
  <2>2. /\ c.unsent >= One(c.m_writing) /\ Good(c, "write") <= One(c.m_writing)
    <3>1. Good(c, "write") <= Ready(c, "write") /\ Ready(c, "write") <= Of(c, "write")
      BY Numbers DEF One
    <3> QED BY <1>1, <3>1, Numbers DEF Alone
  <2>3. ~Alive(d) /\ Good(d, "write") = Good(c, "write")
    BY <1>3 DEF Alive, Level
  <2> QED BY <1>2, <1>4, <1>5, <2>1, <2>2, <2>3, Numbers DEF Allowed, One
<1>7. Closings(d) = Closings(c) /\ Closings(c) \in Int
  BY <1>2, <1>4, Numbers DEF Closings, AutoReconnect, One
<1>8. Counted(d)
  BY <1>1, <1>2, <1>4, <1>6, <1>7, Numbers DEF Counted
<1>9. Alone(d) /\ OneAttempt(d) /\ Leaving(d)
  BY <1>1, <1>2, <1>3, <1>4, <1>5 DEF Level, Alone, OneAttempt, Leaving, AutoReconnect
<1> QED BY <1>1, <1>2, <1>8, <1>9 DEF Sound

\* A lookup or a wait of a timer becomes a handler.
LEMMA QueueSound ==
  ASSUME NEW c \in Client, Sound(c), NEW op \in {"resolve", "reconnect", "ping", "trade"},
         NEW d \in Client, Same(c, d, {"resolving", "ready", "reconnect_wait", "ping_wait", "timers"}),
         \A x : x # op => Of(d, x) = Of(c, x) /\ Ready(d, x) = Ready(c, x) /\ Good(d, x) = Good(c, x),
         Steps(d) = Steps(c), Pings(d) = Pings(c), Leaving(d)
  PROVE  Sound(d)
<1>1. Alone(c) /\ OneAttempt(c) /\ Counted(c) /\ ~c.early /\ ~c.overlap
  BY DEF Sound
<1>2. /\ d.owner = c.owner /\ d.unsent = c.unsent
      /\ d.m_reading = c.m_reading /\ d.m_writing = c.m_writing /\ d.stopping = c.stopping
      /\ d.n_callbacks = c.n_callbacks /\ d.early = c.early /\ d.overlap = c.overlap
      /\ d.status = c.status
  BY DEF Same, Fields
<1>3. Count(d) = Count(c) /\ (Connecting(d) <=> Connecting(c)) /\ (Alive(d) <=> Alive(c))
  BY <1>2 DEF Count, Connecting, Alive
<1>4. Allowed(d) = Allowed(c) /\ Closings(d) = Closings(c)
  BY <1>2, <1>3 DEF Allowed, Closings, AutoReconnect
<1>5. Counted(d) /\ Alone(d) /\ OneAttempt(d)
  BY <1>1, <1>2, <1>3, <1>4 DEF Counted, Alone, OneAttempt
<1> QED BY <1>1, <1>2, <1>5 DEF Sound

-----------------------------------------------------------------------------
(* The network                                                              *)

\* An operation on the stream ends.
LEMMA EndBalanced ==
  ASSUME IInv, Balanced(ws), NEW op \in StreamOps, op \in ws.pending,
         NEW ok \in BOOLEAN, NEW x, x = Done(ws, op, ok), NEW d \in Client, Same(x, d, {"status", "link"}),
         Turns(ws, d, op, ok)
  PROVE  Balanced(d)
<1>1. ws \in Client
  BY DEF IInv
<1>2. PICK c \in Client : c = ws
  BY <1>1
<1>3. Finishes(c, x, op, ok)
  BY <1>2, DoneFinishes
<1>4. d.ready = x.ready /\ d.pending = x.pending
  BY DEF Same, Fields
<1>5. Level(x, d)
  BY <1>4, LevelIs
<1>6. d.torn = c.torn /\ d.unsent = c.unsent
  BY <1>3 DEF Finishes, Same, Fields
<1>7. ~c.torn => Messages(d)
  <2>1. op # "ping"
    BY DEF StreamOps
  <2>2. Good(d, "ping") = Good(c, "ping")
    BY <1>3, <1>5, <2>1 DEF Finishes, Level
  <2> QED BY <1>2, <1>6, <2>2 DEF Balanced, Messages
<1>8. ~c.torn => Sound(d)
  BY <1>2, <1>3, <1>5, FinishSound DEF Balanced
<1> QED BY <1>6, <1>7, <1>8 DEF Balanced

\* One phase of connecting ends well.
LEMMA ConnectsBalanced ==
  ASSUME IInv, Balanced(ws), NEW op \in ConnectOps, Connects(op)
  PROVE  Balanced(ws')
<1>1. op \in ws.pending /\ op \in StreamOps /\ op # "write"
  BY DEF Connects, ConnectOps, StreamOps
<1>2. ws \in Client
  BY DEF IInv
<1>3. PICK ok \in BOOLEAN : ok = TRUE
  OBVIOUS
<1>4. PICK x : x = Done(ws, op, TRUE)
  OBVIOUS
<1>5. x \in Client /\ Same(ws, x, {"pending", "ready"}) /\ x = Done(ws, op, ok)
  BY <1>1, <1>2, <1>3, <1>4, DoneFinishes DEF Finishes
<1>6. x.status = ws.status
  BY <1>5 DEF Same, Fields
<1>7. CASE op = "handshake"
  <2>1. ws' = [x EXCEPT !.status = "open"]
    BY <1>4, <1>7 DEF Connects
  <2>2. PICK st \in Statuses : st = "open"
    BY DEF Statuses
  <2>3. PICK d \in Client : d = [x EXCEPT !.status = st]
    BY <1>5 DEF Client
  <2>4. Same(x, d, {"status", "link"})
    BY <2>3 DEF Same, Fields, Client
  <2>5. d = ws'
    BY <2>1, <2>2, <2>3
  <2>6. Turns(ws, d, op, ok)
    BY <1>7 DEF Turns
  <2>7. Balanced(d)
    BY <1>1, <1>5, <2>4, <2>6, EndBalanced
  <2> QED BY <2>5, <2>7
<1>8. CASE op # "handshake"
  <2>1. PICK l \in Links : ws' = [x EXCEPT !.link = l]
    <3>1. CASE op = "connect"
      <4>1. ws' = [x EXCEPT !.link = "tcp"]
        BY <1>4, <3>1 DEF Connects
      <4> QED BY <4>1 DEF Links
    <3>2. CASE op = "ssl"
      <4>1. ws' = [x EXCEPT !.link = "tls"]
        BY <1>4, <3>2 DEF Connects
      <4> QED BY <4>1 DEF Links
    <3> QED BY <1>8, <3>1, <3>2 DEF ConnectOps
  <2>2. PICK d \in Client : d = [x EXCEPT !.link = l]
    BY <1>5 DEF Client
  <2>3. Same(x, d, {"status", "link"}) /\ d.status = x.status
    BY <2>2 DEF Same, Fields, Client
  <2>4. Turns(ws, d, op, ok)
    BY <1>1, <1>6, <2>3 DEF Turns, Alive
  <2>5. Balanced(d)
    BY <1>1, <1>5, <2>3, <2>4, EndBalanced
  <2> QED BY <2>1, <2>2, <2>5
<1> QED BY <1>7, <1>8

\* An operation ends and leaves the connection as it is.
LEMMA OperationBalanced ==
  ASSUME IInv, Balanced(ws), NEW op \in StreamOps, op \in ws.pending,
         NEW ok \in BOOLEAN, op = "write" => (ok <=> Alive(ws)),
         ws' = Done(ws, op, ok)
  PROVE  Balanced(ws')
<1>1. PICK x : x = Done(ws, op, ok)
  OBVIOUS
<1>2. ws \in Client
  BY DEF IInv
<1>3. x \in Client /\ Same(ws, x, {"pending", "ready"})
  BY <1>1, <1>2, DoneFinishes DEF Finishes
<1>4. x.status = ws.status /\ Same(x, x, {"status", "link"})
  BY <1>3 DEF Same, Fields
<1>5. Turns(ws, x, op, ok)
  BY <1>4 DEF Turns, Alive
<1>6. Balanced(x)
  BY <1>1, <1>3, <1>4, <1>5, EndBalanced
<1> QED BY <1>1, <1>6

\* The closing handshake is over.
LEMMA ClosesBalanced == ASSUME IInv, Balanced(ws), Closes PROVE Balanced(ws')
<1>1. PICK op \in StreamOps, ok \in BOOLEAN : op = "close" /\ ok = TRUE
  BY DEF StreamOps
<1>2. PICK x : x = Done(ws, "close", TRUE)
  OBVIOUS
<1>3. /\ op \in ws.pending /\ ws.status = "closing"
      /\ ws' = [x EXCEPT !.status = "failed"]
  BY <1>1, <1>2 DEF Closes
<1>4. ws \in Client /\ x = Done(ws, op, ok)
  BY <1>1, <1>2 DEF IInv
<1>5. x \in Client
  BY <1>3, <1>4, DoneFinishes DEF Finishes
<1>6. PICK st \in Statuses : st = "failed"
  BY DEF Statuses
<1>7. PICK d \in Client : d = [x EXCEPT !.status = st]
  BY <1>5 DEF Client
<1>8. Same(x, d, {"status", "link"}) /\ d.status = "failed"
  BY <1>6, <1>7 DEF Same, Fields, Client
<1>9. Turns(ws, d, op, ok)
  BY <1>1, <1>3, <1>8 DEF Turns, Alive
<1>10. op # "write"
  BY <1>1
<1>11. Balanced(d)
  BY <1>3, <1>4, <1>8, <1>9, <1>10, EndBalanced
<1> QED BY <1>3, <1>6, <1>7, <1>11

\* The connection breaks.
LEMMA BreaksBalanced == ASSUME IInv, Balanced(ws), Breaks PROVE Balanced(ws')
<1>1. ws \in Client /\ Alive(ws)
  BY DEF IInv, Breaks
<1>2. PICK st \in Statuses : st = "failed"
  BY DEF Statuses
<1>3. PICK d \in Client : d = [ws EXCEPT !.status = st]
  BY <1>1 DEF Client
<1>4. d = ws'
  BY <1>2, <1>3 DEF Breaks
<1>5. Same(ws, d, {"status"}) /\ d.status = "failed"
  BY <1>1, <1>2, <1>3 DEF Same, Fields, Client
<1>6. d.torn = ws.torn /\ d.unsent = ws.unsent /\ d.ready = ws.ready
  BY <1>5 DEF Same, Fields
<1>7. ~ws.torn => Messages(d)
  BY <1>6, ReadySame DEF Balanced, Messages
<1>8. ~ws.torn => Sound(d)
  BY <1>1, <1>5, BreakSound DEF Balanced
<1> QED BY <1>4, <1>6, <1>7, <1>8 DEF Balanced

-----------------------------------------------------------------------------
(* Lookups and timers                                                       *)

Queued == {"resolve", "reconnect", "ping", "trade"}

\* From c to d by the handler of op that becomes ready; what waited for it was
\* one of these fields.
Queues(c, d, op, ok) ==
  /\ d \in Client /\ Same(c, d, {"resolving", "ready", "reconnect_wait", "ping_wait", "timers"})
  /\ \A x : x # op => Of(d, x) = Of(c, x) /\ Ready(d, x) = Ready(c, x) /\ Good(d, x) = Good(c, x)
  /\ Of(d, op) = Of(c, op) + 1 /\ Good(d, op) = Good(c, op) + One(ok)

\* What has been waited for becomes a ready handler.
LEMMA PostQueues ==
  ASSUME NEW c \in Client, NEW op \in Queued, NEW ok \in BOOLEAN,
         NEW b \in Client, Same(c, b, {"resolving", "reconnect_wait", "ping_wait", "timers"}),
         NEW d, d = Post(b, op, ok)
  PROVE  Queues(c, d, op, ok) /\ Same(b, d, {"ready"})
<1>1. op \in Handlers /\ op # "close" /\ op \notin StreamOps
  BY DEF Queued, Handlers, StreamOps
<1>2. d \in Client /\ Same(b, d, {"ready"}) /\ CountsOneMore(b, d, op, ok)
  BY <1>1, PostCounts
<1>3. b.ready = c.ready /\ b.pending = c.pending
  BY DEF Same, Fields
<1>4. Level(c, b)
  BY <1>3, LevelIs
<1>5. d.pending = c.pending
  BY <1>2, <1>3 DEF Same, Fields
<1>6. op \notin c.pending
  BY <1>1 DEF Client
<1>7. \A x : x # op => Of(d, x) = Of(c, x) /\ Ready(d, x) = Ready(c, x) /\ Good(d, x) = Good(c, x)
  BY <1>2, <1>4, <1>5 DEF CountsOneMore, Level, Of
<1>8. Ready(d, op) = Ready(c, op) + 1 /\ Good(d, op) = Good(c, op) + One(ok)
  BY <1>2, <1>4 DEF CountsOneMore, Level
<1>9. Of(d, op) = Of(c, op) + 1
  BY <1>2, <1>5, <1>6, <1>8, Numbers DEF One
<1>10. Same(c, d, {"resolving", "ready", "reconnect_wait", "ping_wait", "timers"})
  BY <1>2 DEF Same, Fields
<1> QED BY <1>2, <1>7, <1>8, <1>9, <1>10 DEF Queues

\* A lookup ends, and its handler is counted instead.
LEMMA LookupBalanced ==
  ASSUME IInv, Balanced(ws), ws.resolving > 0, NEW ok \in BOOLEAN,
         ws' = Post([ws EXCEPT !.resolving = @ - 1], "resolve", ok)
  PROVE  Balanced(ws')
<1>1. PICK c \in Client : c = ws
  BY DEF IInv
<1>2. PICK r \in Nat : r = c.resolving - 1
  BY <1>1, Numbers
<1>3. PICK b \in Client : b = [c EXCEPT !.resolving = r]
  BY DEF Client
<1>4. Same(c, b, {"resolving"}) /\ b.resolving = r
  BY <1>3 DEF Same, Fields, Client
<1>5. PICK op \in Queued : op = "resolve"
  BY DEF Queued
<1>6. PICK d : d = Post(b, op, ok)
  OBVIOUS
<1>7. d = ws'
  BY <1>1, <1>2, <1>3, <1>5, <1>6
<1>8. Same(c, b, {"resolving", "reconnect_wait", "ping_wait", "timers"})
  BY <1>4 DEF Same
<1>9. Queues(c, d, op, ok) /\ Same(b, d, {"ready"})
  BY <1>6, <1>8, PostQueues
<1>10. /\ d.torn = c.torn /\ d.unsent = c.unsent /\ d.ping_wait = c.ping_wait
       /\ d.reconnect_wait = c.reconnect_wait /\ d.timers = c.timers /\ d.owner = c.owner
       /\ d.resolving = r
  BY <1>4, <1>9 DEF Queues, Same, Fields
<1>11. /\ Good(d, "write") = Good(c, "write") /\ Good(d, "ping") = Good(c, "ping")
       /\ Of(d, "connect") = Of(c, "connect") /\ Of(d, "ssl") = Of(c, "ssl")
       /\ Of(d, "handshake") = Of(c, "handshake") /\ Of(d, "ping") = Of(c, "ping")
       /\ Of(d, "reconnect") = Of(c, "reconnect") /\ Of(d, "trade") = Of(c, "trade")
       /\ Of(d, "close") = Of(c, "close") /\ Of(d, "shutdown") = Of(c, "shutdown")
       /\ Of(d, "resolve") = Of(c, "resolve") + 1
  BY <1>5, <1>9 DEF Queues
<1>12. ~ws.torn => Messages(d)
  BY <1>1, <1>10, <1>11 DEF Balanced, Messages
<1>13. Steps(d) = Steps(c) /\ Pings(d) = Pings(c)
  BY <1>2, <1>10, <1>11, Numbers DEF Steps, Pings
<1>14. ASSUME Sound(c) PROVE Sound(d)
  <2>1. Leaving(d)
    BY <1>10, <1>11, <1>13, <1>14 DEF Sound, Leaving, AutoReconnect
  <2>2. d \in Client
    BY <1>9 DEF Queues
  <2> QED BY <1>9, <1>13, <1>14, <2>1, <2>2, QueueSound DEF Queued, Queues
<1> QED BY <1>1, <1>7, <1>10, <1>12, <1>14 DEF Balanced

\* The reconnect timer expires: it is not the trade owner's.
LEMMA ReconnectDueBalanced == ASSUME IInv, Balanced(ws), ReconnectDue PROVE Balanced(ws')
<1>1. PICK c \in Client : c = ws
  BY DEF IInv
<1>2. PICK f, ok \in BOOLEAN : f = FALSE /\ ok = TRUE
  OBVIOUS
<1>3. PICK b \in Client : b = [c EXCEPT !.reconnect_wait = f]
  BY <1>2 DEF Client
<1>4. Same(c, b, {"reconnect_wait"})
  BY <1>3 DEF Same, Fields, Client
<1>5. PICK op \in Queued : op = "reconnect"
  BY DEF Queued
<1>6. PICK d : d = Post(b, op, ok)
  OBVIOUS
<1>7. d = ws' /\ c.reconnect_wait
  BY <1>1, <1>2, <1>3, <1>5, <1>6 DEF ReconnectDue
<1>8. Same(c, b, {"resolving", "reconnect_wait", "ping_wait", "timers"})
  BY <1>4 DEF Same
<1>9. Queues(c, d, op, ok) /\ Same(b, d, {"ready"})
  BY <1>6, <1>8, PostQueues
<1>10. /\ d.torn = c.torn /\ d.unsent = c.unsent /\ d.ping_wait = c.ping_wait
       /\ d.owner = c.owner /\ d.resolving = c.resolving
  BY <1>4, <1>9 DEF Queues, Same, Fields
<1>11. \A x : x # "reconnect" => Of(d, x) = Of(c, x) /\ Good(d, x) = Good(c, x)
  BY <1>5, <1>9 DEF Queues
<1>12. ~ws.torn => Messages(d)
  BY <1>1, <1>10, <1>11 DEF Balanced, Messages
<1>13. Steps(d) = Steps(c) /\ Pings(d) = Pings(c)
  BY <1>10, <1>11 DEF Steps, Pings
<1>14. ASSUME Sound(c) PROVE Sound(d)
  <2>1. AutoReconnect(c)
    BY <1>7, <1>14 DEF Sound, Leaving
  <2>2. Leaving(d)
    BY <1>10, <2>1 DEF Leaving, AutoReconnect
  <2>3. d \in Client
    BY <1>9 DEF Queues
  <2> QED BY <1>9, <1>13, <1>14, <2>2, <2>3, QueueSound DEF Queued, Queues
<1> QED BY <1>1, <1>7, <1>10, <1>12, <1>14 DEF Balanced

\* The ping timer expires: its handler will add one message.
LEMMA PingDueBalanced == ASSUME IInv, Balanced(ws), PingDue PROVE Balanced(ws')
<1>1. PICK c \in Client : c = ws
  BY DEF IInv
<1>2. PICK f, ok \in BOOLEAN : f = FALSE /\ ok = TRUE
  OBVIOUS
<1>3. PICK b \in Client : b = [c EXCEPT !.ping_wait = f]
  BY <1>2 DEF Client
<1>4. Same(c, b, {"ping_wait"}) /\ b.ping_wait = f
  BY <1>3 DEF Same, Fields, Client
<1>5. PICK op \in Queued : op = "ping"
  BY DEF Queued
<1>6. PICK d : d = Post(b, op, ok)
  OBVIOUS
<1>7. d = ws' /\ c.ping_wait /\ ~(Ready(c, "ping") > 0)
      /\ (c.unsent < MaxUnsent \/ c.unsent > MaxUnsent + 1)
  BY <1>1, <1>2, <1>3, <1>5, <1>6 DEF PingDue, Has, FewWait
<1>8. Same(c, b, {"resolving", "reconnect_wait", "ping_wait", "timers"})
  BY <1>4 DEF Same
<1>9. Queues(c, d, op, ok) /\ Same(b, d, {"ready"})
  BY <1>6, <1>8, PostQueues
<1>10. /\ d.torn = c.torn /\ d.unsent = c.unsent /\ d.reconnect_wait = c.reconnect_wait
       /\ d.timers = c.timers /\ d.owner = c.owner /\ d.resolving = c.resolving
       /\ ~d.ping_wait
  BY <1>2, <1>4, <1>9 DEF Queues, Same, Fields
<1>11. /\ \A x : x # "ping" => Of(d, x) = Of(c, x) /\ Good(d, x) = Good(c, x)
       /\ Of(d, "ping") = Of(c, "ping") + 1 /\ Good(d, "ping") = Good(c, "ping") + 1
  BY <1>2, <1>5, <1>9 DEF Queues, One
<1>12. ~ws.torn => Messages(d)
  <2>1. Good(c, "ping") = 0
    BY <1>7, Numbers
  <2>2. MaxUnsent \in Nat /\ c.unsent \in Nat
    BY Numbers, WssAssumption DEF WssAssumption
  <2> QED BY <1>1, <1>7, <1>10, <1>11, <2>1, <2>2 DEF Balanced, Messages
<1>13. Steps(d) = Steps(c) /\ Pings(d) = Pings(c)
  <2>1. Of(c, "ping") \in Nat
    BY Numbers
  <2> QED BY <1>7, <1>10, <1>11, <2>1 DEF Steps, Pings, One
<1>14. ASSUME Sound(c) PROVE Sound(d)
  <2>1. Leaving(d)
    BY <1>10, <1>11, <1>13, <1>14 DEF Sound, Leaving, AutoReconnect
  <2>2. d \in Client
    BY <1>9 DEF Queues
  <2> QED BY <1>9, <1>13, <1>14, <2>1, <2>2, QueueSound DEF Queued, Queues
<1> QED BY <1>1, <1>7, <1>10, <1>12, <1>14 DEF Balanced

\* A timer of the trade owner expires.
LEMMA TradeDueBalanced == ASSUME IInv, Balanced(ws), TradeDue PROVE Balanced(ws')
<1>1. PICK c \in Client : c = ws
  BY DEF IInv
<1>2. PICK ok \in BOOLEAN : ok = TRUE
  OBVIOUS
<1>3. PICK n \in 0 .. MaxSpins : n = c.timers - 1 /\ c.timers > 0
  BY <1>1, WssAssumption DEF TradeDue, Client, WssAssumption
<1>4. PICK b \in Client : b = [c EXCEPT !.timers = n]
  BY DEF Client
<1>5. Same(c, b, {"timers"})
  BY <1>4 DEF Same, Fields, Client
<1>6. PICK op \in Queued : op = "trade"
  BY DEF Queued
<1>7. PICK d : d = Post(b, op, ok)
  OBVIOUS
<1>8. d = ws'
  BY <1>1, <1>2, <1>3, <1>4, <1>6, <1>7 DEF TradeDue
<1>9. Same(c, b, {"resolving", "reconnect_wait", "ping_wait", "timers"})
  BY <1>5 DEF Same
<1>10. Queues(c, d, op, ok) /\ Same(b, d, {"ready"})
  BY <1>7, <1>9, PostQueues
<1>11. /\ d.torn = c.torn /\ d.unsent = c.unsent /\ d.reconnect_wait = c.reconnect_wait
       /\ d.ping_wait = c.ping_wait /\ d.owner = c.owner /\ d.resolving = c.resolving
  BY <1>5, <1>10 DEF Queues, Same, Fields
<1>12. \A x : x # "trade" => Of(d, x) = Of(c, x) /\ Good(d, x) = Good(c, x)
  BY <1>6, <1>10 DEF Queues
<1>13. ~ws.torn => Messages(d)
  BY <1>1, <1>11, <1>12 DEF Balanced, Messages
<1>14. Steps(d) = Steps(c) /\ Pings(d) = Pings(c)
  BY <1>11, <1>12 DEF Steps, Pings
<1>15. ASSUME Sound(c) PROVE Sound(d)
  <2>1. Leaving(d)
    BY <1>3, <1>11, <1>12, <1>14, <1>15 DEF Sound, Leaving, AutoReconnect
  <2>2. d \in Client
    BY <1>10 DEF Queues
  <2> QED BY <1>10, <1>14, <1>15, <2>1, <2>2, QueueSound DEF Queued, Queues
<1> QED BY <1>1, <1>8, <1>11, <1>13, <1>15 DEF Balanced

-----------------------------------------------------------------------------
(* The balance of every reachable state                                     *)

\* The network's part.
LEMMA NetworkBalanced == ASSUME IInv, Balanced(ws), Network PROVE Balanced(ws')
<1>1. CASE LookupSucceeds
  BY <1>1, LookupBalanced DEF LookupSucceeds
<1>2. CASE LookupFails
  BY <1>2, LookupBalanced DEF LookupFails
<1>3. ASSUME NEW op \in ConnectOps, Connects(op) \/ ConnectFails(op) PROVE Balanced(ws')
  <2>1. CASE Connects(op)
    BY <2>1, ConnectsBalanced
  <2>2. CASE ConnectFails(op)
    <3>1. op \in StreamOps /\ op # "write"
      BY DEF ConnectOps, StreamOps
    <3>2. op \in ws.pending /\ ws' = Done(ws, op, FALSE)
      BY <2>2 DEF ConnectFails
    <3> QED BY <3>1, <3>2, OperationBalanced
  <2> QED BY <1>3, <2>1, <2>2
<1>4. ASSUME NEW op \in {"read", "write"}, Transfers(op) PROVE Balanced(ws')
  <2>1. op \in StreamOps
    BY DEF StreamOps
  <2>2. op \in ws.pending /\ Alive(ws) /\ ws' = Done(ws, op, TRUE)
    BY <1>4 DEF Transfers
  <2> QED BY <2>1, <2>2, OperationBalanced
<1>5. ASSUME NEW op \in {"read", "write", "close"}, Fails(op) PROVE Balanced(ws')
  <2>1. op \in StreamOps
    BY DEF StreamOps
  <2>2. op \in ws.pending /\ ~Alive(ws) /\ ws' = Done(ws, op, FALSE)
    BY <1>5 DEF Fails
  <2> QED BY <2>1, <2>2, OperationBalanced
<1> QED BY <1>1, <1>2, <1>3, <1>4, <1>5, ClosesBalanced, BreaksBalanced DEF Network

\* No step upsets the balance.
LEMMA StepBalanced == ASSUME IInv, Balanced(ws), Next PROVE Balanced(ws')
<1>1. CASE RunHandler
  BY <1>1, PhaseBalanced, OnHandshakeBalanced, OnWriteBalanced, OnReadBalanced,
     ReconnectTimerBalanced, PingTimerBalanced, TradeTimerBalanced DEF RunHandler
<1> QED BY <1>1, NetworkBalanced, ReconnectDueBalanced, PingDueBalanced, TradeDueBalanced,
           UserSendsBalanced, UserClosesBalanced DEF Next

\* At first one lookup is under way, and nothing else.
LEMMA InitBalanced == ASSUME Init PROVE Balanced(ws)
<1>1. PICK d \in Client : d = ws
  BY InitKeeps DEF IInv
<1>2. PICK c \in Fresh : d = BindResolveConnect(c)
  BY <1>1 DEF Init
<1>3. PICK n : n = (c.n_callbacks + 1) % Wrap
  OBVIOUS
<1>4. n = 1 /\ MaxUnsent \in Nat
  <2>1. 1 \in 0 .. Wrap - 1 /\ MaxUnsent \in Nat
    BY WssAssumption, WrapAssumption DEF WssAssumption, WrapAssumption
  <2>2. 1 % Wrap = 1
    BY <2>1, Exact
  <2> QED BY <1>3, <2>1, <2>2 DEF Fresh
<1>5. d = [c EXCEPT !.n_callbacks = n, !.resolving = @ + 1]
  BY <1>2, <1>3 DEF BindResolveConnect
<1>6. /\ d.status = "closed" /\ d.ready = <<>> /\ d.pending = {} /\ d.resolving = 1
      /\ d.n_callbacks = 1 /\ ~d.m_reading /\ ~d.m_writing /\ d.unsent = 0
      /\ ~d.reconnect_wait /\ ~d.ping_wait /\ ~d.stopping /\ d.timers = 0
      /\ ~d.overlap /\ ~d.early
  <2>1. /\ c.status = "closed" /\ c.ready = <<>> /\ c.pending = {} /\ c.resolving = 0
        /\ ~c.m_reading /\ ~c.m_writing /\ c.unsent = 0
    BY DEF Fresh
  <2>2. /\ ~c.reconnect_wait /\ ~c.ping_wait /\ ~c.stopping /\ c.timers = 0
        /\ ~c.overlap /\ ~c.early
    BY DEF Fresh
  <2>3. d.n_callbacks = n /\ d.resolving = c.resolving + 1
    BY <1>5 DEF Fresh
  <2>4. Same(c, d, {"n_callbacks", "resolving"})
    BY <1>5 DEF Same, Fields, Fresh
  <2> QED BY <1>4, <2>1, <2>2, <2>3, <2>4 DEF Same, Fields
<1>7. \A x : Ready(d, x) = 0 /\ Good(d, x) = 0 /\ Of(d, x) = 0
  <2>1. DOMAIN d.ready = {}
    BY <1>6
  <2>2. \A x : ~WaitsAny(d, x)
    BY <2>1 DEF WaitsAny
  <2>3. \A x : Ready(d, x) = 0
    BY <2>2, ReadyIs
  <2> QED BY <1>6, <2>3, Numbers DEF One
<1>8. Steps(d) = 1 /\ Count(d) = 1 /\ Pings(d) = 0
  BY <1>6, <1>7 DEF Steps, Count, Pings, One
<1>9. Connecting(d)
  BY <1>7, <1>8 DEF Connecting
<1>10. Messages(d)
  BY <1>4, <1>6, <1>7 DEF Messages
<1>11. Alone(d) /\ OneAttempt(d)
  BY <1>6, <1>7, <1>8 DEF Alone, OneAttempt, One
<1>12. Allowed(d) = 0 /\ Closings(d) = 0
  BY <1>6, <1>8, <1>9 DEF Allowed, Closings, One
<1>13. Counted(d) /\ Leaving(d)
  BY <1>6, <1>7, <1>8, <1>12 DEF Counted, Leaving
<1> QED BY <1>1, <1>6, <1>10, <1>11, <1>13 DEF Balanced, Sound

Balance == Balanced(ws)

\* Until a reconnect replaces a stream that is still in use, n_callbacks is at
\* least the number of operations and handlers under way and stays below Wrap,
\* one attempt to connect is under way at a time, the stream has one reader and
\* one writer, who has a message to write, and the messages that wait are few.
THEOREM CallbacksAreCounted == Spec => []Balance
<1>1. Init => Balance
  BY InitBalanced DEF Balance
<1>2. IInv /\ Balance /\ [Next]_vars => Balance'
  <2>1. ASSUME IInv, Balance, Next PROVE Balance'
    BY <2>1, StepBalanced DEF Balance
  <2>2. ASSUME Balance, UNCHANGED vars PROVE Balance'
    <3>1. ws' = ws
      BY <2>2 DEF vars
    <3> QED BY <2>2, <3>1 DEF Balance
  <2> QED BY <2>1, <2>2
<1> QED BY <1>1, <1>2, Invariant, PTL DEF Spec

\* Every part of the client keeps its type; and until a reconnect replaces a
\* stream that is still in use, the indices of send_sizes are apart by the few
\* messages that wait: nothing is taken off an empty queue.
THEOREM TypeCorrect == Spec => []TypeOK
<1>1. ASSUME IInv, Balance PROVE TypeOK
  <2>1. ws \in Client /\ faults \in 0 .. MaxFaults /\ lookups \in 0 .. MaxLookups
    BY <1>1 DEF IInv
  <2>2. PICK c \in Client : c = ws
    BY <2>1
  <2>3. /\ c.status \in {"closed", "open", "closing", "failed"} /\ c.link \in {"none", "tcp", "tls"}
        /\ c.pending \subseteq StreamOps /\ c.ready \in Seq(Handlers \X BOOLEAN)
        /\ c.resolving \in Nat /\ c.n_callbacks \in 0 .. Wrap - 1
        /\ c.timers \in 0 .. MaxSpins /\ c.owner \in Owners
    BY DEF Client, Statuses, Links, Entry
  <2>4. \A f \in {c.m_reading, c.m_writing, c.reconnect_wait, c.ping_wait,
                  c.stopping, c.torn, c.overlap, c.early} : f \in BOOLEAN
    BY DEF Client
  <2>5. c.unsent \in 0 .. Wrap - 1 /\ (~c.torn => c.unsent <= MaxUnsent + 1)
    <3>1. ~c.torn => Messages(c) /\ Sound(c)
      BY <1>1, <2>2 DEF Balance, Balanced
    <3> QED BY <3>1, Bounded DEF Client
  <2> QED BY <2>1, <2>2, <2>3, <2>4, <2>5 DEF TypeOK
<1> QED BY <1>1, Invariant, CallbacksAreCounted, PTL

\* on_close comes last: n_callbacks does not reach zero while something of the
\* client is under way, and no operation of a kind begins while another is
\* pending, as long as no reconnect replaced a stream that was still in use.
THEOREM OnCloseComesLast == Spec => []OnCloseMeansIdle
<1>1. ASSUME Balance PROVE OnCloseMeansIdle
  BY <1>1 DEF Balance, Balanced, Sound, OnCloseMeansIdle
<1> QED BY <1>1, CallbacksAreCounted, PTL

-----------------------------------------------------------------------------
(* What the owner is promised (Connection)                                   *)

\* Operations whose success leads on towards a connection.
Phases == {"resolve", "connect", "ssl"}

\* Ready handlers, counted or not.
LEMMA PassedIs ==
  ASSUME NEW c \in Client, NEW op
  PROVE  Passed(c, op) <=> Good(c, op) > 0
<1> DEFINE S == {i \in DOMAIN c.ready : c.ready[i] = <<op, TRUE>>}
<1>1. c.ready \in Seq(Entry)
  BY DEF Client
<1>2. Len(c.ready) \in Nat /\ DOMAIN c.ready = 1 .. Len(c.ready)
  BY <1>1, LenProperties
<1>3. IsFiniteSet(DOMAIN c.ready)
  BY <1>2, FS_Interval
<1>4. IsFiniteSet(S)
  BY <1>3, FS_Subset
<1>5. Cardinality(S) \in Nat /\ (Cardinality(S) = 0 <=> S = {})
  BY <1>4, FS_CardinalityType, FS_EmptySet
<1>6. Passed(c, op) <=> \E i \in DOMAIN c.ready : i \in S
  BY DEF Passed
<1>7. Good(c, op) = Cardinality(S)
  BY DEF Good
<1>8. (\E i \in DOMAIN c.ready : i \in S) <=> S # {}
  OBVIOUS
<1> HIDE DEF S
<1> QED BY <1>5, <1>6, <1>7, <1>8

\* The phases of connecting come one after the other, and only close() closes.
Staged(c) ==
  /\ "connect" \in c.pending => c.link = "none"
  /\ "ssl" \in c.pending => c.link = "tcp"
  /\ "handshake" \in c.pending => c.link = "tls" /\ c.status = "closed"
  /\ c.status = "closing" => c.stopping

\* In d the stream is as it was in c, and nothing more is under way on it that
\* leads on towards a connection.
Quiet(c, d) ==
  /\ d \in Client
  /\ d.owner = c.owner /\ d.stopping = c.stopping /\ d.status = c.status /\ d.link = c.link
  /\ d.resolving <= c.resolving
  /\ \A op \in ConnectOps : op \in d.pending => op \in c.pending
  /\ \A op \in Phases : Good(d, op) <= Good(c, op)

\* In d the owner finds the stream as it was in c, and no nearer to a connection.
Fades(c, d) ==
  /\ d \in Client
  /\ d.owner = c.owner /\ d.stopping = c.stopping /\ d.status = c.status
  /\ Staged(c) => Staged(d) /\ (WayUp(d) => WayUp(c))

\* Then no connection comes of it either.
LEMMA QuietFades == ASSUME NEW c \in Client, NEW d, Quiet(c, d) PROVE Fades(c, d)
<1> USE DEF Quiet
<1>1. d \in Client /\ c.resolving \in Nat /\ d.resolving \in Nat
  BY DEF Client
<1>2. Staged(c) => Staged(d)
  BY DEF Staged, ConnectOps
<1>3. \A op \in Phases : Passed(d, op) => Passed(c, op)
  BY <1>1, PassedIs, Numbers
<1>4. WayUp(d) => WayUp(c)
  BY <1>1, <1>3 DEF WayUp, Phases, ConnectOps
<1> QED BY <1>1, <1>2, <1>4 DEF Fades

\* Calls that leave the stream alone compose.
LEMMA QuietMore ==
  ASSUME NEW c \in Client, NEW d, NEW e, Quiet(c, d), Quiet(d, e)
  PROVE  Quiet(c, e)
<1>1. c.resolving \in Nat /\ d.resolving \in Nat /\ e.resolving \in Nat
  BY DEF Quiet, Client
<1>2. \A op : Good(c, op) \in Nat /\ Good(d, op) \in Nat /\ Good(e, op) \in Nat
  BY Numbers DEF Quiet
<1> QED BY <1>1, <1>2 DEF Quiet

\* Such calls compose too.
LEMMA FadesMore ==
  ASSUME NEW c \in Client, NEW d, NEW e, Fades(c, d), Fades(d, e)
  PROVE  Fades(c, e)
BY DEF Fades

\* A call that counts, or changes a flag of the client.
Inner == {"n_callbacks", "m_reading", "m_writing", "unsent", "reconnect_wait", "ping_wait",
          "timers", "torn", "overlap", "early"}
\* It leaves the stream alone.
LEMMA InnerIsQuiet ==
  ASSUME NEW c \in Client, NEW d \in Client, Same(c, d, Inner)
  PROVE  Quiet(c, d)
<1>1. /\ d.owner = c.owner /\ d.stopping = c.stopping /\ d.status = c.status /\ d.link = c.link
      /\ d.resolving = c.resolving /\ d.pending = c.pending /\ d.ready = c.ready
  BY DEF Same, Fields, Inner
<1>2. c.resolving \in Nat /\ \A op : Good(d, op) = Good(c, op) /\ Good(c, op) \in Nat
  BY <1>1, ReadySame, Numbers
<1> QED BY <1>1, <1>2 DEF Quiet

\* A handler becomes ready that does not lead on.
LEMMA PostIsQuiet ==
  ASSUME NEW c \in Client, NEW op \in Handlers, NEW ok \in BOOLEAN, ok => op \notin Phases,
         NEW d, d = Post(c, op, ok)
  PROVE  Quiet(c, d)
<1>1. /\ d \in Client /\ Same(c, d, {"ready"})
      /\ CountsOneMore(c, d, op, ok) \/ d = c
  BY PostCounts
<1>2. /\ d.owner = c.owner /\ d.stopping = c.stopping /\ d.status = c.status /\ d.link = c.link
      /\ d.resolving = c.resolving /\ d.pending = c.pending
  BY <1>1 DEF Same, Fields
<1>3. c.resolving \in Nat /\ \A x : Good(c, x) \in Nat
  BY Numbers
<1>4. \A x \in Phases : Good(d, x) <= Good(c, x)
  BY <1>1, <1>3 DEF CountsOneMore, One
<1> QED BY <1>1, <1>2, <1>3, <1>4 DEF Quiet

\* What an operation that begins does to the stream.
LEMMA AsyncStays ==
  ASSUME NEW c \in Client, NEW op \in (StreamOps \ {"close"}) \cup {"shutdown"},
         NEW d, d = Async(c, op)
  PROVE  /\ Begins(c, d, op) /\ d.status = c.status
         /\ \A x : x # op => (x \in d.pending <=> x \in c.pending)
         /\ op \in d.pending => op \in c.pending \/ Possible(c, op)
<1>0. Begins(c, d, op)
  BY AsyncBegins
<1>1. \A x : x # op => (x \in d.pending <=> x \in c.pending)
  <2>1. \A x : One(x \in c.pending) = Of(c, x) - Ready(c, x) /\ One(x \in d.pending) = Of(d, x) - Ready(d, x)
    BY <1>0, Numbers DEF Begins, One
  <2> QED BY <1>0, <2>1 DEF Begins, One
<1>2. PICK n \in 0 .. Wrap - 1 : n = (c.n_callbacks + 1) % Wrap
  <2>1. c.n_callbacks + 1 \in Int
    BY DEF Client
  <2> QED BY <2>1, Modulo
<1>3. PICK b \in Client : b = [c EXCEPT !.n_callbacks = n]
  BY DEF Client
<1>4. b.status = c.status /\ b.pending = c.pending
  BY <1>3 DEF Client
<1>5. op \in Handlers /\ op # "close"
  BY DEF Handlers, StreamOps
<1>6. CASE ~Possible(c, op)
  <2>1. d = Post(b, op, FALSE)
    BY <1>2, <1>3, <1>6 DEF Async
  <2>2. Same(b, d, {"ready"})
    BY <1>5, <2>1, PostCounts
  <2> QED BY <1>0, <1>1, <1>4, <2>2 DEF Same, Fields
<1>7. CASE Possible(c, op)
  <2>1. d = [b EXCEPT !.pending = c.pending \cup {op},
                      !.overlap = b.overlap \/ op \in c.pending \cap {"read", "write"}]
    BY <1>2, <1>3, <1>4, <1>5, <1>7 DEF Async, Client
  <2>2. d.status = c.status
    BY <1>4, <2>1 DEF Client
  <2> QED BY <1>0, <1>1, <1>7, <2>2
<1> QED BY <1>6, <1>7

\* Reading, writing and shutting down do not lead on.
LEMMA AsyncIsQuiet ==
  ASSUME NEW c \in Client, NEW op \in {"read", "write", "shutdown"}, NEW d, d = Async(c, op)
  PROVE  Quiet(c, d)
<1>1. op \in (StreamOps \ {"close"}) \cup {"shutdown"}
  BY DEF StreamOps
<1>2. /\ Begins(c, d, op) /\ d.status = c.status
      /\ \A x : x # op => (x \in d.pending <=> x \in c.pending)
  BY <1>1, AsyncStays
<1>3. d \in Client /\ d.owner = c.owner /\ d.stopping = c.stopping /\ d.link = c.link
      /\ d.resolving = c.resolving
  BY <1>2 DEF Begins, Same, Fields
<1>4. c.resolving \in Nat /\ \A x : Good(d, x) = Good(c, x) /\ Good(c, x) \in Nat
  BY <1>2, Numbers DEF Begins
<1> QED BY <1>2, <1>3, <1>4 DEF Quiet, ConnectOps

\* leave_callback.
LEMMA LeaveIsQuiet == ASSUME NEW c \in Client, NEW d, d = LeaveCallback(c) PROVE Quiet(c, d)
<1>1. Leaves(c, d)
  BY LeaveCallbackLeaves
<1>2. d \in Client /\ Same(c, d, Inner)
  BY <1>1 DEF Leaves, Same, Inner
<1> QED BY <1>2, InnerIsQuiet

\* A failure, where the library reconnects, and one that is only reported.
LEMMA FailedIsQuiet ==
  ASSUME NEW c \in Client, AutoReconnect(c)
  PROVE  Quiet(c, Failed(c)) /\ Quiet(c, LeaveCallback(OnError(c)))
<1>1. OnError(c) = c
  BY OnErrorAdds
<1>2. PICK d : d = StartReconnect(c)
  OBVIOUS
<1>3. Quiet(c, d)
  <2>1. CASE c.stopping
    <3>1. d = c /\ Same(c, d, Inner)
      BY <1>2, <2>1 DEF StartReconnect, Same
    <3> QED BY <3>1, InnerIsQuiet
  <2>2. CASE ~c.stopping
    <3>1. PICK n \in 0 .. Wrap - 1 : n = (c.n_callbacks + 1) % Wrap
      <4>1. c.n_callbacks + 1 \in Int
        BY DEF Client
      <4> QED BY <4>1, Modulo
    <3>2. PICK f \in BOOLEAN : f = TRUE
      OBVIOUS
    <3>3. PICK e \in Client : e = [c EXCEPT !.n_callbacks = n, !.reconnect_wait = f]
      BY DEF Client
    <3>4. d = e
      BY <1>2, <2>2, <3>1, <3>2, <3>3 DEF StartReconnect
    <3>5. Same(c, e, Inner)
      BY <3>3 DEF Same, Fields, Client, Inner
    <3> QED BY <3>4, <3>5, InnerIsQuiet
  <2> QED BY <2>1, <2>2
<1>4. d \in Client
  BY <1>3 DEF Quiet
<1>5. PICK e : e = LeaveCallback(d)
  OBVIOUS
<1>6. Quiet(d, e)
  BY <1>4, <1>5, LeaveIsQuiet
<1>7. Quiet(c, e)
  BY <1>3, <1>6, QuietMore
<1>8. Failed(c) = e
  BY <1>1, <1>2, <1>5 DEF Failed, ProcessError
<1>9. PICK g : g = LeaveCallback(c)
  OBVIOUS
<1>10. Quiet(c, g)
  BY <1>9, LeaveIsQuiet
<1> QED BY <1>1, <1>7, <1>8, <1>9, <1>10

\* The ping timer.
LEMMA StartPingPongIsQuiet == ASSUME NEW c \in Client, NEW d, d = StartPingPong(c) PROVE Quiet(c, d)
<1>1. StartsPing(c, d)
  BY StartPingPongStarts
<1>2. /\ d \in Client /\ d.owner = c.owner /\ d.stopping = c.stopping /\ d.status = c.status
      /\ d.link = c.link /\ d.resolving = c.resolving /\ d.pending = c.pending
  BY <1>1 DEF StartsPing, Same, Fields
<1>3. c.resolving \in Nat /\ \A x : Good(d, x) = Good(c, x) /\ Good(c, x) \in Nat
  BY <1>1, Numbers DEF StartsPing
<1> QED BY <1>2, <1>3 DEF Quiet

\* send.
LEMMA SendIsQuiet == ASSUME NEW c \in Client, NEW d, d = Send(c) PROVE Quiet(c, d)
<1>1. PICK u \in 0 .. Wrap - 1 : u = (c.unsent + 1) % Wrap
  BY CountedModulo
<1>2. PICK f \in BOOLEAN : f = TRUE
  OBVIOUS
<1>3. PICK b \in Client : b = [c EXCEPT !.unsent = u]
  BY DEF Client
<1>4. PICK e \in Client : e = [b EXCEPT !.m_writing = f]
  BY DEF Client
<1>5. Same(c, b, Inner) /\ Same(b, e, Inner)
  BY <1>3, <1>4 DEF Same, Fields, Client, Inner
<1>6. Quiet(c, b) /\ Quiet(b, e)
  BY <1>5, InnerIsQuiet
<1>7. d = IF b.m_writing THEN b ELSE Async(e, "write")
  BY <1>1, <1>2, <1>3, <1>4 DEF Send, SendNext
<1>8. CASE b.m_writing
  BY <1>6, <1>7, <1>8
<1>9. CASE ~b.m_writing
  <2>1. Quiet(e, d)
    BY <1>7, <1>9, AsyncIsQuiet
  <2>2. Quiet(c, e)
    BY <1>6, QuietMore
  <2> QED BY <2>1, <2>2, QuietMore
<1> QED BY <1>8, <1>9

\* receive.
LEMMA ReceiveIsQuiet == ASSUME NEW c \in Client, NEW d, d = Receive(c) PROVE Quiet(c, d)
<1>1. CASE c.m_reading
  <2>1. d = c /\ Same(c, d, Inner)
    BY <1>1 DEF Receive, Same
  <2> QED BY <2>1, InnerIsQuiet
<1>2. CASE ~c.m_reading
  <2>1. PICK f \in BOOLEAN : f = TRUE
    OBVIOUS
  <2>2. PICK b \in Client : b = [c EXCEPT !.m_reading = f]
    BY DEF Client
  <2>3. Same(c, b, Inner)
    BY <2>2 DEF Same, Fields, Client, Inner
  <2>4. d = Async(b, "read")
    BY <1>2, <2>1, <2>2 DEF Receive
  <2>5. Quiet(b, d)
    BY <2>4, AsyncIsQuiet
  <2>6. Quiet(c, b)
    BY <2>3, InnerIsQuiet
  <2> QED BY <2>5, <2>6, QuietMore
<1> QED BY <1>1, <1>2

\* A handler is taken off the queue.
LEMMA TakenIsQuiet ==
  ASSUME IInv, ws.ready # <<>>, NEW op, NEW ok \in BOOLEAN, Head(ws.ready) = <<op, ok>>
  PROVE  Quiet(ws, Taken) /\ (ok => Good(ws, op) > 0)
<1>1. Takes(ws, Taken, op, ok) /\ ws \in Client
  BY TakenTakes DEF IInv
<1>2. PICK c \in Client : c = Taken /\ Takes(ws, c, op, ok)
  BY <1>1 DEF Takes
<1>3. /\ c.owner = ws.owner /\ c.stopping = ws.stopping /\ c.status = ws.status /\ c.link = ws.link
      /\ c.resolving = ws.resolving /\ c.pending = ws.pending
  BY <1>2 DEF Takes, Same, Fields
<1>4. ws.resolving \in Nat /\ \A x : Good(ws, x) \in Nat /\ Good(c, x) \in Nat
  BY <1>1, Numbers
<1>5. (\A x : Good(c, x) <= Good(ws, x)) /\ (ok => Good(ws, op) > 0)
  BY <1>2, <1>4 DEF Takes, One
<1> QED BY <1>2, <1>3, <1>4, <1>5 DEF Quiet

\* What the success of a phase of connecting begins.
Leads(op, nxt) ==
  \/ op = "resolve" /\ nxt = "connect"
  \/ op = "connect" /\ nxt = "ssl"
  \/ op = "ssl" /\ nxt = "handshake"

\* The next phase begins, or cannot.
LEMMA PhaseFades ==
  ASSUME IInv, ws.ready # <<>>, NEW op, NEW nxt, Leads(op, nxt), Head(ws.ready) = <<op, TRUE>>
  PROVE  Fades(ws, LeaveCallback(Async(Taken, nxt)))
<1>1. PICK ok \in BOOLEAN : ok = TRUE
  OBVIOUS
<1>2. ws \in Client /\ Quiet(ws, Taken) /\ Good(ws, op) > 0
  BY <1>1, TakenIsQuiet DEF IInv
<1>3. PICK c \in Client : c = Taken /\ Quiet(ws, c)
  BY <1>2 DEF Quiet
<1>4. Passed(ws, op)
  BY <1>2, PassedIs
<1>5. Leads(op, nxt) /\ nxt \in (StreamOps \ {"close"}) \cup {"shutdown"}
  BY DEF StreamOps, Leads
<1>6. PICK d : d = Async(c, nxt)
  OBVIOUS
<1>7. /\ Begins(c, d, nxt) /\ d.status = c.status
      /\ \A x : x # nxt => (x \in d.pending <=> x \in c.pending)
      /\ nxt \in d.pending => nxt \in c.pending \/ Possible(c, nxt)
  BY <1>5, <1>6, AsyncStays
<1>8. /\ d \in Client /\ d.owner = c.owner /\ d.stopping = c.stopping /\ d.link = c.link
      /\ d.resolving = c.resolving
  BY <1>7 DEF Begins, Same, Fields
<1>9. \A x \in Phases : Passed(d, x) => Passed(ws, x)
  <2>1. \A x : Good(d, x) = Good(c, x)
    BY <1>7 DEF Begins
  <2>2. \A x \in Phases : Good(c, x) <= Good(ws, x) /\ Good(c, x) \in Nat /\ Good(ws, x) \in Nat
    BY <1>2, <1>3, Numbers DEF Quiet
  <2>3. \A x \in Phases : Good(d, x) > 0 => Good(ws, x) > 0
    BY <2>1, <2>2
  <2> QED BY <1>2, <1>8, <2>3, PassedIs
<1>10. \A x \in ConnectOps \ {nxt} : x \in d.pending => x \in ws.pending
  BY <1>3, <1>7 DEF Quiet
<1>11. nxt \in d.pending => nxt \in ws.pending \/ Possible(c, nxt)
  BY <1>3, <1>5, <1>7 DEF Quiet, ConnectOps, Leads
<1>12. /\ d.status = ws.status /\ d.link = ws.link /\ d.owner = ws.owner /\ d.stopping = ws.stopping
       /\ d.resolving <= ws.resolving /\ c.link = ws.link /\ c.status = ws.status
       /\ d.resolving \in Nat /\ ws.resolving \in Nat
  BY <1>2, <1>3, <1>7, <1>8, Numbers DEF Quiet
<1>13. Staged(ws) => Staged(d)
  BY <1>5, <1>10, <1>11, <1>12 DEF Staged, ConnectOps, Possible, Leads
<1>14. WayUp(d) => WayUp(ws)
  BY <1>4, <1>5, <1>9, <1>10, <1>12 DEF WayUp, ConnectOps, Phases, Leads
<1>15. Fades(ws, d)
  BY <1>8, <1>12, <1>13, <1>14 DEF Fades
<1>16. PICK e : e = LeaveCallback(d)
  OBVIOUS
<1>17. Fades(d, e)
  BY <1>8, <1>16, LeaveIsQuiet, QuietFades
<1>18. Fades(ws, e)
  BY <1>2, <1>15, <1>17, FadesMore
<1> QED BY <1>3, <1>6, <1>16, <1>18

\* A step of Connection, or none, from what the owner sees of c to what it sees
\* of d.
Moves(c, d) ==
  \/ /\ d.stopping = c.stopping
     /\ \/ Conn(d) = Conn(c)
        \/ Conn(c) = "connecting" /\ Conn(d) = "up"
        \/ Conn(c) = "up" /\ Conn(d) = IF c.stopping THEN "down" ELSE "connecting"
        \/ Conn(c) = "connecting" /\ c.stopping /\ Conn(d) = "down"
        \/ Conn(c) = "closing" /\ Conn(d) = "down"
  \/ /\ ~c.stopping /\ d.stopping
     /\ IF Conn(c) = "up" THEN Conn(d) = "closing" ELSE Conn(d) \in {Conn(c), "down"}

\* What the promise rests on, beyond the invariant.
Staging == AutoReconnect(ws) => Staged(ws)

\* The promise is kept by a step to d.
Promises(d) ==
  /\ d.owner = ws.owner
  /\ AutoReconnect(ws) => Staged(d) /\ Moves(ws, d)

\* To lose ground is to give up, after close(), and is nothing before.
LEMMA FadesPromises == ASSUME IInv, Staging, NEW d, Fades(ws, d) PROVE Promises(d)
<1>1. ws \in Client /\ d \in Client /\ d.owner = ws.owner /\ d.stopping = ws.stopping /\ d.status = ws.status
  BY DEF IInv, Fades
<1>2. ASSUME AutoReconnect(ws) PROVE Staged(d) /\ Moves(ws, d)
  <2>1. Staged(d) /\ (WayUp(d) => WayUp(ws)) /\ AutoReconnect(d)
    BY <1>1, <1>2 DEF Fades, Staging, AutoReconnect
  <2>2. ws.status \in Statuses
    BY <1>1 DEF Client
  <2>3. CASE ws.status = "open"
    BY <1>1, <1>2, <2>1, <2>3 DEF Moves, Conn
  <2>4. CASE ws.status = "closing"
    BY <1>1, <1>2, <2>1, <2>4 DEF Moves, Conn
  <2>5. CASE ws.status \in {"closed", "failed"}
    <3>1. /\ Conn(ws) = IF ~ws.stopping \/ WayUp(ws) THEN "connecting" ELSE "down"
          /\ Conn(d) = IF ~ws.stopping \/ WayUp(d) THEN "connecting" ELSE "down"
      BY <1>1, <1>2, <2>1, <2>5 DEF Conn
    <3> QED BY <1>1, <2>1, <3>1 DEF Moves
  <2> QED BY <2>1, <2>2, <2>3, <2>4, <2>5 DEF Statuses
<1> QED BY <1>1, <1>2 DEF Promises

\* So is what leaves the stream alone.
LEMMA QuietPromises == ASSUME IInv, Staging, NEW d, Quiet(ws, d) PROVE Promises(d)
<1>1. ws \in Client
  BY DEF IInv
<1> QED BY <1>1, QuietFades, FadesPromises

\* A handler that runs.
LEMMA TakenPromises ==
  ASSUME IInv, Staging, ws.ready # <<>>, NEW op, NEW ok \in BOOLEAN, Head(ws.ready) = <<op, ok>>,
         NEW d, d.owner = Taken.owner, AutoReconnect(ws) => Quiet(Taken, d)
  PROVE  Promises(d)
<1>1. Quiet(ws, Taken) /\ ws \in Client
  BY TakenIsQuiet DEF IInv
<1>2. PICK c : c = Taken /\ Quiet(ws, c)
  BY <1>1
<1>3. CASE AutoReconnect(ws)
  <2>1. Quiet(ws, d)
    BY <1>1, <1>2, <1>3, QuietMore
  <2> QED BY <2>1, QuietPromises
<1>4. CASE ~AutoReconnect(ws)
  BY <1>2, <1>4 DEF Promises, Quiet
<1> QED BY <1>3, <1>4

\* A handler that reports a failure.
LEMMA FailurePromises ==
  ASSUME IInv, Staging, ws.ready # <<>>, NEW op, Head(ws.ready) = <<op, FALSE>>,
         NEW c \in Client, Quiet(Taken, c),
         NEW d, d \in {Failed(c), LeaveCallback(OnError(c)), OnError(c)}
  PROVE  Promises(d)
<1>1. PICK ok \in BOOLEAN : ok = FALSE
  OBVIOUS
<1>2. PICK t \in Client : t = Taken /\ Quiet(ws, t) /\ Quiet(t, c)
  BY <1>1, TakenIsQuiet DEF Quiet
<1>3. d.owner = c.owner
  <2>1. PICK b \in Client : b = OnError(c) /\ b.owner = c.owner
    BY OnErrorAdds DEF Adds
  <2>2. LeaveCallback(b).owner = b.owner
    BY LeaveCallbackAdds DEF Adds
  <2>3. Failed(c).owner = c.owner
    BY FailedAdds DEF Adds
  <2> QED BY <2>1, <2>2, <2>3
<1>4. d.owner = t.owner
  BY <1>2, <1>3 DEF Quiet
<1>5. ASSUME AutoReconnect(ws) PROVE Quiet(t, d)
  <2>1. AutoReconnect(c)
    BY <1>2, <1>5 DEF AutoReconnect, Quiet
  <2>2. Quiet(c, Failed(c)) /\ Quiet(c, LeaveCallback(OnError(c))) /\ OnError(c) = c
    BY <2>1, FailedIsQuiet, OnErrorAdds
  <2>3. CASE d = OnError(c)
    BY <1>2, <2>2, <2>3
  <2>4. CASE d \in {Failed(c), LeaveCallback(OnError(c))}
    <3>1. Quiet(c, d)
      BY <2>2, <2>4
    <3> QED BY <1>2, <3>1, QuietMore
  <2> QED BY <2>3, <2>4
<1> QED BY <1>1, <1>2, <1>4, <1>5, TakenPromises

\* One that does nothing else to the connection.
LEMMA QuietHandler ==
  ASSUME IInv, Staging, ws.ready # <<>>, NEW op, NEW ok \in BOOLEAN, Head(ws.ready) = <<op, ok>>,
         NEW d, Quiet(Taken, d)
  PROVE  Promises(d)
<1>1. d.owner = Taken.owner
  BY DEF Quiet
<1> QED BY <1>1, TakenPromises

\* A phase of connecting that ended well, or not.
LEMMA PhasePromises ==
  ASSUME IInv, Staging, ws.ready # <<>>, NEW op, NEW nxt, Leads(op, nxt),
         Head(ws.ready) = <<op, TRUE>>
  PROVE  Promises(LeaveCallback(Async(Taken, nxt)))
BY PhaseFades, FadesPromises

\* A handler that fails and does nothing before it reports that.
LEMMA ErrorPromises ==
  ASSUME IInv, Staging, ws.ready # <<>>, NEW op, Head(ws.ready) = <<op, FALSE>>,
         NEW d, d = Failed(Taken) \/ d = LeaveCallback(OnError(Taken)) \/ d = OnError(Taken)
  PROVE  Promises(d)
<1>1. PICK ok \in BOOLEAN : ok = FALSE
  OBVIOUS
<1>2. PICK t \in Client : t = Taken
  BY <1>1, TakenIsQuiet DEF Quiet
<1>3. Quiet(t, t)
  <2>1. Same(t, t, Inner)
    BY DEF Same
  <2> QED BY <2>1, InnerIsQuiet
<1>4. d \in {Failed(t), LeaveCallback(OnError(t)), OnError(t)}
  BY <1>2
<1> QED BY <1>2, <1>3, <1>4, FailurePromises

\* One lemma per handler.  on_resolve begins to connect, or reports.
LEMMA OnResolvePromises == ASSUME IInv, Staging, OnResolve PROVE Promises(ws')
<1>1. CASE Run("resolve", TRUE, LAMBDA c : LeaveCallback(Async(c, "connect")))
  <2>1. /\ ws.ready # <<>> /\ Head(ws.ready) = <<"resolve", TRUE>>
        /\ ws' = LeaveCallback(Async(Taken, "connect"))
    BY <1>1 DEF Run, Taken
  <2>2. Leads("resolve", "connect")
    BY DEF Leads
  <2> QED BY <2>1, <2>2, PhasePromises
<1>2. CASE Run("resolve", FALSE, LAMBDA c : LeaveCallback(OnError(c)))
  <2>1. /\ ws.ready # <<>> /\ Head(ws.ready) = <<"resolve", FALSE>>
        /\ ws' = LeaveCallback(OnError(Taken))
    BY <1>2 DEF Run, Taken
  <2> QED BY <2>1, ErrorPromises
<1> QED BY <1>1, <1>2 DEF OnResolve

\* on_connect.
LEMMA OnConnectPromises == ASSUME IInv, Staging, OnConnect PROVE Promises(ws')
<1>1. CASE Run("connect", TRUE, LAMBDA c : LeaveCallback(Async(c, "ssl")))
  <2>1. /\ ws.ready # <<>> /\ Head(ws.ready) = <<"connect", TRUE>>
        /\ ws' = LeaveCallback(Async(Taken, "ssl"))
    BY <1>1 DEF Run, Taken
  <2>2. Leads("connect", "ssl")
    BY DEF Leads
  <2> QED BY <2>1, <2>2, PhasePromises
<1>2. CASE Run("connect", FALSE, Failed)
  <2>1. ws.ready # <<>> /\ Head(ws.ready) = <<"connect", FALSE>> /\ ws' = Failed(Taken)
    BY <1>2 DEF Run, Taken
  <2> QED BY <2>1, ErrorPromises
<1> QED BY <1>1, <1>2 DEF OnConnect

\* on_ssl_handshake.
LEMMA OnSslHandshakePromises == ASSUME IInv, Staging, OnSslHandshake PROVE Promises(ws')
<1>1. CASE Run("ssl", TRUE, LAMBDA c : LeaveCallback(Async(c, "handshake")))
  <2>1. /\ ws.ready # <<>> /\ Head(ws.ready) = <<"ssl", TRUE>>
        /\ ws' = LeaveCallback(Async(Taken, "handshake"))
    BY <1>1 DEF Run, Taken
  <2>2. Leads("ssl", "handshake")
    BY DEF Leads
  <2> QED BY <2>1, <2>2, PhasePromises
<1>2. CASE Run("ssl", FALSE, Failed)
  <2>1. ws.ready # <<>> /\ Head(ws.ready) = <<"ssl", FALSE>> /\ ws' = Failed(Taken)
    BY <1>2 DEF Run, Taken
  <2> QED BY <2>1, ErrorPromises
<1> QED BY <1>1, <1>2 DEF OnSslHandshake

\* A handler starts with the client it was taken off.
LEMMA TakenClient ==
  ASSUME IInv, ws.ready # <<>>, NEW op, NEW ok \in BOOLEAN, Head(ws.ready) = <<op, ok>>
  PROVE  \E t \in Client : t = Taken /\ Quiet(t, t)
<1>1. PICK t \in Client : t = Taken
  BY TakenIsQuiet DEF Quiet
<1>2. Same(t, t, Inner)
  BY DEF Same
<1> QED BY <1>1, <1>2, InnerIsQuiet

\* on_handshake: the ping timer starts and a read begins.
LEMMA OnHandshakePromises == ASSUME IInv, Staging, OnHandshake PROVE Promises(ws')
<1>1. CASE Run("handshake", TRUE, LAMBDA c : LeaveCallback(Receive(StartPingPong(c))))
  <2>1. /\ ws.ready # <<>> /\ Head(ws.ready) = <<"handshake", TRUE>>
        /\ ws' = LeaveCallback(Receive(StartPingPong(Taken)))
    BY <1>1 DEF Run, Taken
  <2>2. PICK ok \in BOOLEAN : ok = TRUE
    OBVIOUS
  <2>3. PICK t \in Client : t = Taken
    BY <2>1, <2>2, TakenClient
  <2>4. PICK a \in Client : a = StartPingPong(t) /\ Quiet(t, a)
    BY StartPingPongIsQuiet DEF Quiet
  <2>5. PICK b \in Client : b = Receive(a) /\ Quiet(a, b)
    BY ReceiveIsQuiet DEF Quiet
  <2>6. PICK d : d = LeaveCallback(b)
    OBVIOUS
  <2>7. Quiet(b, d)
    BY <2>6, LeaveIsQuiet
  <2>8. Quiet(t, d)
    BY <2>4, <2>5, <2>7, QuietMore
  <2>9. Promises(d)
    BY <2>1, <2>2, <2>3, <2>8, QuietHandler
  <2> QED BY <2>1, <2>3, <2>4, <2>5, <2>6, <2>9
<1>2. CASE Run("handshake", FALSE, Failed)
  <2>1. ws.ready # <<>> /\ Head(ws.ready) = <<"handshake", FALSE>> /\ ws' = Failed(Taken)
    BY <1>2 DEF Run, Taken
  <2> QED BY <2>1, ErrorPromises
<1> QED BY <1>1, <1>2 DEF OnHandshake

\* on_write: the next message, or none, is written.
LEMMA OnWritePromises == ASSUME IInv, Staging, OnWrite PROVE Promises(ws')
<1> DEFINE After(c) == LET d == [c EXCEPT !.unsent = (@ - 1) % Wrap] IN
                       LeaveCallback(IF d.unsent # 0 THEN Async(d, "write")
                                     ELSE [d EXCEPT !.m_writing = FALSE])
<1>1. CASE Run("write", TRUE, LAMBDA c : After(c))
  <2>1. ws.ready # <<>> /\ Head(ws.ready) = <<"write", TRUE>> /\ ws' = After(Taken)
    BY <1>1 DEF Run, Taken
  <2>2. PICK ok \in BOOLEAN : ok = TRUE
    OBVIOUS
  <2>3. PICK t \in Client : t = Taken
    BY <2>1, <2>2, TakenClient
  <2>4. PICK u \in 0 .. Wrap - 1 : u = (t.unsent - 1) % Wrap
    BY CountedModulo
  <2>5. PICK a \in Client : a = [t EXCEPT !.unsent = u]
    BY DEF Client
  <2>6. PICK f \in BOOLEAN : f = FALSE
    OBVIOUS
  <2>7. PICK e \in Client : e = [a EXCEPT !.m_writing = f]
    BY DEF Client
  <2>8. Same(t, a, Inner) /\ Same(a, e, Inner)
    BY <2>5, <2>7 DEF Same, Fields, Client, Inner
  <2>9. PICK x : x = Async(a, "write")
    OBVIOUS
  <2>10. Quiet(t, a) /\ Quiet(a, e) /\ Quiet(a, x)
    BY <2>8, <2>9, InnerIsQuiet, AsyncIsQuiet
  <2>11. PICK b : b = IF a.unsent # 0 THEN x ELSE e
    OBVIOUS
  <2>12. Quiet(a, b)
    BY <2>10, <2>11
  <2>13. b \in Client /\ Quiet(t, b)
    BY <2>10, <2>12, QuietMore DEF Quiet
  <2>14. PICK d : d = LeaveCallback(b)
    OBVIOUS
  <2>15. Quiet(t, d)
    <3>1. Quiet(b, d)
      BY <2>13, <2>14, LeaveIsQuiet
    <3> QED BY <2>13, <3>1, QuietMore
  <2>16. After(t) = d
    BY <2>4, <2>5, <2>6, <2>7, <2>9, <2>11, <2>14
  <2>17. Promises(d)
    BY <2>1, <2>2, <2>3, <2>15, QuietHandler
  <2> QED BY <2>1, <2>3, <2>16, <2>17
<1>2. CASE Run("write", FALSE, LAMBDA c : Failed([c EXCEPT !.m_writing = FALSE]))
  <2>1. /\ ws.ready # <<>> /\ Head(ws.ready) = <<"write", FALSE>>
        /\ ws' = Failed([Taken EXCEPT !.m_writing = FALSE])
    BY <1>2 DEF Run, Taken
  <2>2. PICK ok \in BOOLEAN : ok = FALSE
    OBVIOUS
  <2>3. PICK t \in Client : t = Taken
    BY <2>1, <2>2, TakenClient
  <2>4. PICK c \in Client : c = [t EXCEPT !.m_writing = ok]
    BY DEF Client
  <2>5. Same(t, c, Inner)
    BY <2>4 DEF Same, Fields, Client, Inner
  <2>6. Quiet(t, c)
    BY <2>5, InnerIsQuiet
  <2>7. PICK d : d = Failed(c)
    OBVIOUS
  <2>8. d \in {Failed(c), LeaveCallback(OnError(c)), OnError(c)}
    BY <2>7
  <2>9. Promises(d)
    BY <2>1, <2>3, <2>6, <2>8, FailurePromises
  <2> QED BY <2>1, <2>2, <2>3, <2>4, <2>7, <2>9
<1> QED BY <1>1, <1>2 DEF OnWrite

\* on_read: the next read begins.
LEMMA OnReadPromises == ASSUME IInv, Staging, OnRead PROVE Promises(ws')
<1>1. CASE Run("read", TRUE, LAMBDA c : LeaveCallback(Async(c, "read")))
  <2>1. /\ ws.ready # <<>> /\ Head(ws.ready) = <<"read", TRUE>>
        /\ ws' = LeaveCallback(Async(Taken, "read"))
    BY <1>1 DEF Run, Taken
  <2>2. PICK ok \in BOOLEAN : ok = TRUE
    OBVIOUS
  <2>3. PICK t \in Client : t = Taken
    BY <2>1, <2>2, TakenClient
  <2>4. PICK b \in Client : b = Async(t, "read") /\ Quiet(t, b)
    BY AsyncIsQuiet DEF Quiet
  <2>5. PICK d : d = LeaveCallback(b)
    OBVIOUS
  <2>6. Quiet(b, d)
    BY <2>5, LeaveIsQuiet
  <2>7. Quiet(t, d)
    BY <2>4, <2>6, QuietMore
  <2>8. Promises(d)
    BY <2>1, <2>2, <2>3, <2>7, QuietHandler
  <2> QED BY <2>1, <2>3, <2>4, <2>5, <2>8
<1>2. CASE Run("read", FALSE, LAMBDA c : Failed([c EXCEPT !.m_reading = FALSE]))
  <2>1. /\ ws.ready # <<>> /\ Head(ws.ready) = <<"read", FALSE>>
        /\ ws' = Failed([Taken EXCEPT !.m_reading = FALSE])
    BY <1>2 DEF Run, Taken
  <2>2. PICK ok \in BOOLEAN : ok = FALSE
    OBVIOUS
  <2>3. PICK t \in Client : t = Taken
    BY <2>1, <2>2, TakenClient
  <2>4. PICK c \in Client : c = [t EXCEPT !.m_reading = ok]
    BY DEF Client
  <2>5. Same(t, c, Inner)
    BY <2>4 DEF Same, Fields, Client, Inner
  <2>6. Quiet(t, c)
    BY <2>5, InnerIsQuiet
  <2>7. PICK d : d = Failed(c)
    OBVIOUS
  <2>8. d \in {Failed(c), LeaveCallback(OnError(c)), OnError(c)}
    BY <2>7
  <2>9. Promises(d)
    BY <2>1, <2>3, <2>6, <2>8, FailurePromises
  <2> QED BY <2>1, <2>2, <2>3, <2>4, <2>7, <2>9
<1> QED BY <1>1, <1>2 DEF OnRead

\* on_close: TLS is shut down.
LEMMA OnClosePromises == ASSUME IInv, Staging, OnClose PROVE Promises(ws')
<1>1. CASE Run("close", TRUE, LAMBDA c : LeaveCallback(Async(c, "shutdown")))
  <2>1. /\ ws.ready # <<>> /\ Head(ws.ready) = <<"close", TRUE>>
        /\ ws' = LeaveCallback(Async(Taken, "shutdown"))
    BY <1>1 DEF Run, Taken
  <2>2. PICK ok \in BOOLEAN : ok = TRUE
    OBVIOUS
  <2>3. PICK t \in Client : t = Taken
    BY <2>1, <2>2, TakenClient
  <2>4. PICK b \in Client : b = Async(t, "shutdown") /\ Quiet(t, b)
    BY AsyncIsQuiet DEF Quiet
  <2>5. PICK d : d = LeaveCallback(b)
    OBVIOUS
  <2>6. Quiet(b, d)
    BY <2>5, LeaveIsQuiet
  <2>7. Quiet(t, d)
    BY <2>4, <2>6, QuietMore
  <2>8. Promises(d)
    BY <2>1, <2>2, <2>3, <2>7, QuietHandler
  <2> QED BY <2>1, <2>3, <2>4, <2>5, <2>8
<1>2. CASE Run("close", FALSE, Failed)
  <2>1. ws.ready # <<>> /\ Head(ws.ready) = <<"close", FALSE>> /\ ws' = Failed(Taken)
    BY <1>2 DEF Run, Taken
  <2> QED BY <2>1, ErrorPromises
<1> QED BY <1>1, <1>2 DEF OnClose

\* on_ssl_shutdown only reports.
LEMMA OnSslShutdownPromises == ASSUME IInv, Staging, OnSslShutdown PROVE Promises(ws')
<1>1. /\ ws.ready # <<>> /\ Head(ws.ready) = <<"shutdown", FALSE>>
      /\ ws' = LeaveCallback(OnError(Taken))
  BY DEF OnSslShutdown, Run, Taken
<1> QED BY <1>1, ErrorPromises

\* The ping timer's handler sends a ping and waits again, or reports.
LEMMA PingTimerPromises == ASSUME IInv, Staging, PingTimer PROVE Promises(ws')
<1>1. CASE Run("ping", TRUE, LAMBDA c : StartPingPong(Send(c)))
  <2>1. /\ ws.ready # <<>> /\ Head(ws.ready) = <<"ping", TRUE>> /\ ws' = StartPingPong(Send(Taken))
    BY <1>1 DEF Run, Taken
  <2>2. PICK ok \in BOOLEAN : ok = TRUE
    OBVIOUS
  <2>3. PICK t \in Client : t = Taken
    BY <2>1, <2>2, TakenClient
  <2>4. PICK b \in Client : b = Send(t) /\ Quiet(t, b)
    BY SendIsQuiet DEF Quiet
  <2>5. PICK d : d = StartPingPong(b)
    OBVIOUS
  <2>6. Quiet(b, d)
    BY <2>5, StartPingPongIsQuiet
  <2>7. Quiet(t, d)
    BY <2>4, <2>6, QuietMore
  <2>8. Promises(d)
    BY <2>1, <2>2, <2>3, <2>7, QuietHandler
  <2> QED BY <2>1, <2>3, <2>4, <2>5, <2>8
<1>2. CASE Run("ping", FALSE, OnError)
  <2>1. ws.ready # <<>> /\ Head(ws.ready) = <<"ping", FALSE>> /\ ws' = OnError(Taken)
    BY <1>2 DEF Run, Taken
  <2> QED BY <2>1, ErrorPromises
<1> QED BY <1>1, <1>2 DEF PingTimer

\* A reconnect that begins: the connection, if it was up, is lost.
LEMMA ReconnectTimerPromises == ASSUME IInv, Staging, ReconnectTimer PROVE Promises(ws')
<1>1. /\ ws.ready # <<>> /\ Head(ws.ready) = <<"reconnect", TRUE>>
      /\ ws' = TryReconnect(Taken)
  BY DEF ReconnectTimer, Run, Taken
<1>2. PICK ok \in BOOLEAN : ok = TRUE
  OBVIOUS
<1>3. PICK t \in Client : t = Taken /\ Quiet(t, t) /\ Quiet(ws, t)
  BY <1>1, <1>2, TakenClient, TakenIsQuiet
<1>4. CASE t.stopping
  <2>1. ws' = t
    BY <1>1, <1>3, <1>4 DEF TryReconnect
  <2>2. Promises(t)
    BY <1>3, QuietPromises
  <2> QED BY <2>1, <2>2
<1>5. CASE ~t.stopping
  <2>1. PICK b \in Client : /\ b.owner = t.owner /\ b.stopping = t.stopping
                            /\ TryReconnect(t) = ResolveReconnect(b)
    <3>1. CASE t.status = "open"
      <4>1. PICK op \in StreamOps : op = "close"
        BY DEF StreamOps
      <4>2. PICK b \in Client : b = Async(t, op) /\ Begins(t, b, op)
        BY AsyncBegins DEF Begins
      <4>3. b.owner = t.owner /\ b.stopping = t.stopping
        BY <4>2 DEF Begins, Same, Fields
      <4>4. TryReconnect(t) = ResolveReconnect(b)
        BY <1>5, <3>1, <4>1, <4>2 DEF TryReconnect
      <4> QED BY <4>3, <4>4
    <3>2. CASE t.status # "open"
      BY <1>5, <3>2 DEF TryReconnect
    <3> QED BY <3>1, <3>2
  <2>2. PICK d : d = ResolveReconnect(b)
    OBVIOUS
  <2>3. Renews(b, d)
    BY <2>2, ResolveReconnectRenews
  <2>4. /\ d \in Client /\ d.owner = ws.owner /\ ~d.stopping /\ ~ws.stopping /\ ws \in Client
        /\ d.status = "closed" /\ d.pending = {} /\ d.stopping = ws.stopping
    BY <1>3, <1>5, <2>1, <2>3 DEF Renews, Quiet, IInv
  <2>5. ASSUME AutoReconnect(ws) PROVE Staged(d) /\ Moves(ws, d)
    <3>1. Staged(d)
      BY <2>4 DEF Staged
    <3>2. AutoReconnect(d)
      BY <2>4, <2>5 DEF AutoReconnect
    <3>3. Conn(d) = "connecting"
      BY <2>4, <3>2 DEF Conn
    <3>4. ws.status \in Statuses \ {"closing"}
      BY <2>4, <2>5 DEF Staging, Staged, Client
    <3>5. Conn(ws) \in {"up", "connecting"}
      BY <2>4, <2>5, <3>4 DEF Conn, Statuses
    <3> QED BY <2>4, <3>1, <3>3, <3>5 DEF Moves
  <2>6. Promises(d)
    BY <2>4, <2>5 DEF Promises
  <2> QED BY <1>1, <1>3, <2>1, <2>2, <2>6
<1> QED BY <1>4, <1>5

\* Only the trade owner has such a timer.
LEMMA TradeTimerPromises == ASSUME IInv, Staging, TradeTimer PROVE Promises(ws')
<1>1. ws.ready # <<>> /\ Head(ws.ready) = <<"trade", TRUE>> /\ ws' = ResolveReconnect(Taken)
  BY DEF TradeTimer, Run, Taken
<1>2. PICK op \in Handlers, ok \in BOOLEAN : op = "trade" /\ ok = TRUE
  BY DEF Handlers
<1>3. Takes(ws, Taken, op, ok) /\ ws \in Client
  BY <1>1, <1>2, TakenTakes DEF IInv
<1>4. PICK t \in Client : t = Taken /\ Takes(ws, t, op, ok)
  BY <1>3 DEF Takes
<1>5. Ready(ws, op) > 0 /\ t.owner = ws.owner
  BY <1>4, Numbers DEF Takes, Same, Fields
<1>6. ~AutoReconnect(ws)
  BY <1>2, <1>3, <1>5, ReadyIs DEF IInv, Owned
<1>7. PICK d : d = ResolveReconnect(t)
  OBVIOUS
<1>8. d.owner = ws.owner
  BY <1>5, <1>7, ResolveReconnectRenews DEF Renews
<1>9. Promises(d)
  BY <1>6, <1>8 DEF Promises
<1> QED BY <1>1, <1>4, <1>7, <1>9

\* The network: a lookup ends.
LEMMA LookupPromises == ASSUME IInv, Staging, LookupSucceeds \/ LookupFails PROVE Promises(ws')
<1>1. PICK ok \in BOOLEAN : ws' = Post([ws EXCEPT !.resolving = @ - 1], "resolve", ok) /\ ws.resolving > 0
  BY DEF LookupSucceeds, LookupFails
<1>2. ws \in Client
  BY DEF IInv
<1>3. PICK r \in Nat : r = ws.resolving - 1
  BY <1>1, <1>2, Numbers
<1>4. PICK b \in Client : b = [ws EXCEPT !.resolving = r]
  BY <1>2 DEF Client
<1>5. Same(ws, b, {"resolving"}) /\ b.resolving = r
  BY <1>2, <1>4 DEF Same, Fields, Client
<1>6. Same(ws, b, {"resolving", "reconnect_wait", "ping_wait", "timers"})
  BY <1>5 DEF Same
<1>7. PICK op \in Queued : op = "resolve"
  BY DEF Queued
<1>8. PICK d : d = Post(b, op, ok)
  OBVIOUS
<1>9. Queues(ws, d, op, ok) /\ Same(b, d, {"ready"})
  BY <1>2, <1>6, <1>8, PostQueues
<1>10. /\ d \in Client /\ d.owner = ws.owner /\ d.stopping = ws.stopping /\ d.status = ws.status
       /\ d.link = ws.link /\ d.pending = ws.pending /\ d.resolving = r
  BY <1>5, <1>9 DEF Queues, Same, Fields
<1>11. \A x \in Phases \ {"resolve"} : Passed(d, x) => Passed(ws, x)
  <2>1. \A x \in Phases \ {"resolve"} : Good(d, x) = Good(ws, x)
    BY <1>7, <1>9 DEF Queues
  <2> QED BY <1>2, <1>10, <2>1, PassedIs
<1>12. Staged(ws) => Staged(d)
  BY <1>10 DEF Staged
<1>13. WayUp(d) => WayUp(ws)
  BY <1>1, <1>10, <1>11 DEF WayUp, Phases
<1>14. Fades(ws, d)
  BY <1>10, <1>12, <1>13 DEF Fades
<1>15. Promises(d)
  BY <1>14, FadesPromises
<1> QED BY <1>1, <1>3, <1>4, <1>7, <1>8, <1>15

\* An operation on the stream ends.
LEMMA DoneIs ==
  ASSUME NEW c \in Client, NEW op \in StreamOps, op \in c.pending, NEW ok \in BOOLEAN,
         NEW d, d = Done(c, op, ok)
  PROVE  /\ d \in Client /\ Same(c, d, {"pending", "ready"}) /\ d.pending = c.pending \ {op}
         /\ \A x \in Phases \ {op} : Passed(d, x) => Passed(c, x)
         /\ ~ok => Quiet(c, d)
         /\ op \notin Phases => Quiet(c, d)
<1>1. Finishes(c, d, op, ok)
  BY DoneFinishes
<1>2. PICK p \in SUBSET StreamOps : p = c.pending \ {op}
  BY DEF Client
<1>3. PICK b \in Client : b = [c EXCEPT !.pending = p]
  BY DEF Client
<1>4. b.pending = p /\ op \in Handlers
  BY <1>3 DEF Client, Handlers
<1>5. d = Post(b, op, ok)
  BY <1>2, <1>3 DEF Done
<1>6. Same(b, d, {"ready"})
  BY <1>4, <1>5, PostCounts
<1>7. d \in Client /\ Same(c, d, {"pending", "ready"}) /\ d.pending = c.pending \ {op}
  BY <1>1, <1>2, <1>4, <1>6 DEF Finishes, Same, Fields
<1>8. \A x \in Phases \ {op} : Passed(d, x) => Passed(c, x)
  <2>1. \A x \in Phases \ {op} : Good(d, x) = Good(c, x)
    BY <1>1 DEF Finishes
  <2> QED BY <1>7, <2>1, PassedIs
<1>9. ASSUME ~ok \/ op \notin Phases PROVE Quiet(c, d)
  <2>1. Quiet(c, b)
    <3>1. /\ b.owner = c.owner /\ b.stopping = c.stopping /\ b.status = c.status
          /\ b.link = c.link /\ b.resolving = c.resolving /\ b.ready = c.ready
      BY <1>3 DEF Client
    <3>2. c.resolving \in Nat /\ \A x : Good(b, x) = Good(c, x) /\ Good(c, x) \in Nat
      BY <3>1, ReadySame, Numbers
    <3> QED BY <1>2, <1>4, <3>1, <3>2 DEF Quiet
  <2>2. Quiet(b, d)
    BY <1>4, <1>5, <1>9, PostIsQuiet
  <2> QED BY <2>1, <2>2, QuietMore
<1> QED BY <1>7, <1>8, <1>9

\* One that fails, or that transfers a message.
LEMMA OtherEndPromises ==
  ASSUME IInv, Staging,
         \/ \E op \in ConnectOps : ConnectFails(op)
         \/ \E op \in {"read", "write"} : Transfers(op)
         \/ \E op \in {"read", "write", "close"} : Fails(op)
  PROVE  Promises(ws')
<1>1. PICK op \in StreamOps, ok \in BOOLEAN :
        op \in ws.pending /\ ws' = Done(ws, op, ok) /\ (~ok \/ op \notin Phases)
  BY DEF ConnectFails, Transfers, Fails, ConnectOps, StreamOps, Phases
<1>2. ws \in Client
  BY DEF IInv
<1>3. PICK d : d = ws'
  OBVIOUS
<1>4. Quiet(ws, d)
  BY <1>1, <1>2, <1>3, DoneIs
<1>5. Promises(d)
  BY <1>4, QuietPromises
<1> QED BY <1>3, <1>5

\* A phase of connecting ends well; with the last, the connection comes up.
LEMMA ConnectsPromises == ASSUME IInv, Staging, NEW op \in ConnectOps, Connects(op) PROVE Promises(ws')
<1>1. PICK ok \in BOOLEAN : ok = TRUE
  OBVIOUS
<1>2. ws \in Client /\ op \in StreamOps /\ op \in ws.pending
  BY DEF IInv, Connects, ConnectOps, StreamOps
<1>3. PICK x : x = Done(ws, op, TRUE)
  OBVIOUS
<1>4. /\ x \in Client /\ Same(ws, x, {"pending", "ready"}) /\ x.pending = ws.pending \ {op}
      /\ \A y \in Phases \ {op} : Passed(x, y) => Passed(ws, y)
  BY <1>1, <1>2, <1>3, DoneIs
<1>5. /\ x.owner = ws.owner /\ x.stopping = ws.stopping /\ x.status = ws.status /\ x.link = ws.link
      /\ x.resolving = ws.resolving
  BY <1>4 DEF Same, Fields
<1>6. CASE op \in {"connect", "ssl"}
  <2>1. PICK l \in Links : l = IF op = "connect" THEN "tcp" ELSE "tls"
    BY DEF Links
  <2>2. PICK d \in Client : d = [x EXCEPT !.link = l]
    BY <1>4 DEF Client
  <2>3. ws' = d
    BY <1>3, <1>6, <2>1, <2>2 DEF Connects
  <2>4. /\ d.owner = ws.owner /\ d.stopping = ws.stopping /\ d.status = ws.status /\ d.link = l
        /\ d.resolving = ws.resolving /\ d.pending = ws.pending \ {op} /\ d.ready = x.ready
    BY <1>4, <1>5, <2>2 DEF Client
  <2>5. \A y \in Phases \ {op} : Passed(d, y) => Passed(ws, y)
    BY <1>4, <2>4 DEF Passed
  <2>6. ASSUME Staged(ws) PROVE Staged(d) /\ (WayUp(d) => WayUp(ws))
    <3>1. Staged(d)
      BY <1>2, <1>6, <2>1, <2>4, <2>6 DEF Staged
    <3>2. ASSUME WayUp(d) PROVE WayUp(ws)
      <4>1. d.status = "closed" /\ ws.status = "closed"
        BY <2>4, <3>2 DEF WayUp
      <4>2. CASE op = "connect"
        BY <1>2, <2>6, <4>1, <4>2 DEF Staged, WayUp
      <4>3. CASE op = "ssl"
        BY <1>2, <2>6, <4>1, <4>3 DEF Staged, WayUp
      <4> QED BY <1>6, <4>2, <4>3
    <3> QED BY <3>1, <3>2
  <2>7. Fades(ws, d)
    BY <2>4, <2>6 DEF Fades
  <2>8. Promises(d)
    BY <2>7, FadesPromises
  <2> QED BY <2>3, <2>8
<1>7. CASE op = "handshake"
  <2>1. PICK st \in Statuses : st = "open"
    BY DEF Statuses
  <2>2. PICK d \in Client : d = [x EXCEPT !.status = st]
    BY <1>4 DEF Client
  <2>3. ws' = d
    BY <1>3, <1>7, <2>1, <2>2 DEF Connects
  <2>4. /\ d.owner = ws.owner /\ d.stopping = ws.stopping /\ d.status = "open" /\ d.link = ws.link
        /\ d.pending = ws.pending \ {op}
    BY <1>4, <1>5, <2>1, <2>2 DEF Client
  <2>5. ASSUME AutoReconnect(ws) PROVE Staged(d) /\ Moves(ws, d)
    <3>1. Staged(ws) /\ ws.status = "closed" /\ ws.link = "tls" /\ AutoReconnect(d)
      BY <1>2, <1>7, <2>4, <2>5 DEF Staging, Staged, AutoReconnect
    <3>2. Staged(d)
      BY <1>7, <2>4, <3>1 DEF Staged
    <3>3. Conn(d) = "up"
      BY <2>4, <3>1 DEF Conn
    <3>4. WayUp(ws)
      BY <1>2, <1>7, <3>1 DEF WayUp
    <3>5. Conn(ws) = "connecting"
      BY <2>5, <3>1, <3>4 DEF Conn
    <3> QED BY <2>4, <3>2, <3>3, <3>5 DEF Moves
  <2>6. Promises(d)
    BY <2>4, <2>5 DEF Promises
  <2> QED BY <2>3, <2>6
<1> QED BY <1>6, <1>7 DEF ConnectOps

\* The end of an open stream: the connection is lost, or has been closed.
LEMMA DownPromises ==
  ASSUME IInv, Staging, Alive(ws), NEW d \in Client, d.owner = ws.owner, d.stopping = ws.stopping,
         d.status = "failed", d.link = ws.link, d.pending \subseteq ws.pending
  PROVE  Promises(d)
<1>1. ASSUME AutoReconnect(ws) PROVE Staged(d) /\ Moves(ws, d)
  <2>1. /\ Staged(ws) /\ AutoReconnect(d) /\ ws.status \in {"open", "closing"}
        /\ ws.stopping \in BOOLEAN
    BY <1>1 DEF Staging, AutoReconnect, Alive, IInv, Client
  <2>2. Staged(d)
    BY <2>1 DEF Staged
  <2>3. ~WayUp(d)
    BY DEF WayUp
  <2>4. Conn(d) = IF ws.stopping THEN "down" ELSE "connecting"
    BY <2>1, <2>3 DEF Conn
  <2>5. CASE ws.status = "open"
    <3>1. Conn(ws) = "up"
      BY <1>1, <2>5 DEF Conn
    <3> QED BY <2>2, <2>4, <3>1 DEF Moves
  <2>6. CASE ws.status = "closing"
    <3>1. Conn(ws) = "closing" /\ ws.stopping
      BY <1>1, <2>1, <2>6 DEF Conn, Staged
    <3> QED BY <2>2, <2>4, <3>1 DEF Moves
  <2> QED BY <2>1, <2>5, <2>6
<1> QED BY <1>1 DEF Promises

\* The closing handshake is over.
LEMMA ClosesPromises == ASSUME IInv, Staging, Closes PROVE Promises(ws')
<1>1. PICK op \in StreamOps, ok \in BOOLEAN : op = "close" /\ ok = TRUE
  BY DEF StreamOps
<1>2. PICK x : x = Done(ws, "close", TRUE)
  OBVIOUS
<1>3. op \in ws.pending /\ ws.status = "closing" /\ ws' = [x EXCEPT !.status = "failed"]
  BY <1>1, <1>2 DEF Closes
<1>4. ws \in Client /\ x = Done(ws, op, ok)
  BY <1>1, <1>2 DEF IInv
<1>5. x \in Client /\ Same(ws, x, {"pending", "ready"}) /\ x.pending = ws.pending \ {op}
  BY <1>3, <1>4, DoneIs
<1>6. PICK st \in Statuses : st = "failed"
  BY DEF Statuses
<1>7. PICK d \in Client : d = [x EXCEPT !.status = st]
  BY <1>5 DEF Client
<1>8. /\ d.owner = x.owner /\ d.stopping = x.stopping /\ d.status = "failed" /\ d.link = x.link
      /\ d.pending = x.pending
  BY <1>5, <1>6, <1>7 DEF Client
<1>9. x.owner = ws.owner /\ x.stopping = ws.stopping /\ x.link = ws.link
  BY <1>5 DEF Same, Fields
<1>10. d.pending \subseteq ws.pending /\ Alive(ws)
  BY <1>3, <1>5, <1>8 DEF Alive
<1>11. Promises(d)
  BY <1>8, <1>9, <1>10, DownPromises
<1> QED BY <1>3, <1>6, <1>7, <1>11

\* The connection breaks.
LEMMA BreaksPromises == ASSUME IInv, Staging, Breaks PROVE Promises(ws')
<1>1. ws \in Client /\ Alive(ws)
  BY DEF IInv, Breaks
<1>2. PICK st \in Statuses : st = "failed"
  BY DEF Statuses
<1>3. PICK d \in Client : d = [ws EXCEPT !.status = st]
  BY <1>1 DEF Client
<1>4. d = ws'
  BY <1>2, <1>3 DEF Breaks
<1>5. /\ d.owner = ws.owner /\ d.stopping = ws.stopping /\ d.status = "failed" /\ d.link = ws.link
      /\ d.pending = ws.pending
  BY <1>1, <1>2, <1>3 DEF Client
<1>6. Promises(d)
  BY <1>1, <1>5, DownPromises
<1> QED BY <1>4, <1>6

\* A timer expires.
LEMMA DuePromises ==
  ASSUME IInv, Staging, ReconnectDue \/ PingDue \/ TradeDue
  PROVE  Promises(ws')
<1>1. ws \in Client
  BY DEF IInv
<1>2. PICK f \in BOOLEAN, ok \in BOOLEAN : f = FALSE /\ ok = TRUE
  OBVIOUS
<1>3. \E b \in Client, op \in {"reconnect", "ping", "trade"} : Same(ws, b, Inner) /\ ws' = Post(b, op, ok)
  <2>1. CASE ReconnectDue
    <3>1. PICK b \in Client : b = [ws EXCEPT !.reconnect_wait = f]
      BY <1>1 DEF Client
    <3>2. Same(ws, b, Inner)
      BY <1>1, <3>1 DEF Same, Fields, Client, Inner
    <3>3. ws' = Post(b, "reconnect", ok)
      BY <1>2, <2>1, <3>1 DEF ReconnectDue
    <3> QED BY <3>2, <3>3
  <2>2. CASE PingDue
    <3>1. PICK b \in Client : b = [ws EXCEPT !.ping_wait = f]
      BY <1>1 DEF Client
    <3>2. Same(ws, b, Inner)
      BY <1>1, <3>1 DEF Same, Fields, Client, Inner
    <3>3. ws' = Post(b, "ping", ok)
      BY <1>2, <2>2, <3>1 DEF PingDue
    <3> QED BY <3>2, <3>3
  <2>3. CASE TradeDue
    <3>1. PICK n \in 0 .. MaxSpins : n = ws.timers - 1
      BY <1>1, <2>3, WssAssumption DEF Client, TradeDue, WssAssumption
    <3>2. PICK b \in Client : b = [ws EXCEPT !.timers = n]
      BY <1>1 DEF Client
    <3>3. Same(ws, b, Inner)
      BY <1>1, <3>2 DEF Same, Fields, Client, Inner
    <3>4. ws' = Post(b, "trade", ok)
      BY <1>2, <2>3, <3>1, <3>2 DEF TradeDue
    <3> QED BY <3>3, <3>4
  <2> QED BY <2>1, <2>2, <2>3
<1>4. PICK b \in Client, op \in {"reconnect", "ping", "trade"} : Same(ws, b, Inner) /\ ws' = Post(b, op, ok)
  BY <1>3
<1>5. op \in Handlers /\ op \notin Phases
  BY DEF Handlers, Phases
<1>6. PICK d : d = Post(b, op, ok)
  OBVIOUS
<1>7. Quiet(ws, b) /\ Quiet(b, d)
  BY <1>1, <1>4, <1>5, <1>6, InnerIsQuiet, PostIsQuiet
<1>8. Quiet(ws, d)
  BY <1>1, <1>7, QuietMore
<1>9. Promises(d)
  BY <1>8, QuietPromises
<1> QED BY <1>4, <1>6, <1>9

\* The user sends.
LEMMA UserSendsPromises == ASSUME IInv, Staging, UserSends PROVE Promises(ws')
<1>1. PICK d : d = Send(ws)
  OBVIOUS
<1>2. Quiet(ws, d)
  BY <1>1, SendIsQuiet DEF IInv
<1>3. Promises(d)
  BY <1>2, QuietPromises
<1> QED BY <1>1, <1>3 DEF UserSends

\* The user closes: a connection that is up begins to close, and a wait for the
\* next attempt is given up.
LEMMA UserClosesPromises == ASSUME IInv, Staging, UserCloses PROVE Promises(ws')
<1>1. ws \in Client /\ AutoReconnect(ws) /\ ~ws.stopping
  BY DEF IInv, UserCloses
<1>2. PICK d : d = Close(ws)
  OBVIOUS
<1>3. Shuts(ws, d)
  BY <1>1, <1>2, CloseShuts
<1>4. PICK s \in BOOLEAN : s = TRUE
  OBVIOUS
<1>5. PICK a \in Client : a = [ws EXCEPT !.stopping = s]
  BY <1>1 DEF Client
<1>6. PICK op \in StreamOps : op = "close"
  BY DEF StreamOps
<1>7. PICK b \in Client : b = Async(a, op)
  BY AsyncBegins DEF Begins
<1>8. d = CancelPing(b)
  BY <1>2, <1>4, <1>5, <1>6, <1>7 DEF Close
<1>9. d.status = b.status
  BY <1>8, CancelPingCancels DEF Cancels, Same, Fields
<1>10. b.status = IF Alive(ws) THEN "closing" ELSE ws.status
  <2>1. a.status = ws.status /\ a.pending = ws.pending /\ a.overlap = ws.overlap
    BY <1>1, <1>5 DEF Client
  <2>2. PICK n \in 0 .. Wrap - 1 : n = (a.n_callbacks + 1) % Wrap
    <3>1. a.n_callbacks + 1 \in Int
      BY DEF Client
    <3> QED BY <3>1, Modulo
  <2>3. PICK e \in Client : e = [a EXCEPT !.n_callbacks = n]
    BY DEF Client
  <2>4. e.status = ws.status
    BY <2>1, <2>3 DEF Client
  <2>5. Possible(a, op) <=> Alive(ws)
    BY <1>6, <2>1 DEF Possible, Alive
  <2>6. CASE Alive(ws)
    <3>1. b = [e EXCEPT !.pending = a.pending \cup {op},
                        !.overlap = e.overlap \/ op \in a.pending \cap {"read", "write"},
                        !.status = "closing"]
      BY <1>6, <1>7, <2>2, <2>3, <2>5, <2>6 DEF Async, Client
    <3> QED BY <2>6, <3>1 DEF Client
  <2>7. CASE ~Alive(ws)
    <3>1. b = Post(e, "close", FALSE)
      BY <1>6, <1>7, <2>2, <2>3, <2>5, <2>7 DEF Async
    <3>2. Same(e, b, {"ready"})
      BY <3>1, PostCounts DEF Handlers, StreamOps
    <3> QED BY <2>4, <2>7, <3>2 DEF Same, Fields
  <2> QED BY <2>6, <2>7
<1>11. /\ d \in Client /\ d.owner = ws.owner /\ d.stopping /\ d.link = ws.link
       /\ d.resolving = ws.resolving /\ \A x : Good(d, x) = Good(ws, x)
       /\ \A x \in ConnectOps : x \in d.pending <=> x \in ws.pending
  <2>1. /\ d \in Client /\ d.owner = ws.owner /\ d.stopping /\ d.link = ws.link
        /\ d.resolving = ws.resolving /\ \A x : Good(d, x) = Good(ws, x)
    BY <1>3 DEF Shuts, Same, Fields
  <2>2. \A x : One(x \in ws.pending) = Of(ws, x) - Ready(ws, x) /\ One(x \in d.pending) = Of(d, x) - Ready(d, x)
    BY <1>1, <2>1, Numbers DEF One
  <2>3. \A x \in ConnectOps : Of(d, x) = Of(ws, x) /\ Ready(d, x) = Ready(ws, x)
    BY <1>3 DEF Shuts, ConnectOps
  <2>4. \A x \in ConnectOps : x \in d.pending <=> x \in ws.pending
    BY <2>2, <2>3 DEF One
  <2> QED BY <2>1, <2>4
<1>12. AutoReconnect(d) /\ Staged(ws)
  BY <1>1, <1>11 DEF AutoReconnect, Staging
<1>13. \A x : Passed(d, x) <=> Passed(ws, x)
  BY <1>1, <1>11, PassedIs
<1>14. CASE Alive(ws)
  <2>1. ws.status = "open" /\ d.status = "closing"
    BY <1>1, <1>9, <1>10, <1>12, <1>14 DEF Alive, Staged
  <2>2. Staged(d)
    BY <1>11, <1>12, <2>1 DEF Staged, ConnectOps
  <2>3. Conn(ws) = "up" /\ Conn(d) = "closing"
    BY <1>1, <1>12, <2>1 DEF Conn
  <2>4. Promises(d)
    BY <1>1, <1>11, <2>2, <2>3 DEF Promises, Moves
  <2> QED BY <1>2, <2>4 DEF UserCloses
<1>15. CASE ~Alive(ws)
  <2>1. d.status = ws.status /\ ws.status \in {"closed", "failed"}
    BY <1>1, <1>9, <1>10, <1>15 DEF Alive, Client, Statuses
  <2>2. Staged(d)
    BY <1>11, <1>12, <2>1 DEF Staged, ConnectOps
  <2>3. Conn(ws) = "connecting" /\ Conn(d) \in {"connecting", "down"}
    BY <1>1, <1>12, <2>1 DEF Conn
  <2>4. Promises(d)
    BY <1>1, <1>11, <2>2, <2>3 DEF Promises, Moves
  <2> QED BY <1>2, <2>4 DEF UserCloses
<1> QED BY <1>14, <1>15

\* Every step keeps the promise.
LEMMA StepPromises == ASSUME IInv, Staging, Next PROVE Promises(ws')
<1>1. CASE RunHandler
  <2>1. CASE OnResolve
    BY <2>1, OnResolvePromises
  <2>2. CASE OnConnect
    BY <2>2, OnConnectPromises
  <2>3. CASE OnSslHandshake
    BY <2>3, OnSslHandshakePromises
  <2>4. CASE OnHandshake
    BY <2>4, OnHandshakePromises
  <2>5. CASE OnWrite
    BY <2>5, OnWritePromises
  <2>6. CASE OnRead
    BY <2>6, OnReadPromises
  <2>7. CASE OnClose
    BY <2>7, OnClosePromises
  <2>8. CASE OnSslShutdown
    BY <2>8, OnSslShutdownPromises
  <2>9. CASE ReconnectTimer
    BY <2>9, ReconnectTimerPromises
  <2>10. CASE PingTimer
    BY <2>10, PingTimerPromises
  <2>11. CASE TradeTimer
    BY <2>11, TradeTimerPromises
  <2> QED BY <1>1, <2>1, <2>2, <2>3, <2>4, <2>5, <2>6, <2>7, <2>8, <2>9, <2>10, <2>11 DEF RunHandler
<1>2. CASE LookupSucceeds \/ LookupFails
  BY <1>2, LookupPromises
<1>3. CASE Closes
  BY <1>3, ClosesPromises
<1>4. CASE Breaks
  BY <1>4, BreaksPromises
<1>5. ASSUME NEW op \in ConnectOps, Connects(op) PROVE Promises(ws')
  BY <1>5, ConnectsPromises
<1>6. CASE \/ \E op \in ConnectOps : ConnectFails(op)
           \/ \E op \in {"read", "write"} : Transfers(op)
           \/ \E op \in {"read", "write", "close"} : Fails(op)
  BY <1>6, OtherEndPromises
<1>7. CASE ReconnectDue \/ PingDue \/ TradeDue
  BY <1>7, DuePromises
<1>8. CASE UserSends
  BY <1>8, UserSendsPromises
<1>9. CASE UserCloses
  BY <1>9, UserClosesPromises
<1> QED BY <1>1, <1>2, <1>3, <1>4, <1>5, <1>6, <1>7, <1>8, <1>9 DEF Next, Network

\* A step that moves from what the owner sees to what it is promised is a step of
\* Connection, or none.
LEMMA MovesImplement ==
  ASSUME IInv, Promises(ws')
  PROVE  Staging' /\ [Promised!Next]_(Promised!vars)
<1>1. PICK c \in Client : c = ws
  BY DEF IInv
<1>2. PICK d : d = ws'
  OBVIOUS
<1>3. d.owner = c.owner /\ (AutoReconnect(c) => Staged(d) /\ Moves(c, d))
  BY <1>1, <1>2 DEF Promises
<1>4. Staging'
  BY <1>1, <1>2, <1>3 DEF Staging, AutoReconnect
<1>5. CASE ~AutoReconnect(c)
  <2>1. ~AutoReconnect(d)
    BY <1>3, <1>5 DEF AutoReconnect
  <2>2. Conn(d) = "connecting" /\ Conn(c) = "connecting"
    BY <1>5, <2>1 DEF Conn
  <2>3. UNCHANGED <<Conn(ws), AutoReconnect(ws) /\ ws.stopping>>
    BY <1>1, <1>2, <1>5, <2>1, <2>2
  <2> QED BY <1>4, <2>3 DEF Promised!vars
<1>6. CASE AutoReconnect(c)
  <2>1. AutoReconnect(d) /\ Moves(c, d)
    BY <1>3, <1>6 DEF AutoReconnect
  <2>2. /\ Conn(ws) = Conn(c) /\ Conn(ws)' = Conn(d)
        /\ (AutoReconnect(ws) /\ ws.stopping) = (AutoReconnect(c) /\ c.stopping)
        /\ (AutoReconnect(ws) /\ ws.stopping)' = (AutoReconnect(d) /\ d.stopping)
    BY <1>1, <1>2
  <2> QED BY <1>4, <1>6, <2>1, <2>2
      DEF Moves, Promised!Next, Promised!vars, Promised!ComesUp, Promised!Lost, Promised!Close,
          Promised!GivenUp, Promised!Closed
<1> QED BY <1>5, <1>6

\* The first connection is under way.
LEMMA InitImplements == ASSUME Init PROVE Staging /\ Promised!Init
<1>1. PICK c \in Fresh : ws = BindResolveConnect(c)
  BY DEF Init
<1>2. ws.status = "closed" /\ ws.pending = {} /\ ws.stopping = FALSE
  BY <1>1 DEF Fresh, BindResolveConnect
<1>3. Staging
  BY <1>2 DEF Staging, Staged
<1>4. Conn(ws) = "connecting"
  BY <1>2 DEF Conn
<1> QED BY <1>2, <1>3, <1>4 DEF Promised!Init

\* The library's connection is what its owners take it for: it is made again
\* whenever it is lost, and after close() no attempt to connect begins that was
\* not under way, whatever handlers of earlier streams still run.
THEOREM KeepsItsPromise == Spec => ImplementsConnection
<1>1. Init => Staging /\ Promised!Init
  BY InitImplements
<1>2. IInv /\ Staging /\ [Next]_vars => Staging' /\ [Promised!Next]_(Promised!vars)
  <2>1. ASSUME IInv, Staging, Next PROVE Staging' /\ [Promised!Next]_(Promised!vars)
    BY <2>1, StepPromises, MovesImplement
  <2>2. ASSUME Staging, UNCHANGED vars PROVE Staging' /\ UNCHANGED Promised!vars
    <3>1. ws' = ws
      BY <2>2 DEF vars
    <3> QED BY <2>2, <3>1 DEF Staging, Promised!vars
  <2> QED BY <2>1, <2>2
<1> QED BY <1>1, <1>2, Invariant, PTL DEF Spec, ImplementsConnection, Promised!Spec

=============================================================================
