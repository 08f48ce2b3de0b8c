----------------------------- MODULE SpscQueue -----------------------------
(***************************************************************************)
(* SpscQueue<T, N> of shm/shm_types.h: the lock-free ring in shared memory *)
(* through which the strategy process (one producer) hands slippage,       *)
(* hedge-failure and latency events to the manager process (one consumer). *)
(*                                                                         *)
(* The two processes interleave at every access to memory that the other   *)
(* side writes: the load of the other side's index, each word of memcpy,   *)
(* and the release store of the own index.  memcpy copies its words in no  *)
(* particular order.  A store takes effect where it becomes visible, after *)
(* everything the release orders before it.                                *)
(***************************************************************************)
EXTENDS Naturals, Sequences

CONSTANTS
  N,       \* template parameter N: slots of the ring
  Words,   \* the words of one event
  Vals,    \* values a word of an event can have
  Zero     \* the word of freshly created (zeroed) shared memory

\* static_assert((N & (N - 1)) == 0); the queues in use have 256 or more slots.
ASSUME NAssumption == N \in Nat /\ N > 1
ASSUME ZeroAssumption == Zero \notin Vals
ASSUME WordsAssumption == Words # {}

VARIABLES
  head,    \* head_: index of the oldest event
  tail,    \* tail_: index of the slot the next event goes to
  slots,   \* slots_
  ppc,     \* where the producer is: "idle", "load", "copy"
  pval,    \* push's argument val
  ptail,   \* push's local tail
  pdone,   \* the words memcpy has written to slots_[ptail]
  pushed,  \* what push returned, "none" while it runs
  cpc,     \* where the consumer is: "idle", "load", "copy"
  cval,    \* pop's out parameter val
  chead,   \* pop's local head
  cdone,   \* the words memcpy has read from slots_[chead]
  popped   \* what pop returned, "none" while it runs

pvars == <<ppc, pval, ptail, pdone, pushed>>
cvars == <<cpc, cval, chead, cdone, popped>>
vars == <<head, tail, slots, pvars, cvars>>

Index == 0 .. (N - 1)
Whole(v) == [w \in Words |-> v]
Events == {Whole(v) : v \in Vals}
Memory == [Words -> Vals \cup {Zero}]

\* (i + 1) & (N - 1), for N a power of two and i an index
Succ(i) == IF i = N - 1 THEN 0 ELSE i + 1

Init ==
  /\ head = 0 /\ tail = 0
  /\ slots = [i \in Index |-> Whole(Zero)]
  /\ ppc = "idle" /\ pval \in Events /\ ptail = 0 /\ pdone = {} /\ pushed = "ok"
  /\ cpc = "idle" /\ cval = Whole(Zero) /\ chead = 0 /\ cdone = {} /\ popped = "failed"

-----------------------------------------------------------------------------
(* push, called by the strategy process                                    *)

PushCall(e) ==
  /\ ppc = "idle"
  /\ ppc' = "load"
  /\ pval' = e
  /\ ptail' = tail
  /\ pushed' = "none"
  /\ UNCHANGED <<head, tail, slots, pdone, cvars>>

\* if (next == head_.load(acquire)) return false;
PushFull ==
  /\ ppc = "load"
  /\ Succ(ptail) = head
  /\ ppc' = "idle"
  /\ pushed' = "failed"
  /\ UNCHANGED <<head, tail, slots, pval, ptail, pdone, cvars>>

\* Faulty: push does not look for a free slot.
PushClaimUnchecked ==
  /\ ppc = "load"
  /\ ppc' = "copy"
  /\ pdone' = {}
  /\ UNCHANGED <<head, tail, slots, pval, ptail, pushed, cvars>>

PushClaim ==
  /\ ppc = "load"
  /\ Succ(ptail) # head
  /\ ppc' = "copy"
  /\ pdone' = {}
  /\ UNCHANGED <<head, tail, slots, pval, ptail, pushed, cvars>>

PushCopy(w) ==
  /\ ppc = "copy"
  /\ w \notin pdone
  /\ slots' = [slots EXCEPT ![ptail][w] = pval[w]]
  /\ pdone' = pdone \cup {w}
  /\ UNCHANGED <<head, tail, ppc, pval, ptail, pushed, cvars>>

\* Faulty: the index is not masked.
PushCommitUnmasked ==
  /\ ppc = "copy"
  /\ pdone = Words
  /\ tail' = ptail + 1
  /\ ppc' = "idle"
  /\ pushed' = "ok"
  /\ UNCHANGED <<head, slots, pval, ptail, pdone, cvars>>

\* Faulty: a relaxed store, visible before the words of the event.
PushCommitRelaxed ==
  /\ ppc = "copy"
  /\ tail' = Succ(ptail)
  /\ ppc' = "idle"
  /\ pushed' = "ok"
  /\ UNCHANGED <<head, slots, pval, ptail, pdone, cvars>>

\* tail_.store(next, release); return true;
PushCommit ==
  /\ ppc = "copy"
  /\ pdone = Words
  /\ tail' = Succ(ptail)
  /\ ppc' = "idle"
  /\ pushed' = "ok"
  /\ UNCHANGED <<head, slots, pval, ptail, pdone, cvars>>

-----------------------------------------------------------------------------
(* pop, called by the manager process                                      *)

PopCall ==
  /\ cpc = "idle"
  /\ cpc' = "load"
  /\ chead' = head
  /\ popped' = "none"
  /\ UNCHANGED <<head, tail, slots, pvars, cval, cdone>>

\* Faulty: pop gives up whether or not there is an event.
PopEmptyAnyway ==
  /\ cpc = "load"
  /\ cpc' = "idle"
  /\ popped' = "failed"
  /\ UNCHANGED <<head, tail, slots, pvars, cval, chead, cdone>>

\* if (head == tail_.load(acquire)) return false;
PopEmpty ==
  /\ cpc = "load"
  /\ chead = tail
  /\ cpc' = "idle"
  /\ popped' = "failed"
  /\ UNCHANGED <<head, tail, slots, pvars, cval, chead, cdone>>

PopClaim ==
  /\ cpc = "load"
  /\ chead # tail
  /\ cpc' = "copy"
  /\ cdone' = {}
  /\ UNCHANGED <<head, tail, slots, pvars, cval, chead, popped>>

PopCopy(w) ==
  /\ cpc = "copy"
  /\ w \notin cdone
  /\ cval' = [cval EXCEPT ![w] = slots[chead][w]]
  /\ cdone' = cdone \cup {w}
  /\ UNCHANGED <<head, tail, slots, pvars, cpc, chead, popped>>

\* head_.store((head + 1) & (N - 1), release); return true;
PopCommit ==
  /\ cpc = "copy"
  /\ cdone = Words
  /\ head' = Succ(chead)
  /\ cpc' = "idle"
  /\ popped' = "ok"
  /\ UNCHANGED <<tail, slots, pvars, cval, chead, cdone>>

-----------------------------------------------------------------------------
ProducerStep == PushFull \/ PushClaim \/ (\E w \in Words : PushCopy(w)) \/ PushCommit
ConsumerStep == PopEmpty \/ PopClaim \/ (\E w \in Words : PopCopy(w)) \/ PopCommit

Next ==
  \/ \E e \in Events : PushCall(e)
  \/ ProducerStep
  \/ PopCall
  \/ ConsumerStep

Spec == Init /\ [][Next]_vars

(***************************************************************************)
(* Both calls are wait-free, so a process that is scheduled finishes them. *)
(* The manager polls for events as long as it runs (PopCall).  Nothing     *)
(* makes the strategy push.                                                *)
(***************************************************************************)
Fairness == WF_vars(ProducerStep) /\ WF_vars(PopCall) /\ WF_vars(ConsumerStep)
FairSpec == Spec /\ Fairness

-----------------------------------------------------------------------------
(* Properties                                                              *)

\* Type invariant: indices stay inside the ring, words come from events or
\* from zeroed memory.
TypeOK ==
  /\ head \in Index /\ tail \in Index
  /\ slots \in [Index -> Memory]
  /\ ppc \in {"idle", "load", "copy"} /\ cpc \in {"idle", "load", "copy"}
  /\ pval \in Events /\ cval \in Memory
  /\ ptail \in Index /\ chead \in Index
  /\ pdone \subseteq Words /\ cdone \subseteq Words
  /\ pushed \in {"none", "ok", "failed"} /\ popped \in {"none", "ok", "failed"}

\* The slots from head_ up to tail_, around the end of the ring.
Live(i) == IF head <= tail THEN head <= i /\ i < tail ELSE i < tail \/ head <= i

Count == IF head <= tail THEN tail - head ELSE tail + N - head
Nth(k) == IF head + k - 1 < N THEN head + k - 1 ELSE head + k - 1 - N

\* The plain (non-atomic) copies of the two processes never touch the same
\* slot at the same time: push writes a slot only while that slot is
\* outside what pop may be reading, so the memcpy pair is not a data race.
NoSlotRace == ppc = "copy" /\ cpc = "copy" => ptail # chead

\* A pop that returned true handed out one whole event that was pushed: never
\* zeroed memory and never a mixture of the words of two events.
WholeEvents == popped = "ok" => cval \in Events

\* The events in the ring, oldest first.
Contents == [k \in 1 .. Count |-> slots[Nth(k)]]

Fifo == INSTANCE BoundedFifo WITH
          Capacity <- N - 1,
          NoEvent <- Whole(Zero),
          queue <- Contents,
          out <- IF popped = "ok" THEN cval ELSE Whole(Zero)

\* The ring implements the bounded FIFO queue with N - 1 places: push takes
\* effect at the store of tail_ and pop at the store of head_, push answers
\* false only with N - 1 events inside, pop only with none, and the events come
\* out in the order they went in, each exactly once.
ImplementsFifo == Fifo!Spec

\* Every event that push accepted is handed out by a pop, however full the
\* ring was: no index position makes the ring report "empty" for good.
AcceptedEventsArrive ==
  \A e \in Events :
    (\E k \in 1 .. Count : Contents[k] = e) ~> (popped = "ok" /\ cval = e)
=============================================================================
