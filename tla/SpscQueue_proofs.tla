-------------------------- MODULE SpscQueue_proofs --------------------------
(***************************************************************************)
(* Proofs about SpscQueue, for every ring size and every set of events.    *)
(*                                                                         *)
(* The argument: between the load of head_ and the store of tail_ the      *)
(* consumer can only free slots, so the slot the producer claimed stays    *)
(* outside the live part of the ring (Claims); hence live slots are never  *)
(* written (LiveWhole) and the words each side has copied stay equal to    *)
(* their source until the copy is published (Copied).                      *)
(*                                                                         *)
(* RingRestart is proved about at the end: while a push that the manager's *)
(* create has hit is under way the ring stays empty (Interrupted); before  *)
(* and after, Claims and Copied hold again.                                *)
(***************************************************************************)
EXTENDS RingRestart, SequenceTheorems, TLAPS

Calls ==
  /\ ppc = "idle" <=> pushed # "none"
  /\ cpc = "idle" <=> popped # "none"

Locals ==
  /\ ppc # "idle" => ptail = tail
  /\ cpc # "idle" => chead = head

Claims ==
  /\ ppc = "copy" => Succ(tail) # head
  /\ cpc = "copy" => head # tail

Copied ==
  /\ ppc = "copy" => \A w \in pdone : slots[tail][w] = pval[w]
  /\ cpc = "copy" => \A w \in cdone : cval[w] = slots[head][w]

LiveWhole == \A i \in Index : Live(i) => slots[i] \in Events

\* What the two processes know, whatever the slots hold.
Core ==
  /\ TypeOK
  /\ Calls
  /\ Locals
  /\ Claims
  /\ Copied

IInv ==
  /\ Core
  /\ LiveWhole
  /\ WholeEvents

LEMMA SuccIndex ==
  ASSUME NEW i \in Index
  PROVE  Succ(i) \in Index /\ Succ(i) # i
BY NAssumption DEF Index, Succ

LEMMA SuccInjective ==
  ASSUME NEW i \in Index, NEW j \in Index, Succ(i) = Succ(j)
  PROVE  i = j
BY NAssumption DEF Index, Succ

LEMMA EventsInMemory == Events \subseteq Memory
BY DEF Events, Memory, Whole

LEMMA WholeZero == Whole(Zero) \in Memory
BY DEF Memory, Whole

LEMMA MemoryEq ==
  ASSUME NEW m \in Memory, NEW n \in Memory, \A w \in Words : m[w] = n[w]
  PROVE  m = n
BY DEF Memory

LEMMA TypeStep == TypeOK /\ [Next]_vars => TypeOK'
<1> SUFFICES ASSUME TypeOK, [Next]_vars PROVE TypeOK'
  OBVIOUS
<1> USE DEF TypeOK
<1>1. ASSUME NEW e \in Events, PushCall(e) PROVE TypeOK'
  BY <1>1 DEF PushCall, cvars
<1>2. CASE PushFull
  BY <1>2 DEF PushFull, cvars
<1>3. CASE PushClaim
  BY <1>3 DEF PushClaim, cvars
<1>4. ASSUME NEW w \in Words, PushCopy(w) PROVE TypeOK'
  <2>1. pval[w] \in Vals
    BY DEF Events, Whole
  <2>2. [slots[ptail] EXCEPT ![w] = pval[w]] \in Memory
    BY <2>1 DEF Memory
  <2>3. slots' \in [Index -> Memory]
    BY <1>4, <2>2 DEF PushCopy
  <2>. QED
    BY <1>4, <2>3 DEF PushCopy, cvars
<1>5. CASE PushCommit
  BY <1>5, SuccIndex DEF PushCommit, cvars
<1>6. CASE PopCall
  BY <1>6 DEF PopCall, pvars
<1>7. CASE PopEmpty
  BY <1>7 DEF PopEmpty, pvars
<1>8. CASE PopClaim
  BY <1>8 DEF PopClaim, pvars
<1>9. ASSUME NEW w \in Words, PopCopy(w) PROVE TypeOK'
  <2>1. cval' \in Memory
    BY <1>9 DEF PopCopy, Memory
  <2>. QED
    BY <1>9, <2>1 DEF PopCopy, pvars
<1>10. CASE PopCommit
  BY <1>10, SuccIndex DEF PopCommit, pvars
<1>11. CASE UNCHANGED vars
  BY <1>11 DEF vars, pvars, cvars
<1>. QED
  BY <1>1, <1>2, <1>3, <1>4, <1>5, <1>6, <1>7, <1>8, <1>9, <1>10, <1>11
     DEF Next, ProducerStep, ConsumerStep

LEMMA InitTypeOK == Init => TypeOK
BY NAssumption, EventsInMemory, WholeZero DEF Init, TypeOK, Index

\* Type correctness: the indices of the two processes never leave the ring
\* (shm/shm_types.h push and pop).
THEOREM TypeCorrect == Spec => []TypeOK
BY InitTypeOK, TypeStep, PTL DEF Spec

\* Each call preserves what the two processes know of each other.
LEMMA CoreStep == ASSUME Core, [Next]_vars PROVE Core'
<1> USE DEF Core, TypeOK, Locals
<1>0. TypeOK'
  BY TypeStep
<1>1. ASSUME NEW e \in Events, PushCall(e) PROVE Core'
  BY <1>0, <1>1 DEF PushCall, cvars, Calls, Locals, Claims, Copied
<1>2. CASE PushFull
  BY <1>0, <1>2 DEF PushFull, cvars, Calls, Locals, Claims, Copied
<1>3. CASE PushClaim
  BY <1>0, <1>3 DEF PushClaim, cvars, Calls, Locals, Claims, Copied
<1>4. ASSUME NEW w \in Words, PushCopy(w) PROVE Core'
  <2> USE <1>4 DEF PushCopy, cvars
  <2>1. Calls' /\ Locals' /\ Claims'
    BY DEF Calls, Locals, Claims
  <2>2. \A i \in Index : i # tail => slots'[i] = slots[i]
    OBVIOUS
  <2>3. \A x \in Words : slots'[tail][x] = IF x = w THEN pval[w] ELSE slots[tail][x]
    BY DEF Memory
  <2>4. \A x \in pdone' : slots'[tail][x] = pval[x]
    BY <2>3 DEF Copied
  <2>5. cpc = "copy" => slots'[head] = slots[head]
    BY <2>2 DEF Claims
  <2>6. Copied'
    BY <2>4, <2>5 DEF Copied
  <2>. QED
    BY <1>0, <2>1, <2>6
<1>5. CASE PushCommit
  BY <1>0, <1>5 DEF PushCommit, cvars, Calls, Locals, Claims, Copied
<1>6. CASE PopCall
  BY <1>0, <1>6 DEF PopCall, pvars, Calls, Locals, Claims, Copied
<1>7. CASE PopEmpty
  BY <1>0, <1>7 DEF PopEmpty, pvars, Calls, Locals, Claims, Copied
<1>8. CASE PopClaim
  BY <1>0, <1>8 DEF PopClaim, pvars, Calls, Locals, Claims, Copied
<1>9. ASSUME NEW w \in Words, PopCopy(w) PROVE Core'
  <2> USE <1>9 DEF PopCopy, pvars
  <2>1. \A x \in Words : cval'[x] = IF x = w THEN slots[head][w] ELSE cval[x]
    BY DEF Memory
  <2>2. Copied'
    BY <2>1 DEF Copied
  <2>3. Calls' /\ Locals' /\ Claims'
    BY DEF Calls, Locals, Claims
  <2>. QED
    BY <1>0, <2>2, <2>3
<1>10. CASE PopCommit
  <2> USE <1>10 DEF PopCommit, pvars
  <2>1. Claims'
    BY SuccInjective DEF Claims
  <2>2. Calls' /\ Locals' /\ Copied'
    BY DEF Calls, Locals, Copied
  <2>. QED
    BY <1>0, <2>1, <2>2
<1>11. CASE UNCHANGED vars
  BY <1>0, <1>11 DEF vars, pvars, cvars, Calls, Locals, Claims, Copied
<1>. QED
  BY <1>1, <1>2, <1>3, <1>4, <1>5, <1>6, <1>7, <1>8, <1>9, <1>10, <1>11
     DEF Next, ProducerStep, ConsumerStep

LEMMA InitIInv == Init => IInv
<1> SUFFICES ASSUME Init PROVE IInv
  OBVIOUS
<1>1. Calls /\ Locals /\ Claims /\ Copied /\ WholeEvents
  BY DEF Init, Calls, Locals, Claims, Copied, WholeEvents
<1>2. LiveWhole
  BY DEF Init, LiveWhole, Live, Index
<1>. QED
  BY InitTypeOK, <1>1, <1>2 DEF IInv, Core

\* Only two steps can bring something else than an event into the live part or
\* out of it: the stores of tail_ and head_, and the copy into a slot.
LEMMA NextIInv == ASSUME IInv, [Next]_vars PROVE IInv'
<1> USE DEF IInv, Core, TypeOK, Locals
<1>0. Core'
  BY CoreStep
<1>1. ASSUME NEW w \in Words, PushCopy(w) PROVE IInv'
  <2> USE <1>1 DEF PushCopy, cvars
  <2>1. \A i \in Index : i # tail => slots'[i] = slots[i]
    OBVIOUS
  <2>2. ~Live(tail)
    BY DEF Live, Index
  <2>3. LiveWhole' /\ WholeEvents'
    BY <2>1, <2>2 DEF LiveWhole, Live, WholeEvents
  <2>. QED
    BY <1>0, <2>3
<1>2. CASE PushCommit
  <2> USE <1>2 DEF PushCommit, cvars
  <2>1. slots[tail] = pval
    BY EventsInMemory, MemoryEq DEF Copied
  <2>2. \A i \in Index : Live(i)' => Live(i) \/ i = tail
    BY NAssumption DEF Live, Succ, Index, Claims
  <2>3. LiveWhole' /\ WholeEvents'
    BY <2>1, <2>2 DEF LiveWhole, WholeEvents
  <2>. QED
    BY <1>0, <2>3
<1>3. CASE PopCommit
  <2> USE <1>3 DEF PopCommit, pvars
  <2>1. Live(head)
    BY DEF Live, Claims, Index
  <2>2. cval = slots[head]
    BY MemoryEq DEF Copied
  <2>3. WholeEvents'
    BY <2>1, <2>2 DEF WholeEvents, LiveWhole
  <2>4. \A i \in Index : Live(i)' => Live(i)
    BY NAssumption DEF Live, Succ, Index, Claims
  <2>5. LiveWhole'
    BY <2>4 DEF LiveWhole
  <2>. QED
    BY <1>0, <2>3, <2>5
<1>4. ASSUME UNCHANGED <<head, tail, slots>>, popped' # "ok" \/ UNCHANGED <<popped, cval>>
      PROVE  IInv'
  BY <1>0, <1>4 DEF LiveWhole, Live, WholeEvents
<1>5. CASE (\E e \in Events : PushCall(e)) \/ PushFull \/ PushClaim
  BY <1>4, <1>5 DEF PushCall, PushFull, PushClaim, cvars
<1>6. CASE PopCall \/ PopEmpty \/ PopClaim \/ (\E w \in Words : PopCopy(w))
  BY <1>4, <1>6 DEF PopCall, PopEmpty, PopClaim, PopCopy, Calls
<1>7. CASE UNCHANGED vars
  BY <1>4, <1>7 DEF vars, cvars
<1>. QED
  BY <1>1, <1>2, <1>3, <1>5, <1>6, <1>7 DEF Next, ProducerStep, ConsumerStep

\* The inductive invariant of the ring: claims, copies and live slots.
THEOREM Invariance == Spec => []IInv
<1>1. IInv /\ [Next]_vars => IInv'
  BY NextIInv
<1>. QED
  BY InitIInv, <1>1, PTL DEF Spec

\* The two memcpys never meet in a slot (push, pop of shm/shm_types.h).
THEOREM SlotRaceFreedom == Spec => []NoSlotRace
<1>1. IInv => NoSlotRace
  BY DEF IInv, Core, Locals, Claims, NoSlotRace
<1>. QED
  BY Invariance, <1>1, PTL

\* Every event handed out by pop is one whole event that was pushed.
THEOREM OnlyWholeEvents == Spec => []WholeEvents
<1>1. IInv => WholeEvents
  BY DEF IInv, Core
<1>. QED
  BY Invariance, <1>1, PTL

-----------------------------------------------------------------------------
(* Refinement: the ring implements BoundedFifo with N - 1 places.          *)

LEMMA CountFacts ==
  ASSUME TypeOK
  PROVE  /\ Count \in 0 .. (N - 1)
         /\ Count = 0 <=> head = tail
         /\ Count = N - 1 <=> Succ(tail) = head
         /\ \A k \in 1 .. Count : Nth(k) \in Index /\ Live(Nth(k)) /\ Nth(k) # tail
BY NAssumption DEF TypeOK, Count, Nth, Live, Index, Succ

ContentsOK ==
  /\ Contents \in Seq(Memory)
  /\ Len(Contents) = Count
  /\ Contents = <<>> <=> head = tail

LEMMA ContentsFacts == TypeOK => ContentsOK
<1> SUFFICES ASSUME TypeOK PROVE ContentsOK
  OBVIOUS
<1>1. Count \in Nat
  BY CountFacts, NAssumption
<1>2. \A k \in 1 .. Count : slots[Nth(k)] \in Memory
  BY CountFacts DEF TypeOK
<1>3. Contents \in Seq(Memory) /\ Len(Contents) = Count
  BY <1>1, <1>2 DEF Contents
<1>4. Contents = <<>> <=> Count = 0
  BY <1>1, <1>3
<1>. QED
  BY <1>3, <1>4, CountFacts DEF ContentsOK

LEMMA NextContentsFacts == TypeOK' => ContentsOK'
BY ContentsFacts, PTL

LEMMA PushAppends ==
  ASSUME IInv, TypeOK', PushCommit
  PROVE  Contents' = Append(Contents, pval)
<1> USE DEF IInv, Core, Locals
<1>1. slots[tail] = pval
  BY EventsInMemory, MemoryEq DEF PushCommit, Copied, TypeOK
<1>2. PICK c \in Nat : c = Count
  BY CountFacts, NAssumption
<1>3. Count' = c + 1 /\ (\A k \in 1 .. c : Nth(k)' = Nth(k)) /\ Nth(c + 1)' = tail
  BY <1>2, NAssumption DEF PushCommit, Claims, TypeOK, Count, Nth, Index, Succ
<1>4. /\ Contents \in Seq(Memory) /\ Len(Contents) = c
      /\ Contents' \in Seq(Memory) /\ Len(Contents') = c + 1
  BY <1>2, <1>3, ContentsFacts, NextContentsFacts DEF ContentsOK
<1>5. pval \in Memory
  BY EventsInMemory DEF TypeOK
<1>6. Contents' = [k \in 1 .. (c + 1) |-> slots[Nth(k)']]
  BY <1>3 DEF Contents, PushCommit
<1>7. ASSUME NEW k \in 1 .. (c + 1)
      PROVE  Contents'[k] = IF k <= c THEN Contents[k] ELSE pval
  <2>1. Contents'[k] = slots[Nth(k)']
    BY <1>6
  <2>2. CASE k <= c
    BY <1>2, <1>3, <2>1, <2>2 DEF Contents
  <2>3. CASE k = c + 1
    BY <1>1, <1>3, <2>1, <2>3
  <2>. QED
    BY <2>2, <2>3
<1>. QED
  BY <1>4, <1>5, <1>7, AppendProperties, SeqEqual

LEMMA PopTakesHead ==
  ASSUME IInv, TypeOK', PopCommit
  PROVE  /\ Contents # <<>>
         /\ cval = Head(Contents)
         /\ Contents' = Tail(Contents)
<1> USE DEF IInv, Core, Locals
<1>1. cval = slots[head]
  BY MemoryEq DEF PopCommit, Copied, TypeOK
<1>2. PICK c \in Nat : c = Count
  BY CountFacts, NAssumption
<1>3. /\ c > 0 /\ Nth(1) = head /\ Count' = c - 1
      /\ \A k \in 1 .. (c - 1) : Nth(k)' = Nth(k + 1)
  BY <1>2, NAssumption DEF PopCommit, Claims, TypeOK, Count, Nth, Index, Succ
<1>4. /\ Contents \in Seq(Memory) /\ Len(Contents) = c
      /\ Contents' \in Seq(Memory) /\ Len(Contents') = c - 1
  BY <1>2, <1>3, ContentsFacts, NextContentsFacts DEF ContentsOK
<1>5. Contents # <<>> /\ Head(Contents) = slots[head]
  BY <1>2, <1>3, <1>4 DEF Contents
<1>6. Contents' = [k \in 1 .. (c - 1) |-> slots[Nth(k)']]
  BY <1>3 DEF Contents, PopCommit
<1>7. \A k \in 1 .. (c - 1) : Contents'[k] = Contents[k + 1]
  BY <1>2, <1>3, <1>6 DEF Contents
<1>8. Contents' = Tail(Contents)
  BY <1>3, <1>4, <1>5, <1>7, HeadTailProperties, SeqEqual
<1>. QED
  BY <1>1, <1>5, <1>8

LEMMA ContentsUnchanged ==
  ASSUME TypeOK, UNCHANGED <<head, tail>>,
         \A i \in Index : i # tail => slots'[i] = slots[i]
  PROVE  Contents' = Contents
<1>1. Count' = Count /\ \A k \in 1 .. Count : Nth(k)' = Nth(k)
  BY DEF Count, Nth
<1>2. \A k \in 1 .. Count : slots'[Nth(k)] = slots[Nth(k)]
  BY CountFacts
<1>3. Contents' = [k \in 1 .. Count |-> slots'[Nth(k)']]
  BY <1>1 DEF Contents
<1>. QED
  BY <1>1, <1>2, <1>3 DEF Contents

\* The ring implements the bounded FIFO queue: push and pop of
\* shm/shm_types.h each take effect at one store, and fail only on a queue
\* that is full or empty at that point of the call.
THEOREM Refinement == Spec => ImplementsFifo
<1>1. Init => Fifo!Init
  <2> SUFFICES ASSUME Init PROVE Fifo!Init
    OBVIOUS
  <2>1. TypeOK
    BY InitIInv DEF IInv, Core
  <2>. QED
    BY <2>1, ContentsFacts DEF ContentsOK, Init, Fifo!Init
<1>2. IInv /\ TypeOK' /\ [Next]_vars => [Fifo!Next]_(Fifo!vars)
  <2> SUFFICES ASSUME IInv, TypeOK', [Next]_vars PROVE [Fifo!Next]_(Fifo!vars)
    OBVIOUS
  <2>0. TypeOK
    BY DEF IInv, Core
  <2>1. ASSUME NEW e \in Events, PushCall(e) PROVE Fifo!PushCall
    BY <2>0, <2>1, ContentsUnchanged DEF PushCall, cvars, IInv, Core, Calls, Locals, Fifo!PushCall
  <2>2. CASE PushFull
    <3>1. Fifo!PushFull
      BY <2>0, <2>2, ContentsUnchanged, ContentsFacts, CountFacts
         DEF ContentsOK, PushFull, cvars, IInv, Core, Calls, Locals, Fifo!PushFull
    <3>. QED
      BY <3>1 DEF Fifo!Next
  <2>3. CASE PushClaim
    BY <2>0, <2>3, ContentsUnchanged DEF PushClaim, cvars, Fifo!vars
  <2>4. ASSUME NEW w \in Words, PushCopy(w) PROVE UNCHANGED Fifo!vars
    <3>1. \A i \in Index : i # tail => slots'[i] = slots[i]
      BY <2>0, <2>4 DEF PushCopy, TypeOK, IInv, Core, Locals
    <3>. QED
      BY <2>0, <2>4, <3>1, ContentsUnchanged DEF PushCopy, cvars, Fifo!vars
  <2>5. CASE PushCommit
    <3>1. Contents' = Append(Contents, pval)
      BY <2>5, PushAppends
    <3>2. Len(Contents) < N - 1
      BY <2>0, <2>5, ContentsFacts, CountFacts, NAssumption DEF ContentsOK, PushCommit, IInv, Core, Locals, Claims
    <3>3. Fifo!Push(pval) /\ pval \in Events
      BY <2>0, <2>5, <3>1, <3>2 DEF PushCommit, cvars, IInv, Core, Calls, Locals, TypeOK, Fifo!Push
    <3>. QED
      BY <3>3 DEF Fifo!Next
  <2>6. CASE PopCall
    <3>1. Fifo!PopCall
      BY <2>0, <2>6, ContentsUnchanged DEF PopCall, pvars, IInv, Core, Calls, Locals, Fifo!PopCall
    <3>. QED
      BY <3>1 DEF Fifo!Next
  <2>7. CASE PopEmpty
    <3>1. Fifo!PopEmpty
      BY <2>0, <2>7, ContentsUnchanged, ContentsFacts DEF ContentsOK, PopEmpty, pvars, IInv, Core, Calls, Locals, Fifo!PopEmpty
    <3>. QED
      BY <3>1 DEF Fifo!Next
  <2>8. CASE PopClaim
    BY <2>0, <2>8, ContentsUnchanged DEF PopClaim, pvars, Fifo!vars
  <2>9. ASSUME NEW w \in Words, PopCopy(w) PROVE UNCHANGED Fifo!vars
    BY <2>0, <2>9, ContentsUnchanged DEF PopCopy, pvars, IInv, Core, Calls, Locals, Fifo!vars
  <2>10. CASE PopCommit
    <3>1. Fifo!Pop
      BY <2>0, <2>10, PopTakesHead DEF PopCommit, pvars, IInv, Core, Calls, Locals, Fifo!Pop
    <3>. QED
      BY <3>1 DEF Fifo!Next
  <2>11. CASE UNCHANGED vars
    BY <2>0, <2>11, ContentsUnchanged DEF vars, pvars, cvars, Fifo!vars
  <2>. QED
    BY <2>1, <2>2, <2>3, <2>4, <2>5, <2>6, <2>7, <2>8, <2>9, <2>10, <2>11
       DEF Next, ProducerStep, ConsumerStep, Fifo!Next
<1>. QED
  BY <1>1, <1>2, Invariance, TypeCorrect, PTL DEF Spec, ImplementsFifo, Fifo!Spec

-----------------------------------------------------------------------------
(* The ring across restarts of the manager (RingRestart).                   *)

\* A push that runs since before the restart: it may write any slot, but the
\* ring is empty and stays so until the push is published.
Interrupted ==
  /\ ppc # "idle"
  /\ head = tail
  /\ cpc # "copy" /\ (cpc = "load" => chead = head)
  /\ popped # "ok"

RIInv ==
  /\ TypeOK
  /\ Calls
  /\ dirt \in {"clean", "push", "ring"}
  /\ dirt = "push" => Interrupted
  /\ dirt # "push" => Core
  /\ dirt = "clean" => LiveWhole /\ WholeEvents

\* The ring just after create(): zeroed slots, none of them live.
LEMMA RecreateStep == ASSUME RIInv, Recreate PROVE RIInv'
<1> USE DEF Recreate, pvars
<1>1. TypeOK'
  BY NAssumption, WholeZero DEF RIInv, TypeOK, Index
<1>2. Calls'
  BY DEF RIInv, Calls
<1>3. dirt' = "push" => Interrupted'
  BY DEF Interrupted
<1>4. dirt' # "push" => Locals' /\ Claims' /\ Copied'
  BY DEF Locals, Claims, Copied
<1>5. LiveWhole' /\ WholeEvents'
  BY DEF LiveWhole, WholeEvents, Live, Index
<1>6. dirt' \in {"clean", "push", "ring"}
  OBVIOUS
<1>. QED
  BY <1>1, <1>2, <1>3, <1>4, <1>5, <1>6 DEF RIInv, Core

\* While an interrupted push runs the consumer finds the ring empty; the push
\* ends by finding it full, which cleans it, or by publishing a zeroed slot.
LEMMA InterruptedStep ==
  ASSUME RIInv, dirt = "push", Next
  PROVE  /\ Calls'
         /\ pushed' = "none" => Interrupted'
         /\ pushed' # "none" => Locals' /\ Claims' /\ Copied'
         /\ pushed' = "failed" => LiveWhole' /\ WholeEvents'
<1> USE DEF RIInv, Interrupted, TypeOK, Calls
<1>1. (\E e \in Events : PushCall(e)) => FALSE
  BY DEF PushCall
<1>2. PopClaim \/ PopCommit \/ (\E w \in Words : PopCopy(w)) => FALSE
  BY DEF PopClaim, PopCommit, PopCopy
<1>3. CASE PushFull
  BY <1>3 DEF PushFull, cvars, Locals, Claims, Copied, LiveWhole, Live, Index, WholeEvents
<1>4. CASE PushCommit
  BY <1>4 DEF PushCommit, cvars, Locals, Claims, Copied
<1>5. CASE PushClaim \/ \E w \in Words : PushCopy(w)
  BY <1>5 DEF PushClaim, PushCopy, cvars
<1>6. CASE PopCall \/ PopEmpty
  BY <1>6 DEF PopCall, PopEmpty, pvars
<1>. QED
  BY <1>1, <1>2, <1>3, <1>4, <1>5, <1>6 DEF Next, ProducerStep, ConsumerStep

\* A pop that finds the ring empty leaves nothing live.
LEMMA EmptyIsClean ==
  ASSUME Core, Next, popped = "none", popped' = "failed"
  PROVE  LiveWhole' /\ WholeEvents'
<1>1. PopEmpty
  BY DEF Next, ProducerStep, ConsumerStep, PushCall, PushFull, PushClaim, PushCopy,
         PushCommit, PopCall, PopClaim, PopCopy, PopCommit, cvars
<1>. QED
  BY <1>1 DEF PopEmpty, Core, TypeOK, Locals, LiveWhole, Live, Index, WholeEvents

LEMMA RStep == ASSUME RIInv, [RNext]_<<vars, rvars>> PROVE RIInv'
<1>1. CASE Recreate
  BY <1>1, RecreateStep
<1>2. CASE UNCHANGED <<vars, rvars>>
  BY <1>2 DEF rvars, vars, pvars, cvars, RIInv, Interrupted, Core, TypeOK, Calls, Locals,
              Claims, Copied, LiveWhole, Live, WholeEvents
<1>3. ASSUME Next,
             dirt' = CASE dirt = "push" /\ pushed' = "ok" -> "ring"
                       [] dirt = "push" /\ pushed' = "failed" -> "clean"
                       [] dirt = "ring" /\ popped = "none" /\ popped' = "failed" -> "clean"
                       [] OTHER -> dirt
      PROVE  RIInv'
  <2>1. TypeOK'
    BY <1>3, TypeStep DEF RIInv
  <2>2. CASE dirt = "push"
    <3>1. pushed' \in {"none", "ok", "failed"}
      BY <2>1 DEF TypeOK
    <3>2. /\ pushed' = "none" => dirt' = "push"
          /\ pushed' = "ok" => dirt' = "ring"
          /\ pushed' = "failed" => dirt' = "clean"
      BY <1>3, <2>2
    <3>. QED
      BY <1>3, <2>1, <2>2, <3>1, <3>2, InterruptedStep DEF RIInv, Core
  <2>3. CASE dirt = "ring"
    <3>1. dirt' = IF popped = "none" /\ popped' = "failed" THEN "clean" ELSE "ring"
      BY <1>3, <2>3
    <3>2. Core'
      BY <1>3, <2>3, CoreStep DEF RIInv
    <3>. QED
      BY <1>3, <2>3, <3>1, <3>2, EmptyIsClean DEF RIInv, Core
  <2>4. CASE dirt = "clean"
    <3>1. dirt' = "clean"
      BY <1>3, <2>4
    <3>2. IInv'
      BY <1>3, <2>4, NextIInv DEF RIInv, IInv
    <3>. QED
      BY <3>1, <3>2 DEF RIInv, IInv, Core
  <2>. QED
    BY <2>2, <2>3, <2>4 DEF RIInv
<1>. QED
  BY <1>1, <1>2, <1>3 DEF RNext

\* However often the manager is restarted, pop hands out something that was
\* never pushed only while a push that a restart interrupted runs, or after
\* it until the manager has once found the ring empty (create() of
\* shm/shm_manager.cpp under push of shm/shm_types.h).
THEOREM PhantomsOnlyAfterInterruption == RSpec => []PhantomsNeedInterruptedPush
<1>1. RInit => RIInv
  BY InitIInv DEF RInit, RIInv, IInv, Core
<1>2. RIInv /\ [RNext]_<<vars, rvars>> => RIInv'
  BY RStep
<1>3. RIInv => PhantomsNeedInterruptedPush
  BY DEF RIInv, PhantomsNeedInterruptedPush
<1>. QED
  BY <1>1, <1>2, <1>3, PTL DEF RSpec
=============================================================================
