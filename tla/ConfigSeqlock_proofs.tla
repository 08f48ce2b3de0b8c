------------------------ MODULE ConfigSeqlock_proofs ------------------------
(***************************************************************************)
(* Proofs about ConfigSeqlock, for every number of words, configurations,  *)
(* writes and restarts.                                                    *)
(*                                                                         *)
(* The argument: outside a write the words of the object are those of the  *)
(* newest configuration (Written).  While a poll that no restart has hit   *)
(* copies, version only grows; as long as it still equals v1 no word has   *)
(* changed since the load, so every word copied equals the word in shared  *)
(* memory (Copying).                                                       *)
(***************************************************************************)
EXTENDS ConfigSeqlock, SequenceTheorems, TLAPS

Newest == IF history = <<>> THEN Zero ELSE history[Len(history)]

\* The version counts the finished writes of this owner, twice.
Versions ==
  /\ version = 2 * Len(history) + (IF wpc = "copy" THEN 1 ELSE 0)
  /\ wpc # "idle" => wv = 2 * Len(history)

Written ==
  /\ wpc # "copy" => words = Whole(Newest)
  /\ wpc = "copy" => \A w \in wdone : words[w] = src

Copying ==
  rpc = "copy" =>
    /\ v1 # last /\ ~Odd(v1)
    /\ ~Hit => /\ v1 <= version
               /\ version = v1 => \A w \in rdone : snap[w] = words[w]

Calls == rpc = "idle" <=> polled # "none"

\* Until the first restart, what was delivered last is one of this history.
LastOK == restarts = 0 => last \in {2 * k : k \in 0 .. Len(history)}

IInv == TypeOK /\ Calls /\ LastOK /\ Versions /\ Written /\ Copying /\ TornOnlyAcrossRestart

LEMMA MemoryEq ==
  ASSUME NEW m \in Memory, NEW n \in Memory, \A w \in Words : m[w] = n[w]
  PROVE  m = n
BY DEF Memory

LEMMA WholeInMemory == \A c \in Configs \cup {Zero} : Whole(c) \in Memory
BY DEF Whole, Memory

LEMMA Parity == \A n \in Nat : ~Odd(2 * n) /\ Odd(2 * n + 1)
BY DEF Odd

\* Type correctness (shm/shm_manager.cpp write_config, poll_config).
THEOREM TypeCorrect == Spec => []TypeOK
<1>1. Init => TypeOK
  BY WholeInMemory DEF Init, TypeOK
<1>2. TypeOK /\ [Next]_vars => TypeOK'
  <2> SUFFICES ASSUME TypeOK, [Next]_vars PROVE TypeOK'
    OBVIOUS
  <2> USE DEF TypeOK, shared, wvars, rvars, hvars
  <2>1. ASSUME NEW c \in Configs, WriteBegin(c) PROVE TypeOK'
    BY <2>1 DEF WriteBegin
  <2>2. CASE WriteMark
    BY <2>2 DEF WriteMark
  <2>3. ASSUME NEW w \in Words, WriteCopy(w) PROVE TypeOK'
    <3>1. words' \in Memory
      BY <2>3 DEF WriteCopy, Memory
    <3>. QED
      BY <2>3, <3>1 DEF WriteCopy
  <2>4. CASE WriteEnd
    BY <2>4 DEF WriteEnd
  <2>5. CASE Recreate
    BY <2>5, WholeInMemory DEF Recreate
  <2>6. CASE PollBegin
    BY <2>6 DEF PollBegin
  <2>7. CASE PollNothing
    BY <2>7 DEF PollNothing
  <2>8. CASE PollLoad
    BY <2>8 DEF PollLoad
  <2>9. ASSUME NEW w \in Words, PollCopy(w) PROVE TypeOK'
    <3>1. snap' \in Memory
      BY <2>9 DEF PollCopy, Memory
    <3>. QED
      BY <2>9, <3>1 DEF PollCopy
  <2>10. CASE PollCheck
    BY <2>10 DEF PollCheck
  <2>11. CASE PollChanged
    BY <2>11 DEF PollChanged
  <2>12. CASE UNCHANGED vars
    BY <2>12 DEF vars
  <2>. QED
    BY <2>1, <2>2, <2>3, <2>4, <2>5, <2>6, <2>7, <2>8, <2>9, <2>10, <2>11, <2>12
       DEF Next, WriterStep, ReaderStep
<1>. QED
  BY <1>1, <1>2, PTL DEF Spec

LEMMA InitIInv == Init => IInv
<1> SUFFICES ASSUME Init PROVE IInv
  OBVIOUS
<1>1. TypeOK
  BY WholeInMemory DEF Init, TypeOK
<1>2. Calls /\ Versions /\ Written /\ Copying /\ TornOnlyAcrossRestart
  BY DEF Init, Calls, Versions, Written, Newest, Copying, TornOnlyAcrossRestart
<1>3. LastOK
  BY DEF Init, LastOK
<1>. QED
  BY <1>1, <1>2, <1>3 DEF IInv

LEMMA NextIInv ==
  ASSUME IInv, TypeOK', [Next]_vars
  PROVE  IInv'
<1> USE DEF IInv, TypeOK, shared, wvars, rvars, hvars
<1>0. Len(history) \in Nat
  OBVIOUS
<1>1. ASSUME NEW c \in Configs, WriteBegin(c) PROVE IInv'
  BY <1>0, <1>1 DEF WriteBegin, Calls, LastOK, Versions, Written, Newest, Copying, Hit,
                    TornOnlyAcrossRestart
<1>2. CASE WriteMark
  <2> USE <1>2 DEF WriteMark
  <2>1. Calls' /\ LastOK' /\ TornOnlyAcrossRestart' /\ Written'
    BY DEF Calls, LastOK, TornOnlyAcrossRestart, Hit, Written
  <2>2. Versions'
    BY <1>0 DEF Versions
  <2>3. Copying'
    BY <1>0 DEF Copying, Versions, Hit
  <2>. QED
    BY <2>1, <2>2, <2>3
<1>3. ASSUME NEW w \in Words, WriteCopy(w) PROVE IInv'
  <2> USE <1>3 DEF WriteCopy
  <2>1. Calls' /\ LastOK' /\ TornOnlyAcrossRestart' /\ Versions'
    BY DEF Calls, LastOK, TornOnlyAcrossRestart, Hit, Versions
  <2>2. \A x \in Words : words'[x] = IF x = w THEN src ELSE words[x]
    BY DEF Memory
  <2>3. Written'
    BY <2>2 DEF Written
  <2>4. Odd(version)
    BY <1>0, Parity DEF Versions
  <2>5. Copying'
    BY <2>4 DEF Copying, Hit
  <2>. QED
    BY <2>1, <2>3, <2>5
<1>4. CASE WriteEnd
  <2> USE <1>4 DEF WriteEnd
  <2>1. /\ Len(history') = Len(history) + 1 /\ history' # <<>>
        /\ history'[Len(history')] = src
    OBVIOUS
  <2>2. Calls' /\ TornOnlyAcrossRestart'
    BY DEF Calls, TornOnlyAcrossRestart, Hit
  <2>3. LastOK'
    BY <1>0, <2>1 DEF LastOK
  <2>4. Versions'
    BY <1>0, <2>1 DEF Versions
  <2>5. words = Whole(src)
    BY MemoryEq, WholeInMemory DEF Written, Whole
  <2>6. Written'
    BY <2>1, <2>5 DEF Written, Newest
  <2>7. Copying'
    BY <1>0, <2>1 DEF Copying, Versions, Hit
  <2>. QED
    BY <2>2, <2>3, <2>4, <2>6, <2>7
<1>5. CASE Recreate
  <2> USE <1>5 DEF Recreate
  <2>1. Calls' /\ LastOK' /\ Versions'
    BY DEF Calls, LastOK, Versions
  <2>2. Written'
    BY DEF Written, Newest
  <2>. QED
    BY <2>1, <2>2 DEF Copying, TornOnlyAcrossRestart, Hit
<1>6. CASE PollBegin
  BY <1>6 DEF PollBegin, Calls, LastOK, Versions, Written, Newest, Copying,
              TornOnlyAcrossRestart
<1>7. CASE PollNothing
  BY <1>7 DEF PollNothing, Calls, LastOK, Versions, Written, Newest, Copying,
              TornOnlyAcrossRestart
<1>8. CASE PollLoad
  BY <1>8 DEF PollLoad, Calls, LastOK, Versions, Written, Newest, Copying, Hit,
              TornOnlyAcrossRestart
<1>9. ASSUME NEW w \in Words, PollCopy(w) PROVE IInv'
  <2> USE <1>9 DEF PollCopy
  <2>1. Calls' /\ LastOK' /\ Versions' /\ Written' /\ TornOnlyAcrossRestart'
    BY DEF Calls, LastOK, Versions, Written, Newest, TornOnlyAcrossRestart
  <2>2. \A x \in Words : snap'[x] = IF x = w THEN words[w] ELSE snap[x]
    BY DEF Memory
  <2>3. Copying'
    BY <2>2 DEF Copying, Hit
  <2>. QED
    BY <2>1, <2>3
<1>10. CASE PollCheck
  <2> USE <1>10 DEF PollCheck
  <2>1. ~Odd(version) /\ wpc # "copy" /\ version = 2 * Len(history)
    BY <1>0, Parity DEF Copying, Versions
  <2>2. Calls' /\ Versions' /\ Written' /\ Copying'
    BY DEF Calls, Versions, Written, Newest, Copying
  <2>3. LastOK'
    BY <1>0, <2>1 DEF LastOK
  <2>4. ~Hit => snap = words
    BY MemoryEq DEF Copying
  <2>5. Newest \in Configs \cup {Zero}
    BY <1>0, ElementOfSeq DEF Newest
  <2>6. TornOnlyAcrossRestart'
    BY <2>1, <2>4, <2>5 DEF TornOnlyAcrossRestart, Hit, Written, WholeConfigs
  <2>. QED
    BY <2>2, <2>3, <2>6
<1>11. CASE PollChanged
  BY <1>11 DEF PollChanged, Calls, LastOK, Versions, Written, Newest, Copying,
               TornOnlyAcrossRestart
<1>12. CASE UNCHANGED vars
  BY <1>12 DEF vars, Calls, LastOK, Versions, Written, Newest, Copying, Hit,
               TornOnlyAcrossRestart
<1>. QED
  BY <1>1, <1>2, <1>3, <1>4, <1>5, <1>6, <1>7, <1>8, <1>9, <1>10, <1>11, <1>12
     DEF Next, WriterStep, ReaderStep

\* The inductive invariant of the sequence lock.
THEOREM Invariance == Spec => []IInv
<1>1. TypeOK' /\ IInv /\ [Next]_vars => IInv'
  BY NextIInv
<1>. QED
  BY InitIInv, <1>1, TypeCorrect, PTL DEF Spec

\* A torn snapshot needs a restart of the owner in the middle of that poll
\* (write_config, poll_config and create of shm/shm_manager.cpp).
THEOREM TornNeedsRestart == Spec => []TornOnlyAcrossRestart
<1>1. IInv => TornOnlyAcrossRestart
  BY DEF IInv
<1>. QED
  BY Invariance, <1>1, PTL

-----------------------------------------------------------------------------
(* Refinement: as long as the owner lives, an atomic register.             *)

OneLife == restarts = 0

LEMMA Half == \A k \in Nat : (2 * k) \div 2 = k
OBVIOUS

LEMMA NewestDelivered ==
  ASSUME IInv, OneLife, PollCheck
  PROVE  /\ last \div 2 < Len(history)
         /\ v1 \div 2 = Len(history)
         /\ snap = Whole(history[Len(history)])
<1> USE DEF IInv, TypeOK, PollCheck, OneLife
<1>1. Len(history) \in Nat
  OBVIOUS
<1>2. ~Odd(version) /\ wpc # "copy" /\ version = 2 * Len(history)
  BY <1>1, Parity DEF Copying, Versions
<1>3. v1 \div 2 = Len(history)
  BY <1>1, <1>2, Half
<1>4. PICK k \in 0 .. Len(history) : last = 2 * k
  BY DEF LastOK
<1>5. last \div 2 = k /\ k # Len(history)
  BY <1>1, <1>2, <1>4, Half DEF Copying
<1>6. snap = words
  BY MemoryEq DEF Copying, Hit
<1>7. words = Whole(history[Len(history)])
  BY <1>1, <1>2, <1>4, <1>5 DEF Written, Newest
<1>. QED
  BY <1>1, <1>3, <1>4, <1>5, <1>6, <1>7

\* As long as its owner lives, the sequence lock implements the atomic register
\* of ConfigRegister (write_config, poll_config).
THEOREM Refinement == Spec => ImplementsRegister
<1>1. Init => Register!Init
  <2>1. 0 \div 2 = 0
    BY Half
  <2>. QED
    BY <2>1 DEF Init, Register!Init
<1>2. ASSUME TypeOK, [Next]_vars, ~(OneLife /\ OneLife') PROVE [Register!Next]_(Register!vars)
  <2>1. restarts \in Nat /\ restarts' \in {restarts, restarts + 1}
    BY <1>2 DEF TypeOK, Next, vars, shared, wvars, rvars, hvars, WriterStep, ReaderStep,
         WriteBegin, WriteMark, WriteCopy, WriteEnd, Recreate, PollBegin, PollNothing,
         PollLoad, PollCopy, PollCheck, PollChanged
  <2>2. (restarts' = 0) = FALSE
    BY <1>2, <2>1 DEF OneLife
  <2>. QED
    BY <2>2 DEF Register!Next, Register!OwnerGone
<1>3. IInv /\ OneLife /\ OneLife' /\ [Next]_vars => [Register!Next]_(Register!vars)
  <2> SUFFICES ASSUME IInv, OneLife, OneLife', [Next]_vars PROVE [Register!Next]_(Register!vars)
    OBVIOUS
  <2> USE DEF IInv, TypeOK, Register!vars, shared, wvars, rvars, hvars, OneLife
  <2>1. ASSUME NEW c \in Configs, WriteBegin(c) PROVE UNCHANGED Register!vars
    BY <2>1 DEF WriteBegin
  <2>2. CASE WriteMark
    BY <2>2 DEF WriteMark
  <2>3. ASSUME NEW w \in Words, WriteCopy(w) PROVE UNCHANGED Register!vars
    BY <2>3 DEF WriteCopy
  <2>4. CASE WriteEnd
    <3>1. Register!Publish(src) /\ src \in Configs
      BY <2>4 DEF WriteEnd, Register!Publish
    <3>. QED
      BY <3>1 DEF Register!Next, Register!Operation
  <2>5. CASE Recreate
    BY <2>5 DEF Recreate, OneLife
  <2>6. CASE PollBegin
    <3>1. Register!PollCall
      BY <2>6 DEF PollBegin, Calls, Register!PollCall
    <3>. QED
      BY <3>1 DEF Register!Next, Register!Operation
  <2>7. CASE PollNothing
    <3>1. Register!PollNone
      BY <2>7 DEF PollNothing, Calls, Register!PollNone
    <3>. QED
      BY <3>1 DEF Register!Next, Register!Operation
  <2>8. CASE PollLoad
    BY <2>8 DEF PollLoad
  <2>9. ASSUME NEW w \in Words, PollCopy(w) PROVE UNCHANGED Register!vars
    BY <2>9 DEF PollCopy, Calls
  <2>10. CASE PollCheck
    <3>1. polled = "none"
      BY <2>10 DEF PollCheck, Calls
    <3>2. Register!PollNew
      BY <2>10, <3>1, NewestDelivered DEF PollCheck, Register!PollNew
    <3>. QED
      BY <3>2 DEF Register!Next, Register!Operation
  <2>11. CASE PollChanged
    <3>1. Register!PollNone
      BY <2>11 DEF PollChanged, Calls, Register!PollNone
    <3>. QED
      BY <3>1 DEF Register!Next, Register!Operation
  <2>12. CASE UNCHANGED vars
    BY <2>12 DEF vars
  <2>. QED
    BY <2>1, <2>2, <2>3, <2>4, <2>5, <2>6, <2>7, <2>8, <2>9, <2>10, <2>11, <2>12
       DEF Next, WriterStep, ReaderStep
<1>. QED
  BY <1>1, <1>2, <1>3, Invariance, TypeCorrect, PTL
     DEF Spec, ImplementsRegister, Register!Spec

-----------------------------------------------------------------------------
(* Nothing is missed: a poll answers false for one of three reasons, and    *)
(* only the one that the version was delivered before leaves the owner      *)
(* quiet.  An odd version is a write in progress, and a version that has    *)
(* moved is a write since the load.                                         *)

\* What was delivered last is still in the caller's hands unless version has
\* moved on; a copy under way overwrites it only then.
Delivered ==
  /\ last <= version
  /\ rpc = "copy" => last < v1
  /\ last = version /\ history # <<>> => snap = Whole(Newest)

Excused ==
  /\ seen <= Len(history)
  /\ rpc = "copy" => 2 * seen <= v1
  /\ polled = "false" /\ wpc = "idle" /\ Len(history) = seen /\ history # <<>>
       => last = version

MInv == OneLife => Delivered /\ Excused

LEMMA MStep == ASSUME IInv, MInv, [Next]_vars PROVE MInv'
<1> SUFFICES ASSUME OneLife' PROVE Delivered' /\ Excused'
  BY DEF MInv
<1> USE DEF IInv, TypeOK, shared, wvars, rvars, hvars
<1>0. OneLife /\ ~Recreate
  BY DEF OneLife, Next, vars, WriterStep, ReaderStep, WriteBegin, WriteMark, WriteCopy,
         WriteEnd, Recreate, PollBegin, PollNothing, PollLoad, PollCopy, PollCheck,
         PollChanged
<1>1. /\ Delivered /\ Excused /\ ~Hit
      /\ Len(history) \in Nat
  BY <1>0 DEF MInv, OneLife, Hit
<1>2. ASSUME NEW c \in Configs, WriteBegin(c) PROVE Delivered' /\ Excused'
  BY <1>1, <1>2 DEF WriteBegin, Delivered, Excused, Newest
<1>3. CASE WriteMark
  <2>1. version' = version + 1
    BY <1>1, <1>3 DEF WriteMark, Versions
  <2>. QED
    BY <1>1, <1>3, <2>1 DEF WriteMark, Delivered, Excused
<1>4. ASSUME NEW w \in Words, WriteCopy(w) PROVE Delivered' /\ Excused'
  BY <1>1, <1>4 DEF WriteCopy, Delivered, Excused, Newest
<1>5. CASE WriteEnd
  <2>1. version' = version + 1 /\ Len(history') = Len(history) + 1
    BY <1>1, <1>5 DEF WriteEnd, Versions
  <2>. QED
    BY <1>1, <1>5, <2>1 DEF WriteEnd, Delivered, Excused
<1>6. CASE PollBegin
  BY <1>1, <1>6 DEF PollBegin, Delivered, Excused, Newest
<1>7. CASE PollNothing
  <2>1. wpc = "idle" => ~Odd(version)
    BY <1>1, Parity DEF Versions
  <2>. QED
    BY <1>1, <1>7, <2>1 DEF PollNothing, Delivered, Excused, Newest
<1>8. CASE PollLoad
  <2>1. 2 * seen <= version
    BY <1>1 DEF Excused, Versions
  <2>. QED
    BY <1>1, <1>8, <2>1 DEF PollLoad, Calls, Delivered, Excused, Newest
<1>9. ASSUME NEW w \in Words, PollCopy(w) PROVE Delivered' /\ Excused'
  <2>1. last < version
    BY <1>1, <1>9 DEF PollCopy, Delivered, Copying
  <2>. QED
    BY <1>1, <1>9, <2>1 DEF PollCopy, Delivered, Excused
<1>10. CASE PollCheck
  <2>1. snap = Whole(history[Len(history)])
    BY <1>0, <1>10, NewestDelivered
  <2>. QED
    BY <1>1, <1>10, <2>1 DEF PollCheck, Delivered, Excused, Newest
<1>11. CASE PollChanged
  <2>1. wpc = "idle" => Len(history) # seen
    BY <1>1, <1>11 DEF PollChanged, Versions, Copying, Excused
  <2>. QED
    BY <1>1, <1>11, <2>1 DEF PollChanged, Delivered, Excused, Newest
<1>12. CASE UNCHANGED vars
  BY <1>1, <1>12 DEF vars, Delivered, Excused, Newest
<1>. QED
  BY <1>0, <1>2, <1>3, <1>4, <1>5, <1>6, <1>7, <1>8, <1>9, <1>10, <1>11, <1>12
     DEF Next, WriterStep, ReaderStep

\* As long as the first owner lives, a poll that answers false while nothing is
\* being written leaves its caller with the newest configuration (poll_config
\* of shm/shm_manager.cpp, "false if there is no update").
THEOREM NothingMissed == Spec => []FirstOwnerMissesNone
<1>1. Init => MInv
  BY DEF Init, MInv, Delivered, Excused
<1>2. IInv /\ MInv /\ [Next]_vars => MInv'
  BY MStep
<1>3. IInv /\ MInv => FirstOwnerMissesNone
  BY DEF MInv, OneLife, Delivered, Excused, FirstOwnerMissesNone, NoUpdateMissed, Quiet,
         Newest
<1>. QED
  BY <1>1, <1>2, <1>3, Invariance, PTL DEF Spec
=============================================================================
