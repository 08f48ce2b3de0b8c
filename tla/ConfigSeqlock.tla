--------------------------- MODULE ConfigSeqlock ---------------------------
(***************************************************************************)
(* ShmManager::write_config and ShmManager::poll_config                    *)
(* (shm/shm_manager.cpp): the manager process publishes StrategyConfig in  *)
(* shared memory under a sequence lock, the strategy process polls it.     *)
(*                                                                         *)
(* The two processes interleave at every load and store of version and at  *)
(* every word that a memcpy moves, in any order of the words.  The fences  *)
(* keep a copy between the accesses to version around it, so steps of one  *)
(* process take effect in program order.                                   *)
(*                                                                         *)
(* The owner may also crash and call create() again on the object that is  *)
(* still linked (Recreate): O_TRUNC and memset zero the mapped pages under *)
(* the reader, which keeps its mapping and its last_config_version_.       *)
(***************************************************************************)
EXTENDS Naturals, Sequences

CONSTANTS
  Words,       \* the words of a StrategyConfig after version
  Configs,     \* the configurations the manager writes
  Zero,        \* the contents of a zeroed object
  MaxVersion,  \* version stays below this bound (2^32 in the code)
  MaxRestarts  \* how often the owner is restarted

ASSUME WordsAssumption == Words # {}
ASSUME ZeroAssumption == Zero \notin Configs
ASSUME BoundAssumption == MaxVersion \in Nat /\ MaxRestarts \in Nat

VARIABLES
  version,    \* config_->version
  words,      \* the words of *config_ after version
  wpc,        \* where the writer is: "idle", "mark", "copy"
  src,        \* write_config's argument
  wv,         \* write_config's local v
  wdone,      \* the words the writer's memcpy has written
  rpc,        \* where the reader is: "idle", "load", "copy"
  v1,         \* poll_config's local v1
  rdone,      \* the words the reader's memcpy has read
  snap,       \* the words of poll_config's out parameter
  snapVersion,  \* snap.version
  last,       \* last_config_version_
  polled,     \* what poll_config returned, "none" while it runs
  \* History, read by properties only
  history,    \* the configurations of this owner's life, one per write_config
  seen,       \* Len(history) when the latest poll began
  epoch,      \* restarts when the latest poll began
  restarts    \* how often the owner has been restarted

shared == <<version, words>>
wvars == <<wpc, src, wv, wdone>>
rvars == <<rpc, v1, rdone, snap, snapVersion, last, polled>>
hvars == <<history, seen, epoch, restarts>>
vars == <<shared, wvars, rvars, hvars>>

Whole(c) == [w \in Words |-> c]
Memory == [Words -> Configs \cup {Zero}]
Odd(n) == n % 2 = 1

\* The object after create(): zeroed, StrategyConfig{} built in place.
Init ==
  /\ version = 0 /\ words = Whole(Zero)
  /\ wpc = "idle" /\ src = Zero /\ wv = 0 /\ wdone = {}
  /\ rpc = "idle" /\ v1 = 0 /\ rdone = {}
  /\ snap = Whole(Zero) /\ snapVersion = 0 /\ last = 0 /\ polled = "false"
  /\ history = <<>> /\ seen = 0 /\ epoch = 0 /\ restarts = 0

-----------------------------------------------------------------------------
(* write_config(src), in the manager process                               *)

\* Faulty: the argument is not taken over.
WriteBeginStale(c) ==
  /\ wpc = "idle"
  /\ version + 2 <= MaxVersion
  /\ wv' = version
  /\ wpc' = "mark"
  /\ UNCHANGED <<shared, src, wdone, rvars, history, seen, epoch, restarts>>

\* version.store(v + 1, relaxed) follows the load of v: only the owner stores.
WriteBegin(c) ==
  /\ wpc = "idle"
  /\ version + 2 <= MaxVersion
  /\ src' = c
  /\ wv' = version
  /\ wpc' = "mark"
  /\ UNCHANGED <<shared, wdone, rvars, history, seen, epoch, restarts>>

\* Faulty: the version does not become odd.
WriteMarkEven ==
  /\ wpc = "mark"
  /\ wdone' = {}
  /\ wpc' = "copy"
  /\ UNCHANGED <<shared, src, wv, rvars, history, seen, epoch, restarts>>

WriteMark ==
  /\ wpc = "mark"
  /\ version' = wv + 1
  /\ wdone' = {}
  /\ wpc' = "copy"
  /\ UNCHANGED <<words, src, wv, rvars, history, seen, epoch, restarts>>

WriteCopy(w) ==
  /\ wpc = "copy"
  /\ w \notin wdone
  /\ words' = [words EXCEPT ![w] = src]
  /\ wdone' = wdone \cup {w}
  /\ UNCHANGED <<version, wpc, src, wv, rvars, history, seen, epoch, restarts>>

\* Faulty: the version returns to what it was before the write.
WriteEndReverts ==
  /\ wpc = "copy"
  /\ wdone = Words
  /\ version' = wv
  /\ wpc' = "idle"
  /\ history' = Append(history, src)
  /\ UNCHANGED <<words, src, wv, wdone, rvars, seen, epoch, restarts>>

WriteEnd ==
  /\ wpc = "copy"
  /\ wdone = Words
  /\ version' = wv + 2
  /\ wpc' = "idle"
  /\ history' = Append(history, src)
  /\ UNCHANGED <<words, src, wv, wdone, rvars, seen, epoch, restarts>>

\* The owner dies at any point and its successor runs create() on the object
\* that is still linked; write_config is never resumed.
Recreate ==
  /\ restarts < MaxRestarts
  /\ version' = 0
  /\ words' = Whole(Zero)
  /\ wpc' = "idle"
  /\ history' = <<>>
  /\ restarts' = restarts + 1
  /\ UNCHANGED <<src, wv, wdone, rvars, seen, epoch>>

-----------------------------------------------------------------------------
(* poll_config(snap), in the strategy process                              *)

PollBegin ==
  /\ rpc = "idle"
  /\ rpc' = "load"
  /\ polled' = "none"
  /\ seen' = Len(history)
  /\ epoch' = restarts
  /\ UNCHANGED <<shared, wvars, v1, rdone, snap, snapVersion, last, history, restarts>>

\* if (v1 & 1) return false;  if (v1 == last_config_version_) return false;
PollNothing ==
  /\ rpc = "load"
  /\ v1' = version
  /\ Odd(version) \/ version = last
  /\ rpc' = "idle"
  /\ polled' = "false"
  /\ UNCHANGED <<shared, wvars, rdone, snap, snapVersion, last, hvars>>

\* Faulty: a write in progress is not noticed.
PollLoadOdd ==
  /\ rpc = "load"
  /\ v1' = version
  /\ version # last
  /\ rdone' = {}
  /\ rpc' = "copy"
  /\ UNCHANGED <<shared, wvars, snap, snapVersion, last, polled, hvars>>

PollLoad ==
  /\ rpc = "load"
  /\ v1' = version
  /\ ~Odd(version) /\ version # last
  /\ rdone' = {}
  /\ rpc' = "copy"
  /\ UNCHANGED <<shared, wvars, snap, snapVersion, last, polled, hvars>>

PollCopy(w) ==
  /\ rpc = "copy"
  /\ w \notin rdone
  /\ snap' = [snap EXCEPT ![w] = words[w]]
  /\ rdone' = rdone \cup {w}
  /\ UNCHANGED <<shared, wvars, rpc, v1, snapVersion, last, polled, hvars>>

\* Faulty: last_config_version_ is not updated.
PollCheckForgets ==
  /\ rpc = "copy"
  /\ rdone = Words
  /\ version = v1
  /\ snapVersion' = v1
  /\ rpc' = "idle"
  /\ polled' = "true"
  /\ UNCHANGED <<shared, wvars, v1, rdone, snap, last, hvars>>

PollCheck ==
  /\ rpc = "copy"
  /\ rdone = Words
  /\ version = v1
  /\ snapVersion' = v1
  /\ last' = v1
  /\ rpc' = "idle"
  /\ polled' = "true"
  /\ UNCHANGED <<shared, wvars, v1, rdone, snap, hvars>>

PollChanged ==
  /\ rpc = "copy"
  /\ rdone = Words
  /\ version # v1
  /\ rpc' = "idle"
  /\ polled' = "false"
  /\ UNCHANGED <<shared, wvars, v1, rdone, snap, snapVersion, last, hvars>>

-----------------------------------------------------------------------------
WriterStep == WriteMark \/ (\E w \in Words : WriteCopy(w)) \/ WriteEnd
ReaderStep == PollNothing \/ PollLoad \/ (\E w \in Words : PollCopy(w)) \/ PollCheck \/ PollChanged

Next ==
  \/ \E c \in Configs : WriteBegin(c)
  \/ WriterStep
  \/ Recreate
  \/ PollBegin
  \/ ReaderStep

Spec == Init /\ [][Next]_vars

\* write_config and poll_config have no loops, so a scheduled process finishes
\* them; the engine polls as long as it runs.  Nothing makes the owner write.
Fairness == WF_vars(WriterStep) /\ WF_vars(PollBegin) /\ WF_vars(ReaderStep)
FairSpec == Spec /\ Fairness

-----------------------------------------------------------------------------
(* Properties                                                              *)

\* Type invariant.
TypeOK ==
  /\ version \in Nat /\ words \in Memory
  /\ wpc \in {"idle", "mark", "copy"} /\ src \in Configs \cup {Zero}
  /\ wpc # "idle" => src \in Configs
  /\ wv \in Nat /\ wdone \subseteq Words
  /\ rpc \in {"idle", "load", "copy"} /\ v1 \in Nat /\ rdone \subseteq Words
  /\ snap \in Memory /\ snapVersion \in Nat /\ last \in Nat
  /\ polled \in {"none", "true", "false"}
  /\ history \in Seq(Configs)
  /\ seen \in Nat /\ restarts \in Nat /\ epoch \in 0 .. restarts

\* The owner has been restarted since the latest poll began.
Hit == restarts # epoch

\* The owner has not been writing since the latest poll began.
Quiet == ~Hit /\ wpc = "idle" /\ Len(history) = seen

WholeConfigs == {Whole(c) : c \in Configs \cup {Zero}}

\* "v1==v2 means valid" (shm_spreads.h): a poll that answers true has copied
\* the words of one configuration, never of two, unless the owner was restarted
\* in the middle of that very poll: version begins again at 0, so two lives of
\* the owner can show the poll the same version with different contents.
TornOnlyAcrossRestart == polled = "true" /\ ~Hit => snap \in WholeConfigs

\* "true if there is a new version, false if there is no update"
\* (shm_manager.h): a poll that answers false although no write was in progress
\* leaves the caller with the newest configuration.
NoUpdateMissed ==
  polled = "false" /\ Quiet /\ history # <<>>
     => snap = Whole(history[Len(history)])

\* What of it survives restarts: it is true of the first owner.
FirstOwnerMissesNone == restarts = 0 => NoUpdateMissed

Register == INSTANCE ConfigRegister WITH
              log <- history,
              taken <- last \div 2,
              answer <- polled,
              got <- IF polled = "true" THEN snap ELSE Whole(Zero),
              alive <- restarts = 0,
              Contents <- Whole

\* While the owner lives, the sequence lock is an atomic register: a poll that
\* answers true delivers the newest configuration at one point inside the call,
\* whole, and newer than the one delivered before.
ImplementsRegister == Register!Spec

\* A configuration that has been written reaches the reader, or a newer one
\* does, as long as the owner lives: polls that collide with a write are
\* retried and succeed in the end.
WrittenConfigArrives ==
  \A k \in 1 .. (MaxVersion \div 2) :
    restarts = 0 /\ Len(history) = k ~> last >= 2 * k \/ restarts > 0
=============================================================================
