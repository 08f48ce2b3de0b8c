---------------------------- MODULE RingRestart ----------------------------
(***************************************************************************)
(* The event rings of TradeData across a restart of the manager process    *)
(* (ShmManager::create in shm/shm_manager.cpp).  The manager owns the      *)
(* shared object and is the consumer of the rings.  When it dies without   *)
(* detach(), its successor's create() opens the object that is still       *)
(* linked, truncates and zeroes it, and builds empty queues in place, while *)
(* the strategy process keeps its mapping and may be in the middle of push *)
(* with its old tail in a register.                                        *)
(***************************************************************************)
EXTENDS SpscQueue

CONSTANT MaxRestarts   \* how often the manager is restarted
ASSUME MaxRestartsAssumption == MaxRestarts \in Nat

VARIABLES
  restarts,
  \* History: "clean", "push" while a push that began before the latest restart
  \* is still running, "ring" when such a push has been published and the
  \* consumer has not found the ring empty since.
  dirt

rvars == <<restarts, dirt>>

RInit == Init /\ restarts = 0 /\ dirt = "clean"

\* Faulty: only the consumer's index is reset.
RecreateHeadOnly ==
  /\ restarts < MaxRestarts
  /\ head' = 0
  /\ slots' = [i \in Index |-> Whole(Zero)]
  /\ cpc' = "idle" /\ cval' = Whole(Zero) /\ chead' = 0 /\ cdone' = {} /\ popped' = "failed"
  /\ restarts' = restarts + 1
  /\ dirt' = IF ppc = "idle" THEN "clean" ELSE "push"
  /\ UNCHANGED <<tail, pvars>>

\* O_TRUNC, memset(p_data, 0) and new (p_data) TradeData{}: both indices and all
\* slots are zero; the successor's consumer starts afresh.
Recreate ==
  /\ restarts < MaxRestarts
  /\ head' = 0 /\ tail' = 0
  /\ slots' = [i \in Index |-> Whole(Zero)]
  /\ cpc' = "idle" /\ cval' = Whole(Zero) /\ chead' = 0 /\ cdone' = {} /\ popped' = "failed"
  /\ restarts' = restarts + 1
  /\ dirt' = IF ppc = "idle" THEN "clean" ELSE "push"
  /\ UNCHANGED pvars

RNext ==
  \/ Recreate
  \/ /\ Next
     /\ restarts' = restarts
     /\ dirt' = CASE dirt = "push" /\ pushed' = "ok" -> "ring"
                  [] dirt = "push" /\ pushed' = "failed" -> "clean"
                  [] dirt = "ring" /\ popped = "none" /\ popped' = "failed" -> "clean"
                  [] OTHER -> dirt

RSpec == RInit /\ [][RNext]_<<vars, rvars>>

-----------------------------------------------------------------------------
(* Properties                                                              *)

\* A restart loses events, but makes pop hand out something that was never
\* pushed only if it hit push half way, and only until the manager has once
\* found the ring empty again.
PhantomsNeedInterruptedPush == dirt = "clean" => WholeEvents
=============================================================================
