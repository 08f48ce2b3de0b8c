----------------------------- MODULE Connection -----------------------------
(***************************************************************************)
(* What WssClient promises an owner whose on_error only logs: a connection *)
(* that is being made again whenever it is lost, until close() is called.  *)
(* From then on nothing new is begun: an attempt to connect that is under  *)
(* way may still succeed, once, and a connection that has ended stays down.*)
(***************************************************************************)
VARIABLES
  conn,     \* "connecting", "up", "closing" (close() has been called on it) or "down"
  stopping  \* close() has been called

vars == <<conn, stopping>>

Init ==
  /\ conn = "connecting"
  /\ stopping = FALSE

ComesUp ==
  /\ conn = "connecting"
  /\ conn' = "up"
  /\ UNCHANGED stopping

Lost ==
  /\ conn = "up"
  /\ conn' = IF stopping THEN "down" ELSE "connecting"
  /\ UNCHANGED stopping

\* A wait for the next attempt is given up at once.
Close ==
  /\ ~stopping
  /\ stopping' = TRUE
  /\ IF conn = "up" THEN conn' = "closing" ELSE conn' \in {conn, "down"}

GivenUp ==
  /\ conn = "connecting" /\ stopping
  /\ conn' = "down"
  /\ UNCHANGED stopping

Closed ==
  /\ conn = "closing"
  /\ conn' = "down"
  /\ UNCHANGED stopping

Next == ComesUp \/ Lost \/ Close \/ GivenUp \/ Closed

Spec == Init /\ [][Next]_vars
=============================================================================
