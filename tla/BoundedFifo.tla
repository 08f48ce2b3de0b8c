---------------------------- MODULE BoundedFifo ----------------------------
(***************************************************************************)
(* What SpscQueue (shm/shm_types.h) promises its two callers: a bounded    *)
(* first-in first-out queue whose operations take effect in one step       *)
(* between call and return.  A push fails only when the queue is full, a   *)
(* pop fails only when it is empty.                                        *)
(***************************************************************************)
EXTENDS Naturals, Sequences

CONSTANTS
  Events,    \* the events that callers push
  Capacity,  \* how many of them the queue holds
  NoEvent    \* what out is while no event has been handed out

VARIABLES
  queue,     \* the events pushed and not yet popped, oldest first
  pushed,    \* what the producer's call has returned: "none" while it runs
  popped,    \* what the consumer's call has returned: "none" while it runs
  out        \* the event of a pop that returned "ok"

vars == <<queue, pushed, popped, out>>

Init ==
  /\ queue = <<>>
  /\ pushed = "ok"
  /\ popped = "failed"
  /\ out = NoEvent

PushCall ==
  /\ pushed # "none"
  /\ pushed' = "none"
  /\ UNCHANGED <<queue, popped, out>>

Push(e) ==
  /\ pushed = "none"
  /\ Len(queue) < Capacity
  /\ queue' = Append(queue, e)
  /\ pushed' = "ok"
  /\ UNCHANGED <<popped, out>>

PushFull ==
  /\ pushed = "none"
  /\ Len(queue) = Capacity
  /\ pushed' = "failed"
  /\ UNCHANGED <<queue, popped, out>>

PopCall ==
  /\ popped # "none"
  /\ popped' = "none"
  /\ out' = NoEvent
  /\ UNCHANGED <<queue, pushed>>

Pop ==
  /\ popped = "none"
  /\ queue # <<>>
  /\ out' = Head(queue)
  /\ queue' = Tail(queue)
  /\ popped' = "ok"
  /\ UNCHANGED pushed

PopEmpty ==
  /\ popped = "none"
  /\ queue = <<>>
  /\ popped' = "failed"
  /\ UNCHANGED <<queue, pushed, out>>

Next ==
  \/ PushCall
  \/ \E e \in Events : Push(e)
  \/ PushFull
  \/ PopCall
  \/ Pop
  \/ PopEmpty

Spec == Init /\ [][Next]_vars
=============================================================================
