--------------------------- MODULE ConfigRegister ---------------------------
(***************************************************************************)
(* What write_config and poll_config (shm/shm_manager.h) promise the two   *)
(* processes while the owner lives: a register of configurations.  A poll  *)
(* either delivers the newest configuration, if it is newer than the one   *)
(* delivered before, or answers false.  Once the owner is gone, nothing is  *)
(* promised any more.                                                      *)
(***************************************************************************)
EXTENDS Naturals, Sequences

CONSTANTS
  Configs,       \* the configurations the manager writes
  Zero,          \* stands for "nothing delivered by this poll"
  Contents(_)    \* what the reader holds after a configuration was delivered

VARIABLES
  log,      \* the configurations written so far
  taken,    \* how many of them precede, or are, the one delivered last
  answer,   \* the poll's answer: "none" while it runs
  got,      \* what a poll that answered "true" delivered
  alive     \* whether the owner lives

vars == <<log, taken, answer, got, alive>>

Init ==
  /\ log = <<>>
  /\ taken = 0
  /\ answer = "false"
  /\ got = Contents(Zero)
  /\ alive = TRUE

Publish(c) ==
  /\ log' = Append(log, c)
  /\ UNCHANGED <<taken, answer, got>>

PollCall ==
  /\ answer # "none"
  /\ answer' = "none"
  /\ got' = Contents(Zero)
  /\ UNCHANGED <<log, taken>>

PollNew ==
  /\ answer = "none"
  /\ taken < Len(log)
  /\ taken' = Len(log)
  /\ got' = Contents(log[Len(log)])
  /\ answer' = "true"
  /\ UNCHANGED log

PollNone ==
  /\ answer = "none"
  /\ answer' = "false"
  /\ UNCHANGED <<log, taken, got>>

Operation == (\E c \in Configs : Publish(c)) \/ PollCall \/ PollNew \/ PollNone

\* The owner goes, or has gone: the rest of the register may change as it likes.
OwnerGone == alive' = FALSE

Next == (alive /\ alive' /\ Operation) \/ OwnerGone

Spec == Init /\ [][Next]_vars
=============================================================================
