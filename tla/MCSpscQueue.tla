---------------------------- MODULE MCSpscQueue ----------------------------
(***************************************************************************)
(* SpscQueue for TLC: a ring of 4 slots, two-word events, two event        *)
(* values.  Succ stands for (i + 1) & (N - 1); the assumption below        *)
(* compares the two on every ring size up to 512.                          *)
(***************************************************************************)
EXTENDS SpscQueue, Bitwise

ASSUME SuccIsMask ==
  \A n \in {2, 4, 8, 16, 64, 256, 512} : \A i \in 0 .. (n - 1) :
    (i + 1) & (n - 1) = IF i = n - 1 THEN 0 ELSE i + 1
=============================================================================
