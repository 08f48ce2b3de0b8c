------------------------- MODULE MCExchangeQueries -------------------------
(* ExchangeQueries for TLC: two pairs, and calls that overlap with a change   *)
(* of the account or the tables.                                              *)
EXTENDS ExchangeQueries, TLC

Symmetry == Permutations(Pairs)
=============================================================================
